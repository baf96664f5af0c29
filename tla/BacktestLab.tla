---------------------------- MODULE BacktestLab -----------------------------
(***************************************************************************)
(* The backtesting lab of the web terminal (web/src/components/backtest):  *)
(* the configuration, the run in flight, the results shown and the trade   *)
(* table with its search and pages.                                        *)
(*                                                                         *)
(* The lab stays mounted behind the other tabs, so a run survives a change *)
(* of tab; the view of the results is mounted when it is selected, so the  *)
(* table forgets its page and search when another view is opened.          *)
(***************************************************************************)
EXTENDS Integers, FiniteSets

CONSTANTS Strategies, Periods,
          Symbols,        \* AVAILABLE_SYMBOLS
          Presets,        \* configurations of the preset buttons
          DefaultConfig,
          TradeCounts,    \* [all, hits]: trades of a result, and those a search keeps
          PageSize,
          MaxRuns,        \* bound: runs
          MaxEdits        \* bound: changes of the configuration

Configs == [strategy : Strategies, symbols : (SUBSET Symbols) \ {{}}, period : Periods]

ASSUME BacktestLabAssumption ==
    /\ DefaultConfig \in Configs
    /\ Presets \subseteq Configs
    /\ \A t \in TradeCounts : t.all \in Nat /\ t.hits \in 0..t.all
    /\ PageSize \in Nat \ {0}
    /\ MaxRuns \in Nat \ {0, 1} /\ MaxEdits \in Nat

VARIABLES config, results, isRunning, errorMsg, activeView,
          inFlight,       \* requests of runBacktest in flight
          started,        \* runs started
          currentPage, searching,   \* of the table; searchTerm is empty or not
          edits,
          idled,          \* history: the lab has been without a run in flight
          replaced        \* history: results changed under the table since it paged

labVars == <<config, results, isRunning, errorMsg, activeView, inFlight, started,
          currentPage, searching, edits, idled, replaced>>
table == <<currentPage, searching, replaced>>

NoTrades == [all |-> 0, hits |-> 0]
NoResults == [n |-> 0, of |-> DefaultConfig, trades |-> NoTrades]

\* The table is mounted.
tableShown == activeView = "trades" /\ results # NoResults

filteredTrades == IF searching THEN results.trades.hits ELSE results.trades.all
totalPages ==
    LET pages == (filteredTrades + PageSize - 1) \div PageSize
    IN  IF pages = 0 THEN 1 ELSE pages

-----------------------------------------------------------------------------
\* The effect of the mount starts a run.  On the development server, React.StrictMode
\* runs that effect twice, and two runs are in flight.
LabInit ==
    /\ config = DefaultConfig
    /\ results = NoResults
    /\ isRunning = TRUE
    /\ errorMsg = FALSE
    /\ activeView = "equity"
    /\ started \in 1..2
    /\ inFlight = {[n |-> i, of |-> DefaultConfig] : i \in 1..started}
    /\ currentPage = 1 /\ searching = FALSE
    /\ edits = 0
    /\ idled = FALSE
    /\ replaced = FALSE

-----------------------------------------------------------------------------
(***************************************************************************)
(* Control panel                                                           *)
(***************************************************************************)
onChange(c) ==
    /\ edits < MaxEdits
    /\ edits' = edits + 1
    /\ config' = c
    /\ UNCHANGED <<results, isRunning, errorMsg, activeView, inFlight, started, table, idled>>

\* The last symbol of the basket cannot be removed.
toggledBasket(sym) ==
    CASE sym \notin config.symbols -> config.symbols \cup {sym}
      [] sym \in config.symbols /\ Cardinality(config.symbols) > 1 -> config.symbols \ {sym}
      [] OTHER -> config.symbols

toggleSymbol(sym) == onChange([config EXCEPT !.symbols = toggledBasket(sym)])
applyPreset(p) == onChange(p)
setDateRangePreset(d) == onChange([config EXCEPT !.period = d])
selectStrategy(s) == onChange([config EXCEPT !.strategy = s])

-----------------------------------------------------------------------------
(***************************************************************************)
(* Runs                                                                    *)
(***************************************************************************)

\* MUTANT: the button is not disabled during a run.
canRun_Always == TRUE
\* The button is disabled while a run is in flight.
canRun == ~isRunning

runBacktest ==
    /\ canRun
    /\ started < MaxRuns
    /\ started' = started + 1
    /\ isRunning' = TRUE
    /\ errorMsg' = FALSE
    /\ inFlight' = inFlight \cup {[n |-> started + 1, of |-> config]}
    /\ UNCHANGED <<config, results, activeView, table, edits, idled>>

\* `finally' ends the run, and enables the button whatever else is in flight.
runEnds(r) ==
    /\ inFlight' = inFlight \ {r}
    /\ isRunning' = FALSE
    /\ idled' = (idled \/ inFlight' = {})

\* The answer replaces the results, of a later run too, and also under an open table.
RunAnswered(r, trades) ==
    /\ runEnds(r)
    /\ results' = [n |-> r.n, of |-> r.of, trades |-> trades]
    /\ replaced' = (replaced \/ tableShown)
    /\ UNCHANGED <<config, errorMsg, activeView, started, currentPage, searching, edits>>

\* MUTANT: only an answer ends the run.
RunFails_StillRunning(r) ==
    /\ inFlight' = inFlight \ {r}
    /\ idled' = (idled \/ inFlight' = {})
    /\ errorMsg' = TRUE
    /\ UNCHANGED <<config, results, isRunning, activeView, started, table, edits>>
\* An error keeps the old results.
RunFails(r) ==
    /\ runEnds(r)
    /\ errorMsg' = TRUE
    /\ UNCHANGED <<config, results, activeView, started, table, edits>>

\* An answer that is not an object is dropped without an error.
RunAnsweredNothing(r) ==
    /\ runEnds(r)
    /\ UNCHANGED <<config, results, errorMsg, activeView, started, table, edits>>

dismissError ==
    /\ errorMsg
    /\ errorMsg' = FALSE
    /\ UNCHANGED <<config, results, isRunning, activeView, inFlight, started, table, edits,
                   idled>>

-----------------------------------------------------------------------------
(***************************************************************************)
(* Views and the trade table                                               *)
(***************************************************************************)
setActiveView(v) ==
    /\ v # activeView
    /\ activeView' = v
    /\ currentPage' = 1 /\ searching' = FALSE /\ replaced' = FALSE
    /\ UNCHANGED <<config, results, isRunning, errorMsg, inFlight, started, edits, idled>>

Paged(page, term) ==
    /\ tableShown
    /\ currentPage' = page
    /\ searching' = term
    /\ replaced' = (replaced /\ page # 1)
    /\ UNCHANGED <<config, results, isRunning, errorMsg, activeView, inFlight, started, edits,
                   idled>>

\* MUTANT: a search stays on the page.
setSearchTerm_SamePage(term) == term # searching /\ Paged(currentPage, term)
\* A search starts at the first page.
setSearchTerm(term) == term # searching /\ Paged(1, term)

\* The buttons exist with more than one page.
nextPage == totalPages > 1 /\ currentPage < totalPages /\ Paged(currentPage + 1, searching)
previousPage == totalPages > 1 /\ currentPage > 1 /\ Paged(currentPage - 1, searching)

-----------------------------------------------------------------------------
LabNext ==
    \/ \E s \in Symbols : toggleSymbol(s)
    \/ \E p \in Presets : applyPreset(p)
    \/ \E d \in Periods : setDateRangePreset(d)
    \/ \E s \in Strategies : selectStrategy(s)
    \/ runBacktest
    \/ \E r \in inFlight :
          \/ \E t \in TradeCounts : RunAnswered(r, t)
          \/ RunFails(r)
          \/ RunAnsweredNothing(r)
    \/ dismissError
    \/ \E v \in {"equity", "heatmap", "trades"} : setActiveView(v)
    \/ \E term \in BOOLEAN : setSearchTerm(term)
    \/ nextPage
    \/ previousPage

\* The browser ends every request, with an answer or an error.
Fairness ==
    \A n \in 1..MaxRuns :
        WF_labVars(\E r \in inFlight :
                   /\ r.n = n
                   /\ (\E t \in TradeCounts : RunAnswered(r, t)) \/ RunFails(r)
                        \/ RunAnsweredNothing(r))

LabSpec == LabInit /\ [][LabNext]_labVars
LabFairSpec == LabSpec /\ Fairness

-----------------------------------------------------------------------------
(***************************************************************************)
(* Properties                                                              *)
(***************************************************************************)
LabTypeOK ==
    /\ config \in Configs
    /\ results \in [n : 0..MaxRuns, of : Configs, trades : TradeCounts \cup {NoTrades}]
    /\ isRunning \in BOOLEAN /\ errorMsg \in BOOLEAN /\ searching \in BOOLEAN
    /\ idled \in BOOLEAN
    /\ inFlight \subseteq [n : 1..started, of : Configs]
    /\ started \in 1..MaxRuns
    /\ currentPage \in Nat \ {0}

\* The button and the requests: while the panel shows a run one is in flight, and
\* never more than one other, left over from the two of a mount under StrictMode, of
\* which the first to end enabled the button.  Once none was in flight they agree.
RunsOverlap ==
    /\ Cardinality(inFlight) <= IF isRunning THEN 2 ELSE 1
    /\ isRunning => inFlight # {}
    /\ idled => Cardinality(inFlight) <= 1 /\ (isRunning <=> inFlight # {})

\* No answer replaces the results of a later run, however the configuration was edited
\* and the views changed meanwhile, once the lab has been without a run in flight.
\* Until then the runs of a mount under StrictMode can overtake each other and the
\* next one: the code does not look at which run an answer belongs to.
ResultsAdvance == [][idled /\ results' # results => results'.n > results.n]_labVars

\* The table never stands behind its last page, where it would say "No trade
\* records found." although there are some, unless the results were replaced
\* under it and the user has not gone back to the first page.
PageInRange == tableShown /\ ~replaced => currentPage <= totalPages

\* What keeps these: once the lab has been idle the run in flight is the latest one,
\* before that there are at most two, and a table that is not shown stands at its
\* first page.
LabInv ==
    /\ LabTypeOK
    /\ results.n <= started
    /\ idled =>
          \/ ~isRunning /\ inFlight = {}
          \/ /\ isRunning /\ results.n < started
             /\ \E c \in Configs : inFlight = {[n |-> started, of |-> c]}
    /\ ~idled =>
          \/ \E a \in inFlight : inFlight = {a}
          \/ isRunning /\ \E a \in inFlight, b \in inFlight : inFlight = {a, b}
    /\ ~tableShown => currentPage = 1
    /\ PageInRange

\* Whatever becomes of a run, the button is enabled again.
RunReturns == isRunning ~> ~isRunning
=============================================================================
