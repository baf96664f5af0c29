--------------------------- MODULE TerminalProofs ---------------------------
(***************************************************************************)
(* The web terminal, for every value of the constants: the results and     *)
(* pages of the lab (BacktestLab); the selection and the watchlist         *)
(* (WebMarket); the links to the BFF (WebLink), and the circuit state they *)
(* carry (TerminalCircuit).                                                *)
(***************************************************************************)
EXTENDS WebMarket, BacktestLab, TerminalCircuit, SumTheorems, TLAPS

-----------------------------------------------------------------------------
(***************************************************************************)
(* The lab                                                                 *)
(***************************************************************************)
\* A table has at least one page.
LEMMA PagesPositive ==
    ASSUME results.trades.all \in Nat, results.trades.hits \in Nat
    PROVE  totalPages \in Nat /\ totalPages >= 1
<1>1. filteredTrades \in Nat
    BY DEF filteredTrades
<1>2. PageSize \in Nat \ {0}
    BY BacktestLabAssumption
<1>3. \A n \in Nat, p \in Nat \ {0} : (n + p - 1) \div p \in Nat
    OBVIOUS
<1> QED BY <1>1, <1>2, <1>3 DEF totalPages

\* The trades of a result are counted by natural numbers.
LEMMA TradesCounted ==
    ASSUME results \in [n : 0..MaxRuns, of : Configs, trades : TradeCounts \cup {NoTrades}]
    PROVE  results.trades.all \in Nat /\ results.trades.hits \in Nat
BY BacktestLabAssumption DEF NoTrades

\* The same after a step.
LEMMA NewPages ==
    ASSUME results'.trades.all \in Nat, results'.trades.hits \in Nat
    PROVE  totalPages' \in Nat /\ totalPages' >= 1
<1>1. filteredTrades' \in Nat
    BY DEF filteredTrades
<1>2. PageSize \in Nat \ {0}
    BY BacktestLabAssumption
<1>3. \A n \in Nat, p \in Nat \ {0} : (n + p - 1) \div p \in Nat
    OBVIOUS
<1> DEFINE pages == (filteredTrades' + PageSize - 1) \div PageSize
<1>4. totalPages' = IF pages = 0 THEN 1 ELSE pages
    BY DEF totalPages
<1>5. pages \in Nat
    BY <1>1, <1>2, <1>3
<1> QED BY <1>4, <1>5

\* The lab's invariant holds when the runs of the mount have started.
LEMMA LabInvInit == LabInit => LabInv
<1> SUFFICES ASSUME LabInit PROVE LabInv
    OBVIOUS
<1> USE BacktestLabAssumption
<1>1. isRunning \in BOOLEAN /\ errorMsg \in BOOLEAN /\ searching \in BOOLEAN /\ isRunning
      /\ idled \in BOOLEAN /\ ~idled
    BY Zenon DEF LabInit
<1>2. results \in [n : 0..MaxRuns, of : Configs, trades : TradeCounts \cup {NoTrades}]
    BY DEF LabInit, NoResults
<1> DEFINE run(i) == [n |-> i, of |-> DefaultConfig]
<1>3. started \in 1..2 /\ inFlight = {run(i) : i \in 1..started}
    BY DEF LabInit
<1>4. inFlight \subseteq [n : 1..started, of : Configs]
    BY <1>3
<1>5. LabTypeOK
    BY <1>1, <1>2, <1>3, <1>4 DEF LabInit, LabTypeOK
<1>6. results.n = 0 /\ results.n <= started
    BY <1>3 DEF LabInit, NoResults
<1>7. \/ \E a \in inFlight : inFlight = {a}
      \/ isRunning /\ \E a \in inFlight, b \in inFlight : inFlight = {a, b}
  <2>1. CASE started = 1
    <3>1. inFlight = {run(1)}
        BY <1>3, <2>1
    <3> QED BY <3>1
  <2>2. CASE started = 2
    <3>1. inFlight = {run(1), run(2)}
        BY <1>3, <2>2
    <3> HIDE DEF run
    <3> QED BY <1>1, <3>1
  <2> QED BY <1>3, <2>1, <2>2
<1>8. currentPage <= totalPages
    BY <1>2, TradesCounted, PagesPositive DEF LabInit
<1> QED BY <1>1, <1>5, <1>6, <1>7, <1>8 DEF LabInit, LabInv, PageInRange

\* The part of the invariant about the runs.
Runs ==
    /\ results.n <= started
    /\ idled =>
          \/ ~isRunning /\ inFlight = {}
          \/ /\ isRunning /\ results.n < started
             /\ \E c \in Configs : inFlight = {[n |-> started, of |-> c]}
    /\ ~idled =>
          \/ \E a \in inFlight : inFlight = {a}
          \/ isRunning /\ \E a \in inFlight, b \in inFlight : inFlight = {a, b}

\* A pair has at most two elements.
LEMMA PairCounted == \A a, b : Cardinality({a, b}) <= 2
<1> SUFFICES ASSUME NEW a, NEW b PROVE Cardinality({a, b}) <= 2
    OBVIOUS
<1>1. IsFiniteSet({a}) /\ Cardinality({a}) = 1
    BY FS_Singleton, Zenon
<1>2. Cardinality({a} \cup {b}) = IF b \in {a} THEN Cardinality({a}) ELSE Cardinality({a}) + 1
    BY <1>1, FS_AddElement
<1>3. {a, b} = {a} \cup {b}
    OBVIOUS
<1> QED BY <1>1, <1>2, <1>3

\* Every step of the lab keeps its invariant.
LEMMA LabInvStep == LabInv /\ [LabNext]_labVars => LabInv'
<1> SUFFICES ASSUME LabInv, [LabNext]_labVars PROVE LabInv'
    OBVIOUS
<1> USE BacktestLabAssumption
<1>0. /\ LabTypeOK
      /\ isRunning \in BOOLEAN /\ errorMsg \in BOOLEAN /\ searching \in BOOLEAN
      /\ results \in [n : 0..MaxRuns, of : Configs, trades : TradeCounts \cup {NoTrades}]
      /\ config \in Configs /\ started \in 1..MaxRuns /\ currentPage \in Nat \ {0}
      /\ idled \in BOOLEAN /\ inFlight \subseteq [n : 1..started, of : Configs]
      /\ MaxRuns \in Nat
    BY DEF LabInv, LabTypeOK
<1>1. totalPages \in Nat /\ totalPages >= 1
    BY <1>0, TradesCounted, PagesPositive
\* Changes that leave the table and its results alone.
<1>2. ASSUME UNCHANGED <<results, activeView, table>>
      PROVE  /\ UNCHANGED <<currentPage, searching>>
             /\ ~tableShown' => currentPage' = 1
             /\ PageInRange'
    BY <1>2 DEF LabInv, PageInRange, tableShown, totalPages, filteredTrades, table
\* Changes that leave the runs and the results alone.
<1>3. ASSUME UNCHANGED <<results, isRunning, inFlight, started, idled>>
      PROVE  Runs'
    BY <1>3 DEF LabInv, Runs
<1>4. ASSUME NEW c \in Configs, onChange(c) PROVE LabInv'
  <2>1. /\ config' = c
        /\ UNCHANGED <<results, isRunning, errorMsg, activeView, inFlight, started, table, idled>>
      BY <1>4 DEF onChange
  <2>2. LabTypeOK'
      BY <1>0, <1>2, <2>1 DEF LabTypeOK
  <2> QED BY <1>2, <1>3, <2>1, <2>2 DEF LabInv, Runs
<1>5. ASSUME NEW sym \in Symbols, toggleSymbol(sym) PROVE LabInv'
  <2>1. toggledBasket(sym) \in (SUBSET Symbols) \ {{}}
    <3>1. config.symbols \in (SUBSET Symbols) \ {{}}
        BY <1>0 DEF Configs
    <3>2. CASE sym \in config.symbols /\ Cardinality(config.symbols) > 1
      <4>1. config.symbols # {sym}
        <5>1. Cardinality({sym}) = 1
            BY FS_Singleton, Zenon
        <5> QED BY <3>2, <5>1
      <4>2. toggledBasket(sym) = config.symbols \ {sym}
          BY <3>2, SMTT(20) DEF toggledBasket
      <4> QED BY <3>1, <3>2, <4>1, <4>2
    <3>3. CASE sym \notin config.symbols
      <4>1. toggledBasket(sym) = config.symbols \cup {sym}
          BY <3>3, SMTT(20) DEF toggledBasket
      <4>2. sym \in Symbols
          BY <1>5
      <4> QED BY <3>1, <4>1, <4>2
    <3>4. CASE sym \in config.symbols /\ ~(Cardinality(config.symbols) > 1)
      <4>1. toggledBasket(sym) = config.symbols
          BY <3>4, SMTT(20) DEF toggledBasket
      <4> QED BY <3>1, <4>1
    <3> QED BY <3>2, <3>3, <3>4
  <2>2. [config EXCEPT !.symbols = toggledBasket(sym)] \in Configs
      BY <1>0, <2>1 DEF Configs
  <2> QED BY <1>4, <1>5, <2>2 DEF toggleSymbol
<1>6. ASSUME NEW c \in Presets, applyPreset(c) PROVE LabInv'
    BY <1>4, <1>6 DEF applyPreset
<1>7. ASSUME NEW d \in Periods, setDateRangePreset(d) PROVE LabInv'
  <2>1. [config EXCEPT !.period = d] \in Configs
      BY <1>0 DEF Configs
  <2> QED BY <1>4, <1>7, <2>1 DEF setDateRangePreset
<1>8. ASSUME NEW s \in Strategies, selectStrategy(s) PROVE LabInv'
  <2>1. [config EXCEPT !.strategy = s] \in Configs
      BY <1>0 DEF Configs
  <2> QED BY <1>4, <1>8, <2>1 DEF selectStrategy
<1>9. CASE runBacktest
  <2> DEFINE new == [n |-> started + 1, of |-> config]
  <2>1. /\ ~isRunning /\ started < MaxRuns /\ started' = started + 1
        /\ isRunning' = TRUE /\ errorMsg' = FALSE
        /\ inFlight' = inFlight \cup {new}
        /\ UNCHANGED <<config, results, activeView, table, edits, idled>>
      BY <1>9 DEF runBacktest, canRun
  <2>2. isRunning' \in BOOLEAN /\ errorMsg' \in BOOLEAN /\ isRunning'
      BY <2>1, Zenon
  <2>3. started' \in 1..MaxRuns /\ new \in [n : 1..started', of : Configs] /\ started \in Nat
        /\ started < started'
      BY <1>0, <2>1
  <2>4. inFlight' \subseteq [n : 1..started', of : Configs]
    <3>1. 1..started \subseteq 1..started'
        BY <2>3, <1>0
    <3>2. [n : 1..started, of : Configs] \subseteq [n : 1..started', of : Configs]
        BY <3>1
    <3> HIDE DEF new
    <3> QED BY <1>0, <2>1, <2>3, <3>2
  <2>5. LabTypeOK'
      BY <1>0, <1>2, <2>1, <2>2, <2>3, <2>4 DEF LabTypeOK
  <2>6. results' = results /\ results.n \in Nat /\ results.n <= started
      BY <1>0, <2>1 DEF LabInv
  <2>7. results'.n < started' /\ results'.n <= started'
      BY <2>3, <2>6
  <2>8. idled' => \E c \in Configs : inFlight' = {[n |-> started', of |-> c]}
    <3> SUFFICES ASSUME idled' PROVE \E c \in Configs : inFlight' = {[n |-> started', of |-> c]}
        OBVIOUS
    <3>1. inFlight = {}
        BY <2>1 DEF LabInv
    <3>2. inFlight' = {[n |-> started', of |-> config]}
        BY <2>1, <3>1
    <3> QED BY <1>0, <3>2
  <2>9. ~idled' => \E a \in inFlight', b \in inFlight' : inFlight' = {a, b}
    <3> SUFFICES ASSUME ~idled' PROVE \E a \in inFlight', b \in inFlight' : inFlight' = {a, b}
        OBVIOUS
    <3> HIDE DEF new
    <3>1. PICK a : inFlight = {a}
        BY <2>1 DEF LabInv
    <3>2. inFlight' = {a, new}
        BY <2>1, <3>1
    <3> QED BY <3>2
  <2>10. Runs'
    <3> HIDE DEF new
    <3> QED BY <2>2, <2>7, <2>8, <2>9 DEF Runs
  <2> QED BY <1>2, <2>1, <2>5, <2>10 DEF LabInv, Runs
\* A run ends: the button is enabled, and at most one other is in flight.
<1>10. ASSUME NEW r \in inFlight, runEnds(r), UNCHANGED started,
              results'.n \in Nat, results'.n <= started
       PROVE  /\ isRunning' \in BOOLEAN /\ idled' \in BOOLEAN
              /\ inFlight' \subseteq [n : 1..started', of : Configs]
              /\ Runs'
  <2>1. inFlight' = inFlight \ {r} /\ isRunning' = FALSE /\ idled' = (idled \/ inFlight' = {})
      BY <1>10 DEF runEnds
  <2>2. isRunning' \in BOOLEAN /\ ~isRunning'
      BY <2>1, Zenon
  <2>3. idled' \in BOOLEAN /\ (idled' <=> idled \/ inFlight' = {})
      BY <1>0, <2>1
  <2>4. idled => inFlight' = {}
      BY <1>10, <2>1 DEF LabInv
  <2>5. ~idled => inFlight' = {} \/ \E a \in inFlight' : inFlight' = {a}
    <3> SUFFICES ASSUME ~idled PROVE inFlight' = {} \/ \E a \in inFlight' : inFlight' = {a}
        OBVIOUS
    <3>1. CASE \E a \in inFlight : inFlight = {a}
        BY <1>10, <2>1, <3>1
    <3>2. ASSUME NEW a, NEW b, inFlight = {a, b}
          PROVE  inFlight' = {} \/ \E x \in inFlight' : inFlight' = {x}
      <4>1. inFlight' = {} \/ inFlight' = {a} \/ inFlight' = {b}
          BY <1>10, <2>1, <3>2
      <4> QED BY <4>1
    <3> QED BY <3>1, <3>2 DEF LabInv
  <2> QED BY <1>0, <1>10, <2>1, <2>2, <2>3, <2>4, <2>5 DEF Runs
<1>11. ASSUME NEW r \in inFlight, NEW t \in TradeCounts, RunAnswered(r, t) PROVE LabInv'
  <2>1. /\ runEnds(r)
        /\ results' = [n |-> r.n, of |-> r.of, trades |-> t]
        /\ replaced' = (replaced \/ tableShown)
        /\ UNCHANGED <<config, errorMsg, activeView, started, currentPage, searching, edits>>
      BY <1>11 DEF RunAnswered
  <2>2. r.n \in 1..started /\ r.of \in Configs
      BY <1>0, <1>11
  <2>3. /\ results' \in [n : 0..MaxRuns, of : Configs, trades : TradeCounts \cup {NoTrades}]
        /\ results'.n = r.n /\ results'.n \in Nat /\ results'.n <= started
      BY <1>0, <2>1, <2>2
  <2>4. /\ isRunning' \in BOOLEAN /\ idled' \in BOOLEAN
        /\ inFlight' \subseteq [n : 1..started', of : Configs]
        /\ Runs'
      BY <1>10, <1>11, <2>1, <2>3
  <2>5. LabTypeOK'
      BY <1>0, <2>1, <2>3, <2>4 DEF LabTypeOK
  <2>6. totalPages' \in Nat /\ totalPages' >= 1
    <3>1. results'.trades.all \in Nat /\ results'.trades.hits \in Nat
        BY <2>1
    <3> QED BY <3>1, NewPages
  <2>7. PageInRange' /\ (~tableShown' => currentPage' = 1)
    <3>1. CASE tableShown
      <4>1. tableShown'
        <5>1. results'.n # NoResults.n
            BY <2>2, <2>3 DEF NoResults
        <5> QED BY <2>1, <3>1, <5>1 DEF tableShown
      <4>2. replaced'
          BY <2>1, <3>1
      <4> QED BY <4>1, <4>2 DEF PageInRange
    <3>2. CASE ~tableShown
        BY <2>1, <2>6, <3>2 DEF LabInv, PageInRange
    <3> QED BY <3>1, <3>2
  <2> QED BY <2>4, <2>5, <2>7 DEF LabInv, Runs
<1>19. ASSUME NEW r \in inFlight, RunFails(r) \/ RunAnsweredNothing(r) PROVE LabInv'
  <2>1. /\ runEnds(r)
        /\ errorMsg' = TRUE \/ errorMsg' = errorMsg
        /\ UNCHANGED <<config, results, activeView, started, table, edits>>
      BY <1>19 DEF RunFails, RunAnsweredNothing
  <2>2. /\ isRunning' \in BOOLEAN /\ idled' \in BOOLEAN
        /\ inFlight' \subseteq [n : 1..started', of : Configs]
        /\ Runs'
    <3>1. results' = results /\ results.n \in Nat /\ results.n <= started
        BY <1>0, <2>1 DEF LabInv
    <3>2. results'.n \in Nat /\ results'.n <= started
        BY <3>1
    <3> QED BY <1>10, <2>1, <3>2
  <2>3. errorMsg' \in BOOLEAN
      BY <1>0, <2>1, Zenon
  <2>4. LabTypeOK'
      BY <1>0, <1>2, <2>1, <2>2, <2>3 DEF LabTypeOK
  <2> QED BY <1>2, <2>1, <2>2, <2>4 DEF LabInv, Runs
<1>12. CASE dismissError
  <2>1. /\ errorMsg' = FALSE
        /\ UNCHANGED <<config, results, isRunning, activeView, inFlight, started, table, edits,
                       idled>>
      BY <1>12 DEF dismissError
  <2>2. errorMsg' \in BOOLEAN
      BY <2>1, Zenon
  <2>3. LabTypeOK'
      BY <1>0, <1>2, <2>1, <2>2 DEF LabTypeOK
  <2> QED BY <1>2, <1>3, <2>1, <2>3 DEF LabInv, Runs
<1>13. ASSUME NEW v, setActiveView(v) PROVE LabInv'
  <2>1. /\ currentPage' = 1 /\ searching' = FALSE /\ replaced' = FALSE
        /\ UNCHANGED <<config, results, isRunning, errorMsg, inFlight, started, edits, idled>>
      BY <1>13 DEF setActiveView
  <2>2. searching' \in BOOLEAN
      BY <2>1, Zenon
  <2>3. LabTypeOK'
      BY <1>0, <2>1, <2>2 DEF LabTypeOK
  <2>4. totalPages' \in Nat /\ totalPages' >= 1
      BY <1>0, <2>1, TradesCounted, NewPages
  <2> QED BY <1>3, <2>1, <2>3, <2>4 DEF LabInv, PageInRange, Runs
<1>14. ASSUME NEW page \in Nat \ {0}, NEW term \in BOOLEAN, Paged(page, term),
              page = 1 \/ (term = searching /\ (~replaced => page <= totalPages))
       PROVE  LabInv'
  <2>1. /\ tableShown /\ currentPage' = page /\ searching' = term
        /\ replaced' = (replaced /\ page # 1)
        /\ UNCHANGED <<config, results, isRunning, errorMsg, activeView, inFlight, started, edits,
                       idled>>
      BY <1>14 DEF Paged
  <2>2. LabTypeOK'
      BY <1>0, <1>14, <2>1 DEF LabTypeOK
  <2>3. tableShown'
      BY <2>1 DEF tableShown
  <2>4. totalPages' \in Nat /\ totalPages' >= 1 /\ (searching' = searching => totalPages' = totalPages)
    <3>1. searching' = searching => totalPages' = totalPages
        BY <2>1 DEF totalPages, filteredTrades
    <3> QED BY <1>0, <2>1, <3>1, TradesCounted, NewPages
  <2>5. PageInRange'
    <3>1. CASE page = 1
        BY <2>1, <2>4, <3>1 DEF PageInRange
    <3>2. CASE page # 1
        BY <1>14, <2>1, <2>4, <3>2 DEF PageInRange
    <3> QED BY <3>1, <3>2
  <2> QED BY <1>3, <2>1, <2>2, <2>3, <2>5 DEF LabInv, Runs
<1>15. ASSUME NEW term \in BOOLEAN, setSearchTerm(term) PROVE LabInv'
    BY <1>14, <1>15 DEF setSearchTerm
<1>16. CASE nextPage
    BY <1>0, <1>1, <1>14, <1>16 DEF nextPage
<1>17. CASE previousPage
  <2>1. /\ currentPage - 1 \in Nat \ {0} /\ Paged(currentPage - 1, searching) /\ tableShown
      BY <1>0, <1>17 DEF previousPage, Paged
  <2>2. ~replaced => currentPage - 1 <= totalPages
      BY <1>0, <1>1, <2>1 DEF LabInv, PageInRange
  <2> QED BY <1>0, <1>14, <2>1, <2>2
<1>18. CASE UNCHANGED labVars
  <2>1. UNCHANGED <<config, results, isRunning, errorMsg, activeView, inFlight, started, table,
                    edits, idled>>
      BY <1>18 DEF labVars, table
  <2>2. LabTypeOK'
      BY <1>0, <1>2, <2>1 DEF LabTypeOK
  <2> QED BY <1>2, <1>3, <2>1, <2>2 DEF LabInv, Runs
<1> QED BY <1>5, <1>6, <1>7, <1>8, <1>9, <1>11, <1>12, <1>13, <1>15, <1>16, <1>17, <1>18,
       <1>19
        DEF LabNext

\* For every basket, strategy and number of runs, with one or two runs at the mount:
\* the panel shows a run only while one is in flight, one more is in flight at most,
\* and none once the lab has been idle (runBacktest).
THEOREM OverlapTheorem == LabSpec => []RunsOverlap
<1>1. LabInv => RunsOverlap
  <2> SUFFICES ASSUME LabInv PROVE RunsOverlap
      OBVIOUS
  <2>0. Cardinality({}) = 0 /\ \A a : Cardinality({a}) = 1
      BY FS_EmptySet, FS_Singleton, Zenon
  <2>1. \A a, b : Cardinality({a, b}) <= 2
      BY PairCounted
  <2>2. CASE idled
    <3>1. CASE ~isRunning /\ inFlight = {}
        BY <2>0, <2>2, <3>1 DEF RunsOverlap
    <3>2. CASE isRunning /\ \E c \in Configs : inFlight = {[n |-> started, of |-> c]}
      <4>1. PICK r : inFlight = {r}
          BY <3>2
      <4>2. Cardinality(inFlight) = 1
          BY <2>0, <4>1, Zenon
      <4> QED BY <2>2, <3>2, <4>1, <4>2 DEF RunsOverlap
    <3> QED BY <2>2, <3>1, <3>2 DEF LabInv
  <2>3. CASE ~idled
    <3>1. CASE \E a \in inFlight : inFlight = {a}
      <4>1. PICK r : inFlight = {r}
          BY <3>1
      <4>2. Cardinality(inFlight) = 1
          BY <2>0, <4>1, Zenon
      <4> QED BY <2>3, <4>1, <4>2 DEF RunsOverlap
    <3>2. CASE isRunning /\ \E a \in inFlight, b \in inFlight : inFlight = {a, b}
      <4>1. PICK a \in inFlight, b \in inFlight : inFlight = {a, b}
          BY <3>2
      <4>2. Cardinality(inFlight) <= 2
          BY <2>1, <4>1, Zenon
      <4> QED BY <2>3, <3>2, <4>1, <4>2 DEF RunsOverlap
    <3> QED BY <2>3, <3>1, <3>2 DEF LabInv
  <2> QED BY <2>2, <2>3
<1> QED BY <1>1, LabInvInit, LabInvStep, PTL DEF LabSpec

\* Once the lab has been idle, no answer replaces the results of a later run, for
\* every basket, strategy and number of runs (runBacktest).
THEOREM AdvanceTheorem == LabSpec => ResultsAdvance
<1>1. LabInv /\ [LabNext]_labVars => [idled /\ results' # results => results'.n > results.n]_labVars
  <2> SUFFICES ASSUME LabInv, LabNext, idled, results' # results PROVE results'.n > results.n
      OBVIOUS
  <2>1. PICK r \in inFlight, t \in TradeCounts : RunAnswered(r, t)
    <3>1. \A c : onChange(c) => UNCHANGED results
        BY DEF onChange
    <3>2. \A page, term : Paged(page, term) => UNCHANGED results
        BY DEF Paged
    <3> QED BY <3>1, <3>2 DEF LabNext, toggleSymbol, applyPreset, setDateRangePreset,
               selectStrategy, runBacktest, RunFails, RunAnsweredNothing, dismissError,
               setActiveView, setSearchTerm, nextPage, previousPage
  <2>2. PICK c \in Configs : inFlight = {[n |-> started, of |-> c]} /\ results.n < started
      BY <2>1 DEF LabInv
  <2>3. results'.n = r.n /\ r.n = started
      BY <2>1, <2>2 DEF RunAnswered
  <2>4. started \in Nat /\ results.n \in Nat
      BY BacktestLabAssumption DEF LabInv, LabTypeOK
  <2> QED BY <2>2, <2>3, <2>4
<1> QED BY <1>1, LabInvInit, LabInvStep, PTL DEF LabSpec, ResultsAdvance

\* For every page size and every number of trades and hits, the table does not
\* stand behind its last page, unless results were replaced under it
\* (TradeLogAuditTable).
THEOREM PageTheorem == LabSpec => []PageInRange
<1>1. LabInv => PageInRange
    BY DEF LabInv
<1> QED BY <1>1, LabInvInit, LabInvStep, PTL DEF LabSpec

-----------------------------------------------------------------------------
(***************************************************************************)
(* The selection and the watchlist                                         *)
(***************************************************************************)
\* What Kept keeps are symbols, and it keeps those that are wanted.
LEMMA KeptKeeps ==
    ASSUME NEW s \in Seq(Tickers), NEW wanted, NEW t, t = Kept(s, wanted)
    PROVE  /\ t \in Seq(Tickers)
           /\ \A k \in 1..Len(s) : s[k] \in wanted => \E j \in 1..Len(t) : t[j] = s[k]
<1> DEFINE Step(n, u) == IF s[n] \in wanted THEN Append(u, s[n]) ELSE u
           Reads(f, N) == f = [n \in 0..N |-> IF n = 0 THEN <<>> ELSE Step(n, f[n - 1])]
<1>1. \E f : Reads(f, Len(s))
  <2> HIDE DEF Step
  <2> DEFINE S == {N \in Nat : \E f : Reads(f, N)}
  <2>1. 0 \in S
    <3>1. Reads([n \in 0..0 |-> <<>>], 0)
        OBVIOUS
    <3> QED BY <3>1
  <2>2. ASSUME NEW N \in S PROVE N + 1 \in S
    <3>1. PICK f : Reads(f, N)
        OBVIOUS
    <3> DEFINE g == [n \in 0..(N + 1) |-> IF n <= N THEN f[n] ELSE Step(N + 1, f[N])]
               h == [n \in 0..(N + 1) |-> IF n = 0 THEN <<>> ELSE Step(n, g[n - 1])]
    <3>2. f[0] = <<>> /\ \A n \in 1..N : f[n] = Step(n, f[n - 1])
        BY <3>1
    <3>3. \A n \in 0..(N + 1) : g[n] = h[n]
        BY <3>2
    <3>4. g = h
        BY <3>3
    <3>5. Reads(g, N + 1)
        BY <3>4
    <3> HIDE DEF g, Reads
    <3> QED BY <3>5
  <2>3. S \subseteq Nat
      OBVIOUS
  <2> HIDE DEF S
  <2>4. Nat \subseteq S
      BY <2>1, <2>2, <2>3, NatInd
  <2> QED BY <2>4 DEF S
<1> DEFINE kept == CHOOSE f : Reads(f, Len(s))
<1>2. Reads(kept, Len(s)) /\ t = kept[Len(s)]
    BY <1>1 DEF Kept
<1> HIDE DEF kept
<1>3. kept[0] = <<>> /\ \A n \in 1..Len(s) : kept[n] = Step(n, kept[n - 1])
  <2> HIDE DEF Step
  <2> QED BY <1>2
<1> HIDE DEF Reads
<1> DEFINE Keeps(n, u) == /\ u \in Seq(Tickers)
                          /\ \A k \in 1..n : s[k] \in wanted => \E j \in 1..Len(u) : u[j] = s[k]
<1>4. ASSUME NEW n \in Nat, n + 1 <= Len(s), NEW u, Keeps(n, u)
      PROVE  Keeps(n + 1, Step(n + 1, u))
  <2>1. u \in Seq(Tickers) /\ Len(u) \in Nat /\ s[n + 1] \in Tickers
      BY <1>4
  <2>2. CASE s[n + 1] \notin wanted
    <3>1. \A k \in 1..(n + 1) : s[k] \in wanted => k \in 1..n
        BY <2>2
    <3> QED BY <1>4, <2>2, <3>1
  <2>3. CASE s[n + 1] \in wanted
    <3> DEFINE v == Append(u, s[n + 1])
    <3>1. /\ v \in Seq(Tickers) /\ Len(v) = Len(u) + 1
          /\ \A j \in 1..Len(u) : v[j] = u[j]
          /\ v[Len(u) + 1] = s[n + 1]
        BY <2>1
    <3> HIDE DEF v
    <3>2. ASSUME NEW k \in 1..(n + 1), s[k] \in wanted PROVE \E j \in 1..Len(v) : v[j] = s[k]
      <4>1. CASE k = n + 1
          BY <2>1, <3>1, <4>1
      <4>2. CASE k \in 1..n
        <5>1. PICK j \in 1..Len(u) : u[j] = s[k]
            BY <1>4, <3>2, <4>2
        <5> QED BY <2>1, <3>1, <5>1
      <4> QED BY <4>1, <4>2
    <3>3. Keeps(n + 1, v)
        BY <3>1, <3>2
    <3> QED BY <2>3, <3>3 DEF v
  <2> QED BY <2>2, <2>3
<1>5. Keeps(0, kept[0])
    BY <1>3
<1> HIDE DEF Keeps, Step
<1> DEFINE S == {n \in Nat : n <= Len(s) => Keeps(n, kept[n])}
<1>6. S \subseteq Nat /\ 0 \in S
    BY <1>5
<1>7. ASSUME NEW n \in S PROVE n + 1 \in S
  <2>1. n \in Nat /\ (n <= Len(s) => Keeps(n, kept[n]))
      OBVIOUS
  <2>2. ASSUME n + 1 <= Len(s) PROVE Keeps(n + 1, kept[n + 1])
    <3>1. n + 1 \in 1..Len(s) /\ (n + 1) - 1 = n /\ n <= Len(s)
        BY <2>1, <2>2
    <3> QED BY <1>3, <1>4, <2>1, <2>2, <3>1
  <2> QED BY <2>1, <2>2
<1>8. Len(s) \in Nat /\ (Len(s) \in S => Keeps(Len(s), kept[Len(s)]))
    OBVIOUS
<1> HIDE DEF S
<1>9. Nat \subseteq S
    BY <1>6, <1>7, NatInd
<1> QED BY <1>2, <1>8, <1>9 DEF Keeps

\* Joined sequences: length and elements.
LEMMA Joined ==
    ASSUME NEW S, NEW s \in Seq(S), NEW t \in Seq(S)
    PROVE  /\ s \o t \in Seq(S) /\ Len(s \o t) = Len(s) + Len(t)
           /\ \A i \in 1..Len(s) : (s \o t)[i] = s[i]
           /\ \A i \in 1..Len(t) : (s \o t)[Len(s) + i] = t[i]
OBVIOUS

\* A fetch: the key and the interval of a request.
Fetches == {<<t, g, i>> : t \in Tickers, g \in Granularities, i \in Intervals}

\* What a callback captures at a render has its type.
LEMMA CurrentTyped ==
    ASSUME TypeOK
    PROVE  current \in Closures
<1>1. {t \in Tickers : HasEntry(<<t, "1y">>)} \in SUBSET Tickers
    OBVIOUS
<1>2. forceMockMode \in BOOLEAN
    BY DEF TypeOK
<1> QED BY <1>1, <1>2 DEF current, Closure, Closures, TypeOK

\* The closure that is rendered: the rest of it is as it was set, and a symbol
\* is selected if there is one.
LEMMA AutoSelects ==
    ASSUME NEW c0 \in Closures, NEW c, c = autoSelected(c0)
    PROVE  /\ c \in Closures
           /\ c.gran = c0.gran /\ c.interval = c0.interval /\ c.mock = c0.mock /\ c.subs = c0.subs
           /\ c0.ticker # NoTicker => c = c0
           /\ c.subs = <<>> \/ c.ticker # NoTicker
<1>1. CASE c0.ticker = NoTicker /\ c0.subs # <<>>
  <2>1. c = [c0 EXCEPT !.ticker = c0.subs[1]]
      BY <1>1 DEF autoSelected
  <2>2. c0.subs \in Seq(Tickers)
      BY DEF Closures
  <2>3. c0.subs[1] \in Tickers
      BY <1>1, <2>2
  <2> QED BY <1>1, <2>1, <2>3, WebMarketAssumption DEF Closures
<1>2. CASE ~(c0.ticker = NoTicker /\ c0.subs # <<>>)
    BY <1>2 DEF autoSelected
<1> QED BY <1>1, <1>2

\* The fetches of the selection: none, or the selected chart first and the other
\* granularities after it.
LEMMA SelectionFetched ==
    ASSUME NEW c \in Closures, NEW f, f = selectionFetches(c)
    PROVE  /\ f \in Seq(Fetches)
           /\ \/ f = <<>> /\ (c.ticker = NoTicker \/ ~selectionChanged(c))
              \/ /\ c.ticker \in Tickers /\ Len(f) >= 1
                 /\ f[1] = <<c.ticker, c.gran, c.interval>>
                 /\ \A i \in 1..Len(f) : i # 1 => f[i][2] # c.gran
<1> USE WebMarketAssumption
<1>1. /\ c.ticker \in Tickers \cup {NoTicker} /\ c.gran \in Granularities
      /\ c.interval \in Intervals
    BY DEF Closures
<1>2. CASE c.ticker = NoTicker \/ ~selectionChanged(c)
  <2>1. f = <<>>
      BY <1>2 DEF selectionFetches
  <2> QED BY <1>2, <2>1
<1>3. CASE c.ticker # NoTicker /\ selectionChanged(c)
  <2> DEFINE chart == <<c.ticker, c.gran, c.interval>>
             day == <<c.ticker, "1d", "30m">>
             year == <<c.ticker, "1y", "1d">>
  <2>1. chart \in Fetches /\ day \in Fetches /\ year \in Fetches
      BY <1>1, <1>3 DEF Fetches
  <2>2. f = <<chart>> \o (IF c.gran # "1d" THEN <<day>> ELSE <<>>)
                      \o (IF c.gran # "1y" THEN <<year>> ELSE <<>>)
      BY <1>3 DEF selectionFetches
  <2>3. chart[2] = c.gran /\ day[2] = "1d" /\ year[2] = "1y" /\ c.ticker \in Tickers
      BY <1>1, <1>3
  <2> HIDE DEF chart, day, year
  <2>4. CASE c.gran = "1d"
    <3>1. f \in Seq(Fetches) /\ Len(f) = 2 /\ f[1] = chart /\ f[2] = year
        BY <2>1, <2>2, <2>4
    <3> QED BY <2>3, <2>4, <3>1 DEF chart
  <2>5. CASE c.gran = "1y"
    <3>1. f \in Seq(Fetches) /\ Len(f) = 2 /\ f[1] = chart /\ f[2] = day
        BY <2>1, <2>2, <2>5
    <3> QED BY <2>3, <2>5, <3>1 DEF chart
  <2>6. CASE c.gran # "1d" /\ c.gran # "1y"
    <3>1. f \in Seq(Fetches) /\ Len(f) = 3 /\ f[1] = chart /\ f[2] = day /\ f[3] = year
      <4> DEFINE two == <<chart>> \o <<day>>
      <4>1. two \in Seq(Fetches) /\ Len(two) = 2 /\ two[1] = chart /\ two[2] = day
          BY <2>1
      <4>2. f = two \o <<year>>
          BY <2>2, <2>6
      <4> HIDE DEF two
      <4> DEFINE one == <<year>>
      <4>3. one \in Seq(Fetches) /\ Len(one) = 1 /\ one[1] = year /\ f = two \o one
          BY <2>1, <4>2
      <4> HIDE DEF one
      <4>4. 1 \in 1..Len(two) /\ 2 \in 1..Len(two) /\ 1 \in 1..Len(one) /\ Len(two) + 1 = 3
          BY <4>1, <4>3
      <4>5. /\ two \o one \in Seq(Fetches) /\ Len(two \o one) = Len(two) + Len(one)
            /\ \A i \in 1..Len(two) : (two \o one)[i] = two[i]
            /\ \A i \in 1..Len(one) : (two \o one)[Len(two) + i] = one[i]
        <5>1. two \in Seq(Fetches) /\ one \in Seq(Fetches)
            BY <4>1, <4>3
        <5> HIDE <4>1, <4>2, <4>3, <4>4
        <5> QED BY <5>1, Joined
      <4>6. f[1] = two[1] /\ f[2] = two[2] /\ f[3] = one[1] /\ Len(f) = 3
          BY <4>1, <4>3, <4>4, <4>5
      <4> QED BY <4>1, <4>3, <4>5, <4>6
    <3> QED BY <2>3, <2>6, <3>1 DEF chart
  <2> QED BY <2>4, <2>5, <2>6
<1> QED BY <1>2, <1>3

\* The fetches of the watchlist cover the symbols without an entry.
LEMMA WatchlistFetched ==
    ASSUME NEW c \in Closures, NEW subsSet \in BOOLEAN, NEW f, f = watchlistFetches(c, subsSet)
    PROVE  /\ f \in Seq(Fetches)
           /\ subsSet => \A k \in 1..Len(c.subs) :
                 HasEntry(<<c.subs[k], "1d">>)
                 \/ \E j \in 1..Len(f) : f[j] = <<c.subs[k], "1d", "30m">>
<1> USE WebMarketAssumption
<1> DEFINE wanted == {t \in Tickers : ~HasEntry(<<t, "1d">>)}
           kept == Kept(c.subs, wanted)
<1>1. c.subs \in Seq(Tickers)
    BY DEF Closures
<1>2. /\ kept \in Seq(Tickers)
      /\ \A k \in 1..Len(c.subs) : c.subs[k] \in wanted => \E j \in 1..Len(kept) : kept[j] = c.subs[k]
  <2> HIDE DEF wanted
  <2> QED BY <1>1, KeptKeeps
<1> HIDE DEF wanted
<1>3. f = IF subsSet \/ c.mock # forceMockMode
          THEN [i \in 1..Len(kept) |-> <<kept[i], "1d", "30m">>] ELSE <<>>
    BY DEF watchlistFetches, wanted
<1> HIDE DEF kept
<1>4. CASE subsSet \/ c.mock # forceMockMode
  <2>1. f = [i \in 1..Len(kept) |-> <<kept[i], "1d", "30m">>] /\ Len(kept) \in Nat
      BY <1>2, <1>3, <1>4
  <2>2. \A i \in 1..Len(kept) : <<kept[i], "1d", "30m">> \in Fetches
      BY <1>2 DEF Fetches
  <2>3. f \in Seq(Fetches) /\ Len(f) = Len(kept)
      BY <2>1, <2>2
  <2>4. \A i \in 1..Len(kept) : f[i] = <<kept[i], "1d", "30m">>
      BY <2>1
  <2>5. ASSUME NEW k \in 1..Len(c.subs), ~HasEntry(<<c.subs[k], "1d">>)
        PROVE  \E j \in 1..Len(f) : f[j] = <<c.subs[k], "1d", "30m">>
    <3>1. c.subs[k] \in wanted
      <4>1. c.subs[k] \in Tickers
          BY <1>1
      <4> QED BY <2>5, <4>1 DEF wanted
    <3>2. PICK j \in 1..Len(kept) : kept[j] = c.subs[k]
        BY <1>2, <3>1
    <3> QED BY <2>3, <2>4, <3>2
  <2> QED BY <2>3, <2>5
<1>5. CASE ~(subsSet \/ c.mock # forceMockMode)
    BY <1>3, <1>5
<1> QED BY <1>4, <1>5

\* What a render or a request can disturb.
Rendered ==
    /\ selectedTicker \in Tickers \cup {NoTicker}
    /\ selectedGranularity \in Granularities
    /\ selectedInterval \in Intervals
    /\ forceMockMode \in BOOLEAN
    /\ subscriptions \in Seq(Tickers)
    /\ issued \in 0..MaxRequests
    /\ requests \subseteq Requests
    /\ listener \in Closures
    /\ newest \in [Keys -> [n : 0..issued, fits : BOOLEAN]]
    /\ SomeSelected /\ NewestAsks /\ ShownIsSelected /\ WatchlistCovered

\* A request of any number.
Numberless == [n : Nat, key : Keys, interval : Intervals, mock : BOOLEAN,
               years : SUBSET Tickers, rest : Seq(Tickers), only : BOOLEAN]

\* A request whose number has been issued has its type.
LEMMA NumberedTyped ==
    ASSUME NEW r \in Numberless, NEW n \in Nat, r.n \in 1..n
    PROVE  r \in [n : 1..n, key : Keys, interval : Intervals, mock : BOOLEAN,
                  years : SUBSET Tickers, rest : Seq(Tickers), only : BOOLEAN]
BY DEF Numberless

\* Of requests with numbers there is a newest.
LEMMA NewestOne ==
    ASSUME NEW own, NEW m \in Nat, \A r \in own : r.n \in 0..m, own # {}
    PROVE  \E r \in own : \A q \in own : q.n <= r.n
<1> DEFINE ages == {m - r.n : r \in own}
<1>1. ages \subseteq Nat /\ ages # {}
    OBVIOUS
<1>2. PICK a \in ages : \A b \in ages : a <= b
  <2> HIDE DEF ages
  <2> QED BY <1>1, NatLeast
<1>3. PICK r \in own : a = m - r.n
    OBVIOUS
<1>4. ASSUME NEW q \in own PROVE q.n <= r.n
  <2>1. m - r.n <= m - q.n
      BY <1>2, <1>3
  <2>2. q.n \in 0..m /\ r.n \in 0..m
      OBVIOUS
  <2> QED BY <2>1, <2>2
<1> QED BY <1>4

\* Requests are sent in a selection, and at most the answers of requests that were
\* in flight are written: the newest request for the selected key still asks for
\* what is selected, and its answer shows it.
LEMMA SendStep ==
    ASSUME TypeOK, NewestAsks, ShownIsSelected,
           NEW made, NEW last, NEW sel, NEW ended, Send(made, last, sel, ended),
           last \in Nat, issued <= last, sel = selection',
           \A q \in made : q \in Numberless /\ q.n \in (issued + 1)..last,
           \A p \in made, q \in made : p.n = q.n => p = q,
           selectedTicker' \in Tickers \cup {NoTicker}, selectedGranularity' \in Granularities,
           \A k \in Keys : k = <<selectedTicker', selectedGranularity'>> =>
              (\E q \in made : q.key = k) \/ UNCHANGED selection,
           \A k \in Keys :
              \/ answered'[k] = answered[k] /\ store'[k] = store[k]
              \/ \E r \in requests : /\ r.key = k /\ answered'[k] = r.n
                                     /\ store'[k].interval = r.interval
                                     /\ store'[k].mock = r.mock
    PROVE  /\ issued' \in 0..MaxRequests /\ issued <= issued'
           /\ requests' \subseteq Requests'
           /\ made \subseteq requests' /\ requests \ ended \subseteq requests'
           /\ newest' \in [Keys -> [n : 0..issued', fits : BOOLEAN]]
           /\ NewestAsks' /\ ShownIsSelected'
<1> USE WebMarketAssumption
<1>1. /\ last <= MaxRequests /\ issued' = last
      /\ requests' = (requests \ ended) \cup made
      /\ newest' = NewestOf(made, sel)
    BY DEF Send
<1>2. /\ issued \in Nat /\ requests \subseteq Requests
      /\ newest \in [Keys -> [n : 0..issued, fits : BOOLEAN]]
      /\ answered \in [Keys -> 0..issued]
    BY DEF TypeOK
<1>3. issued' \in 0..MaxRequests /\ issued <= issued' /\ issued' \in Nat
    BY <1>1, <1>2
<1>4. \A q \in requests : q \in Numberless /\ q.n \in 1..issued
    BY <1>2 DEF Requests, Numberless
<1>5. requests' \subseteq Requests'
  <2> SUFFICES ASSUME NEW q \in requests' PROVE q \in Requests'
      OBVIOUS
  <2>1. q \in Numberless /\ q.n \in 1..issued'
    <3>1. CASE q \in requests
        BY <1>2, <1>3, <1>4, <3>1
    <3>2. CASE q \in made
        BY <1>1, <1>2, <3>2
    <3> QED BY <1>1, <3>1, <3>2
  <2> QED BY <1>3, <2>1, NumberedTyped DEF Requests
<1>6. ASSUME NEW k \in Keys
      PROVE  \/ (\A q \in made : q.key # k) /\ newest'[k] = newest[k]
             \/ \E r \in made :
                   /\ r.key = k
                   /\ newest'[k] = [n |-> r.n,
                                    fits |-> <<k[1], k[2], r.interval, r.mock>> = sel]
  <2> DEFINE own == {r \in made : r.key = k}
             r0 == CHOOSE r \in own : \A q \in own : q.n <= r.n
  <2>1. newest'[k] = IF own = {} THEN newest[k]
                     ELSE [n |-> r0.n, fits |-> <<k[1], k[2], r0.interval, r0.mock>> = sel]
      BY <1>1 DEF NewestOf
  <2>2. CASE own = {}
      BY <2>1, <2>2
  <2>3. CASE own # {}
    <3>1. \A r \in own : r.n \in 0..last
        BY <1>2
    <3>2. \E r \in own : \A q \in own : q.n <= r.n
      <4> HIDE DEF own
      <4> QED BY <2>3, <3>1, NewestOne
    <3>3. r0 \in own
        BY <3>2
    <3> HIDE DEF r0
    <3> QED BY <2>1, <2>3, <3>3
  <2> QED BY <2>2, <2>3
<1>7. newest' \in [Keys -> [n : 0..issued', fits : BOOLEAN]]
  <2>1. ASSUME NEW k \in Keys PROVE newest'[k] \in [n : 0..issued', fits : BOOLEAN]
    <3>1. CASE newest'[k] = newest[k]
      <4>1. newest[k] \in [n : 0..issued, fits : BOOLEAN]
          BY <1>2
      <4>2. 0..issued \subseteq 0..issued'
          BY <1>2, <1>3
      <4> QED BY <3>1, <4>1, <4>2
    <3>2. ASSUME NEW r \in made,
                 newest'[k] = [n |-> r.n, fits |-> <<k[1], k[2], r.interval, r.mock>> = sel]
          PROVE  newest'[k] \in [n : 0..issued', fits : BOOLEAN]
      <4>1. r.n \in 0..issued'
          BY <1>1, <1>2
      <4> DEFINE b == <<k[1], k[2], r.interval, r.mock>> = sel
      <4>2. newest'[k] = [n |-> r.n, fits |-> b] /\ b \in BOOLEAN
          BY <3>2
      <4> HIDE DEF b
      <4> QED BY <4>1, <4>2
    <3> QED BY <1>6, <3>1, <3>2
  <2>2. newest' = [k \in Keys |-> newest'[k]]
    <3>1. \E f : newest' = [k \in Keys |-> f[k]]
      <4> DEFINE f == NewestOf(made, sel)
      <4>1. f = [k \in Keys |-> f[k]]
          BY DEF NewestOf
      <4> HIDE DEF f
      <4> QED BY <1>1, <4>1 DEF f
    <3> QED BY <3>1
  <2> QED BY <2>1, <2>2
<1>8. selection' = <<selectedTicker', selectedGranularity', selectedInterval', forceMockMode'>>
      /\ selection = <<selectedTicker, selectedGranularity, selectedInterval, forceMockMode>>
    BY DEF selection
<1>9. NewestAsks'
  <2> SUFFICES ASSUME NEW r \in requests', NEW k \in Keys, r.n = newest'[k].n
               PROVE  /\ r.key = k
                      /\ k = <<selectedTicker', selectedGranularity'>> /\ newest'[k].fits =>
                            r.interval = selectedInterval' /\ r.mock = forceMockMode'
      BY DEF NewestAsks, Keys
  <2>1. CASE (\A q \in made : q.key # k) /\ newest'[k] = newest[k]
    <3>1. r \in requests
      <4>1. newest[k].n \in 0..issued
          BY <1>2
      <4> QED BY <1>1, <1>2, <2>1, <4>1
    <3>2. /\ r.key = k
          /\ k = <<selectedTicker, selectedGranularity>> /\ newest[k].fits =>
                r.interval = selectedInterval /\ r.mock = forceMockMode
        BY <2>1, <3>1 DEF NewestAsks
    <3>3. k = <<selectedTicker', selectedGranularity'>> => selection' = selection
        BY <2>1
    <3> QED BY <1>8, <2>1, <3>2, <3>3
  <2>2. ASSUME NEW q \in made, q.key = k,
               newest'[k] = [n |-> q.n, fits |-> <<k[1], k[2], q.interval, q.mock>> = sel]
        PROVE  /\ r.key = k
               /\ k = <<selectedTicker', selectedGranularity'>> /\ newest'[k].fits =>
                     r.interval = selectedInterval' /\ r.mock = forceMockMode'
    <3>1. r.n = q.n /\ newest'[k].fits = (<<k[1], k[2], q.interval, q.mock>> = sel)
        BY <2>2
    <3>2. r = q
      <4>1. r \notin requests
          BY <1>2, <1>4, <3>1
      <4> QED BY <1>1, <3>1, <4>1
    <3> QED BY <1>8, <2>2, <3>1, <3>2
  <2> QED BY <1>6, <2>1, <2>2
<1>10. ShownIsSelected'
  <2> DEFINE k == <<selectedTicker', selectedGranularity'>>
  <2> SUFFICES ASSUME selectedTicker' # NoTicker, newest'[k].fits, answered'[k] = newest'[k].n
               PROVE  store'[k].interval = selectedInterval' /\ store'[k].mock = forceMockMode'
      BY DEF ShownIsSelected
  <2>1. k \in Keys
      BY DEF Keys
  <2>2. answered'[k] \in 0..issued
    <3>1. answered[k] \in 0..issued
        BY <1>2, <2>1
    <3>2. \/ answered'[k] = answered[k]
          \/ \E r \in requests : answered'[k] = r.n
        BY <2>1
    <3>3. ASSUME NEW r \in requests PROVE r.n \in 0..issued
      <4>1. r.n \in 1..issued
          BY <1>4
      <4> QED BY <1>2, <4>1
    <3> HIDE DEF k
    <3> QED BY <3>1, <3>2, <3>3
  <2>3. (\A q \in made : q.key # k) /\ newest'[k] = newest[k]
    <3>1. ASSUME NEW q \in made, newest'[k] = [n |-> q.n, fits |-> <<k[1], k[2], q.interval, q.mock>> = sel]
          PROVE  FALSE
      <4>1. q.n \in (issued + 1)..last /\ answered'[k] = q.n
          BY <3>1
      <4> QED BY <1>2, <2>2, <4>1
    <3> QED BY <1>6, <2>1, <3>1
  <2>4. selection' = selection
      BY <2>1, <2>3
  <2>5. k = <<selectedTicker, selectedGranularity>> /\ selectedTicker # NoTicker
        /\ selectedInterval' = selectedInterval /\ forceMockMode' = forceMockMode
      BY <1>8, <2>4
  <2>6. CASE answered'[k] = answered[k] /\ store'[k] = store[k]
    <3>1. newest[k].fits /\ answered[k] = newest[k].n
        BY <2>3, <2>6
    <3>2. store[k].interval = selectedInterval /\ store[k].mock = forceMockMode
        BY <2>5, <3>1 DEF ShownIsSelected
    <3> QED BY <2>5, <2>6, <3>2
  <2>7. ASSUME NEW r \in requests, r.key = k, answered'[k] = r.n,
               store'[k].interval = r.interval, store'[k].mock = r.mock
        PROVE  store'[k].interval = selectedInterval' /\ store'[k].mock = forceMockMode'
    <3>1. r.n = newest[k].n /\ newest[k].fits
        BY <2>3, <2>7
    <3>2. r.interval = selectedInterval /\ r.mock = forceMockMode
        BY <2>1, <2>5, <3>1 DEF NewestAsks
    <3> QED BY <2>5, <2>7, <3>2
  <2> QED BY <2>1, <2>6, <2>7
<1> QED BY <1>1, <1>3, <1>5, <1>7, <1>9, <1>10

\* A callback that changes the state to c0 and makes `others'.
LEMMA RenderStep ==
    ASSUME MarketInv, NEW c0 \in Closures, NEW subsSet \in BOOLEAN, NEW others,
           Render(c0, subsSet, others),
           subsSet \/ c0.subs = subscriptions,
           \/ others = {}
           \/ \E q \in Numberless :
                 /\ others = {q}
                 /\ q.n = issued + Len(selectionFetches(autoSelected(c0)))
                                 + Len(watchlistFetches(autoSelected(c0), subsSet)) + 1,
           UNCHANGED <<store, answered, missed>>
    PROVE  Rendered' /\ issued <= issued'
<1> USE WebMarketAssumption
<1> DEFINE c == autoSelected(c0)
           sel == selectionFetches(c)
           wl == watchlistFetches(c, subsSet)
           f == sel \o wl
           new(i) == Request(issued + i, c, f[i][1], f[i][2], f[i][3], <<>>, FALSE)
           made == others \cup {new(i) : i \in 1..Len(f)}
           last == issued + Len(f) + Cardinality(others)
           picked == <<c.ticker, c.gran, c.interval, c.mock>>
<1>1. /\ c \in Closures
      /\ c.subs = c0.subs
      /\ c.subs = <<>> \/ c.ticker # NoTicker
    BY AutoSelects
<1>2. /\ c.ticker \in Tickers \cup {NoTicker} /\ c.gran \in Granularities
      /\ c.interval \in Intervals /\ c.mock \in BOOLEAN /\ c.subs \in Seq(Tickers)
      /\ c.years \in SUBSET Tickers
    BY <1>1 DEF Closures
<1>3. /\ Send(made, last, picked, {})
      /\ selectedTicker' = c.ticker
      /\ selectedGranularity' = c.gran
      /\ selectedInterval' = c.interval
      /\ forceMockMode' = c.mock
      /\ subscriptions' = c.subs
      /\ listener' = IF subsSet \/ <<c.ticker, c.gran, c.interval>>
                                      # <<listener.ticker, listener.gran, listener.interval>>
                     THEN c ELSE listener
    BY DEF Render
<1>4. /\ TypeOK /\ NewestAsks /\ ShownIsSelected
      /\ issued \in Nat /\ listener \in Closures
    BY DEF MarketInv, TypeOK
<1> HIDE DEF c
<1>5. /\ sel \in Seq(Fetches)
      /\ \/ sel = <<>> /\ (c.ticker = NoTicker \/ ~selectionChanged(c))
         \/ /\ c.ticker \in Tickers /\ Len(sel) >= 1
            /\ sel[1] = <<c.ticker, c.gran, c.interval>>
    BY <1>1, SelectionFetched
<1>6. /\ wl \in Seq(Fetches)
      /\ subsSet => \A k \in 1..Len(c.subs) :
            HasEntry(<<c.subs[k], "1d">>)
            \/ \E j \in 1..Len(wl) : wl[j] = <<c.subs[k], "1d", "30m">>
    BY <1>1, WatchlistFetched, ZenonT(60)
<1>7. others = {} \/ \E q \in Numberless : others = {q} /\ q.n = issued + Len(sel) + Len(wl) + 1
    BY DEF c
<1> HIDE DEF sel, wl
<1>8. /\ f \in Seq(Fetches) /\ Len(f) = Len(sel) + Len(wl)
      /\ \A i \in 1..Len(sel) : f[i] = sel[i]
      /\ \A i \in 1..Len(wl) : f[Len(sel) + i] = wl[i]
      /\ Len(sel) \in Nat /\ Len(wl) \in Nat /\ Len(f) \in Nat
    BY <1>5, <1>6, Joined
<1> HIDE DEF f
<1>9. \A i \in 1..Len(f) : f[i][1] \in Tickers /\ f[i][2] \in Granularities /\ f[i][3] \in Intervals
    BY <1>8 DEF Fetches
<1>10. \A i \in 1..Len(f) : /\ new(i) \in Numberless /\ new(i).n = issued + i
                            /\ new(i).key = <<f[i][1], f[i][2]>>
  <2> SUFFICES ASSUME NEW i \in 1..Len(f)
               PROVE  /\ new(i) \in Numberless /\ new(i).n = issued + i
                      /\ new(i).key = <<f[i][1], f[i][2]>>
      OBVIOUS
  <2>1. issued + i \in Nat /\ <<>> \in Seq(Tickers) /\ FALSE \in BOOLEAN
      BY <1>4, <1>8
  <2>2. f[i][1] \in Tickers /\ f[i][2] \in Granularities /\ f[i][3] \in Intervals
      BY <1>9
  <2>3. new(i) = Request(issued + i, c, f[i][1], f[i][2], f[i][3], <<>>, FALSE)
      OBVIOUS
  <2> HIDE DEF new
  <2>4. <<f[i][1], f[i][2]>> \in Keys
      BY <2>2 DEF Keys
  <2> QED BY <1>2, <2>1, <2>2, <2>3, <2>4 DEF Request, Numberless
<1> HIDE DEF new
<1>11. /\ Cardinality(others) \in Nat
       /\ others # {} => Cardinality(others) = 1
       /\ \A p \in others, q \in others : p = q
       /\ \A q \in others : q \in Numberless /\ q.n = issued + Len(f) + 1
  <2>1. Cardinality({}) = 0
      BY FS_EmptySet
  <2>2. \A q : Cardinality({q}) = 1
      BY FS_Singleton, Zenon
  <2>3. CASE others = {}
      BY <2>1, <2>3
  <2>4. ASSUME NEW q \in Numberless, others = {q}, q.n = issued + Len(sel) + Len(wl) + 1
        PROVE  /\ Cardinality(others) = 1
               /\ \A p \in others, r \in others : p = r
               /\ \A r \in others : r \in Numberless /\ r.n = issued + Len(f) + 1
    <3>1. q.n = issued + Len(f) + 1
        BY <1>4, <1>8, <2>4
    <3> QED BY <2>2, <2>4, <3>1
  <2> QED BY <1>7, <2>3, <2>4
<1>12. last \in Nat /\ issued <= last /\ issued + Len(f) <= last
       /\ (others # {} => last = issued + Len(f) + 1)
    BY <1>4, <1>8, <1>11
<1> HIDE DEF last
<1>13. \A q \in made : q \in Numberless /\ q.n \in (issued + 1)..last
  <2>1. ASSUME NEW q \in others PROVE q \in Numberless /\ q.n \in (issued + 1)..last
      BY <1>4, <1>8, <1>11, <1>12
  <2>2. ASSUME NEW i \in 1..Len(f) PROVE new(i) \in Numberless /\ new(i).n \in (issued + 1)..last
      BY <1>4, <1>8, <1>10, <1>12
  <2> QED BY <2>1, <2>2
<1>14. \A p \in made, q \in made : p.n = q.n => p = q
  <2>1. \A q \in made : (q \in others /\ q.n = issued + Len(f) + 1)
                        \/ \E i \in 1..Len(f) : q = new(i) /\ q.n = issued + i
      BY <1>10, <1>11
  <2> SUFFICES ASSUME NEW p \in made, NEW q \in made, p.n = q.n PROVE p = q
      OBVIOUS
  <2> HIDE DEF made
  <2>2. CASE p \in others /\ q \in others
      BY <1>11, <2>2
  <2>3. ASSUME NEW i \in 1..Len(f), p = new(i), p.n = issued + i PROVE p = q
    <3>1. PICK j \in 1..Len(f) : q = new(j) /\ q.n = issued + j
        BY <1>4, <1>8, <2>1, <2>3
    <3>2. i = j
        BY <1>4, <1>8, <2>3, <3>1
    <3> QED BY <2>3, <3>1, <3>2
  <2>4. ASSUME NEW i \in 1..Len(f), q = new(i), q.n = issued + i, p \in others PROVE FALSE
      BY <1>4, <1>8, <1>11, <2>4
  <2> QED BY <2>1, <2>2, <2>3, <2>4
\* Without fetches of the selection it stays as it is.
<1>15. \A k \in Keys : k = <<selectedTicker', selectedGranularity'>> =>
          (\E q \in made : q.key = k) \/ UNCHANGED selection
  <2> SUFFICES ASSUME NEW k \in Keys, k = <<selectedTicker', selectedGranularity'>>
               PROVE  (\E q \in made : q.key = k) \/ UNCHANGED selection
      OBVIOUS
  <2>1. c.ticker # NoTicker /\ k = <<c.ticker, c.gran>>
      BY <1>3 DEF Keys
  <2>2. CASE sel = <<>>
    <3>1. ~selectionChanged(c)
        BY <1>5, <2>1, <2>2
    <3> QED BY <1>3, <3>1 DEF selectionChanged, current, Closure, selection
  <2>3. CASE sel # <<>>
    <3>1. 1 \in 1..Len(f) /\ f[1] = <<c.ticker, c.gran, c.interval>>
        BY <1>5, <1>8, <2>3
    <3>2. new(1) \in made /\ new(1).key = k
        BY <1>10, <2>1, <3>1
    <3> QED BY <3>2
  <2> QED BY <2>2, <2>3
<1> HIDE DEF made, picked
<1>16. picked = selection'
    BY <1>3 DEF picked, selection
<1>17. /\ selectedTicker' \in Tickers \cup {NoTicker} /\ selectedGranularity' \in Granularities
       /\ \A k \in Keys : answered'[k] = answered[k] /\ store'[k] = store[k]
    BY <1>2, <1>3
<1>18. /\ issued' \in 0..MaxRequests /\ issued <= issued'
       /\ requests' \subseteq Requests'
       /\ made \subseteq requests' /\ requests \ {} \subseteq requests'
       /\ newest' \in [Keys -> [n : 0..issued', fits : BOOLEAN]]
       /\ NewestAsks' /\ ShownIsSelected'
    BY <1>3, <1>4, <1>12, <1>13, <1>14, <1>15, <1>16, <1>17, SendStep
<1>19. SomeSelected'
    BY <1>1, <1>3 DEF SomeSelected
<1>20. WatchlistCovered'
  <2> SUFFICES ASSUME NEW t \in ToSet(subscriptions')
               PROVE  \/ HasEntry(<<t, "1d">>)' /\ ~store'[<<t, "1d">>].empty
                      \/ InFlight(<<t, "1d">>)' # {} \/ <<t, "1d">> \in missed'
      BY DEF WatchlistCovered
  <2>1. PICK k \in 1..Len(c.subs) : t = c.subs[k]
      BY <1>2, <1>3 DEF ToSet
  <2>2. <<t, "1d">> \in Keys
      BY <1>2, <2>1 DEF Keys
  <2>3. CASE subsSet
    <3>1. CASE HasEntry(<<t, "1d">>)
        BY <2>2, <3>1 DEF HasEntry, MarketInv, EmptyMissed
    <3>2. ASSUME NEW j \in 1..Len(wl), wl[j] = <<t, "1d", "30m">>
          PROVE  InFlight(<<t, "1d">>)' # {}
      <4>1. Len(sel) + j \in 1..Len(f) /\ f[Len(sel) + j] = wl[j]
          BY <1>8
      <4>2. new(Len(sel) + j) \in made /\ new(Len(sel) + j).key = <<t, "1d">>
          BY <1>10, <3>2, <4>1, SMTT(30) DEF made
      <4> QED BY <1>18, <4>2 DEF InFlight
    <3> QED BY <1>6, <2>1, <2>3, <3>1, <3>2
  <2>4. CASE ~subsSet
    <3>1. t \in ToSet(subscriptions)
        BY <1>1, <1>3, <2>4
    <3>2. \/ HasEntry(<<t, "1d">>) /\ ~store[<<t, "1d">>].empty
          \/ InFlight(<<t, "1d">>) # {} \/ <<t, "1d">> \in missed
        BY <3>1 DEF MarketInv, WatchlistCovered
    <3> QED BY <1>18, <3>2 DEF HasEntry, InFlight
  <2> QED BY <2>3, <2>4
<1>21. listener' \in Closures
    BY <1>1, <1>3, <1>4
<1>22. forceMockMode' \in BOOLEAN
    BY <1>2, <1>3
<1> QED BY <1>2, <1>3, <1>18, <1>19, <1>20, <1>21, <1>22 DEF Rendered

\* A step that only sends requests, or none.
LEMMA AddStep ==
    ASSUME MarketInv,
           UNCHANGED <<selection, subscriptions, store, answered, missed>>,
           NEW made, NEW last, last \in Nat, issued <= last,
           \A q \in made : q \in Numberless /\ q.n \in (issued + 1)..last,
           \A p \in made, q \in made : p.n = q.n => p = q,
           Send(made, last, selection, {}),
           listener' \in Closures
    PROVE  Rendered' /\ issued <= issued'
<1> USE WebMarketAssumption
<1>1. /\ TypeOK /\ NewestAsks /\ ShownIsSelected
      /\ subscriptions \in Seq(Tickers)
      /\ selectedTicker \in Tickers \cup {NoTicker} /\ selectedGranularity \in Granularities
      /\ selectedInterval \in Intervals /\ forceMockMode \in BOOLEAN
    BY DEF MarketInv, TypeOK
<1>2. UNCHANGED <<selectedTicker, selectedGranularity, selectedInterval, forceMockMode>>
    BY DEF selection
<1>3. PICK sel : sel = selection
    OBVIOUS
<1>4. Send(made, last, sel, {}) /\ sel = selection'
    BY <1>3
<1>5. /\ selectedTicker' \in Tickers \cup {NoTicker} /\ selectedGranularity' \in Granularities
      /\ \A k \in Keys : answered'[k] = answered[k] /\ store'[k] = store[k]
    BY <1>1, <1>2
<1>6. /\ issued' \in 0..MaxRequests /\ issued <= issued'
      /\ requests' \subseteq Requests'
      /\ made \subseteq requests' /\ requests \ {} \subseteq requests'
      /\ newest' \in [Keys -> [n : 0..issued', fits : BOOLEAN]]
      /\ NewestAsks' /\ ShownIsSelected'
    BY <1>1, <1>4, <1>5, SendStep
<1>7. SomeSelected'
    BY <1>2 DEF MarketInv, SomeSelected
<1>8. WatchlistCovered'
  <2> SUFFICES ASSUME NEW t \in ToSet(subscriptions)
               PROVE  \/ HasEntry(<<t, "1d">>)' /\ ~store'[<<t, "1d">>].empty
                      \/ InFlight(<<t, "1d">>)' # {} \/ <<t, "1d">> \in missed'
      BY DEF WatchlistCovered, ToSet
  <2>1. \/ HasEntry(<<t, "1d">>) /\ ~store[<<t, "1d">>].empty
        \/ InFlight(<<t, "1d">>) # {} \/ <<t, "1d">> \in missed
      BY DEF MarketInv, WatchlistCovered
  <2> QED BY <1>6, <2>1 DEF HasEntry, InFlight
<1>9. forceMockMode' \in BOOLEAN
    BY <1>1, <1>2
<1> QED BY <1>1, <1>2, <1>6, <1>7, <1>8, <1>9 DEF Rendered

\* What follows a request has numbers of its own.
LEMMA FollowUpsTyped ==
    ASSUME TypeOK, NEW r \in requests, NEW ok \in BOOLEAN, NEW m, m = FollowUps(r, ok)
    PROVE  /\ Len(m) \in Nat
           /\ \A q \in ToSet(m) : q \in Numberless /\ q.n \in (issued + 1)..(issued + Len(m))
           /\ \A p \in ToSet(m), q \in ToSet(m) : p.n = q.n => p = q
<1> USE WebMarketAssumption
<1>1. /\ r.mock \in BOOLEAN /\ r.years \in SUBSET Tickers /\ r.rest \in Seq(Tickers)
      /\ r.key[1] \in Tickers /\ issued \in Nat
    BY DEF TypeOK, Requests, Keys
<1> DEFINE year == Request(issued + 1, r, r.key[1], "1y", "1d", <<>>, TRUE)
           pre == IF ok /\ ~r.only /\ r.key[2] # "1y" /\ r.key[1] \notin r.years
                  THEN <<year>> ELSE <<>>
           day == Request(issued + Len(pre) + 1, r, r.rest[1], "1d", "30m", Tail(r.rest), FALSE)
           next == IF r.rest # <<>> THEN <<day>> ELSE <<>>
<1>2. m = pre \o next
    BY DEF FollowUps
<1>3. year \in Numberless /\ year.n = issued + 1
  <2>1. <<r.key[1], "1y">> \in Keys
      BY <1>1 DEF Keys
  <2> QED BY <1>1, <2>1 DEF Request, Numberless
<1> HIDE DEF year
<1>4. /\ pre \in Seq(Numberless) /\ Len(pre) \in 0..1
      /\ \A i \in 1..Len(pre) : pre[i].n = issued + i
    BY <1>3
<1> HIDE DEF pre
<1>5. r.rest # <<>> => day \in Numberless /\ day.n = issued + Len(pre) + 1
  <2> SUFFICES ASSUME r.rest # <<>> PROVE day \in Numberless /\ day.n = issued + Len(pre) + 1
      OBVIOUS
  <2>1. <<r.rest[1], "1d">> \in Keys /\ Tail(r.rest) \in Seq(Tickers)
      BY <1>1 DEF Keys
  <2> QED BY <1>1, <1>4, <2>1 DEF Request, Numberless
<1> HIDE DEF day
<1>6. /\ next \in Seq(Numberless) /\ Len(next) \in 0..1
      /\ \A i \in 1..Len(next) : next[i].n = issued + Len(pre) + i
    BY <1>4, <1>5
<1> HIDE DEF next
<1>7. /\ m \in Seq(Numberless) /\ Len(m) = Len(pre) + Len(next)
      /\ \A i \in 1..Len(pre) : m[i] = pre[i]
      /\ \A i \in 1..Len(next) : m[Len(pre) + i] = next[i]
    BY <1>2, <1>4, <1>6, Joined
<1>8. ASSUME NEW i \in 1..Len(m) PROVE m[i] \in Numberless /\ m[i].n = issued + i
  <2>1. CASE i \in 1..Len(pre)
      BY <1>4, <1>7, <2>1
  <2>2. CASE i \notin 1..Len(pre)
    <3>1. PICK j \in 1..Len(next) : i = Len(pre) + j
      <4>1. i - Len(pre) \in 1..Len(next) /\ i = Len(pre) + (i - Len(pre))
          BY <1>4, <1>6, <1>7, <2>2
      <4> QED BY <4>1
    <3>2. m[i] = next[j]
        BY <1>7, <3>1
    <3>3. next[j].n = issued + Len(pre) + j /\ next[j] \in Numberless
        BY <1>6
    <3> QED BY <1>1, <1>4, <3>1, <3>2, <3>3
  <2> QED BY <2>1, <2>2
<1>9. Len(m) \in Nat
    BY <1>4, <1>6, <1>7
<1>10. ASSUME NEW q \in ToSet(m)
       PROVE  q \in Numberless /\ q.n \in (issued + 1)..(issued + Len(m))
  <2>1. PICK i \in 1..Len(m) : q = m[i]
      BY <1>7 DEF ToSet
  <2>2. q \in Numberless /\ q.n = issued + i
      BY <1>8, <2>1
  <2> QED BY <1>1, <1>9, <2>2
<1>11. ASSUME NEW p \in ToSet(m), NEW q \in ToSet(m), p.n = q.n PROVE p = q
  <2>1. PICK i \in 1..Len(m), j \in 1..Len(m) : p = m[i] /\ q = m[j]
      BY <1>7 DEF ToSet
  <2>2. p.n = issued + i /\ q.n = issued + j
      BY <1>8, <2>1
  <2>3. issued + i = issued + j
      BY <1>11, <2>2, Zenon
  <2>4. i \in Nat /\ j \in Nat /\ issued \in Nat
      BY <1>1, <1>9
  <2>5. i = j
      BY ONLY <2>3, <2>4
  <2> QED BY <2>1, <2>5
<1> QED BY <1>9, <1>10, <1>11

\* A request ends: its key is written, or missed in mock mode.
LEMMA HistoryStep ==
    ASSUME MarketInv, NEW r \in requests, NEW ok \in BOOLEAN, HistoryEnds(r, ok),
           \/ \E empty \in BOOLEAN : Stored(r, empty)
           \/ missed' = missed \cup {r.key} /\ UNCHANGED <<store, answered>>
    PROVE  MarketInv'
<1> USE WebMarketAssumption
<1> DEFINE more == FollowUps(r, ok)
           made == ToSet(more)
           last == issued + Len(more)
<1>0. TypeOK /\ NewestAsks /\ ShownIsSelected
    BY DEF MarketInv
<1>1. /\ Send(made, last, selection, {r})
      /\ UNCHANGED <<selection, subscriptions, calls, listener, handlers, activeTickers, ops,
                     resyncs>>
    BY DEF HistoryEnds
<1>2. /\ Len(more) \in Nat
      /\ \A q \in made : q \in Numberless /\ q.n \in (issued + 1)..last
      /\ \A p \in made, q \in made : p.n = q.n => p = q
    BY <1>0, FollowUpsTyped
<1> HIDE DEF more, made
<1>3. /\ issued \in Nat /\ requests \subseteq Requests /\ subscriptions \in Seq(Tickers)
      /\ selectedTicker \in Tickers \cup {NoTicker} /\ selectedGranularity \in Granularities
      /\ selectedInterval \in Intervals /\ store \in [Keys -> Contents \cup {NoEntry}]
      /\ answered \in [Keys -> 0..issued] /\ missed \subseteq Keys
    BY <1>0 DEF TypeOK
<1>4. r.key \in Keys /\ r.interval \in Intervals /\ r.mock \in BOOLEAN /\ r.n \in 1..issued
    BY <1>3 DEF Requests
<1>5. last \in Nat /\ issued <= last
    BY <1>2, <1>3
<1> HIDE DEF last
<1>6. UNCHANGED <<selectedTicker, selectedGranularity, selectedInterval, forceMockMode>>
    BY <1>1 DEF selection
\* The store and what is written in it.
<1>7. /\ store' \in [Keys -> Contents \cup {NoEntry}]
      /\ answered' \in [Keys -> 0..issued] /\ missed' \subseteq Keys
      /\ \A k \in Keys : k # r.key => /\ store'[k] = store[k] /\ answered'[k] = answered[k]
                                      /\ k \in missed' <=> k \in missed
      /\ \/ /\ answered'[r.key] = r.n
            /\ store'[r.key].interval = r.interval /\ store'[r.key].mock = r.mock
            /\ store'[r.key] # NoEntry /\ (store'[r.key].empty => r.key \in missed')
         \/ UNCHANGED <<store, answered>> /\ r.key \in missed'
  <2>1. ASSUME NEW empty \in BOOLEAN, Stored(r, empty)
        PROVE  /\ store' \in [Keys -> Contents \cup {NoEntry}]
               /\ answered' \in [Keys -> 0..issued] /\ missed' \subseteq Keys
               /\ \A k \in Keys : k # r.key =>
                     /\ store'[k] = store[k] /\ answered'[k] = answered[k]
                     /\ k \in missed' <=> k \in missed
               /\ answered'[r.key] = r.n
               /\ store'[r.key].interval = r.interval /\ store'[r.key].mock = r.mock
               /\ store'[r.key] # NoEntry /\ (store'[r.key].empty => r.key \in missed')
    <3> DEFINE new == [interval |-> r.interval, mock |-> r.mock, empty |-> empty]
    <3>1. /\ store' = [store EXCEPT ![r.key] = new]
          /\ answered' = [answered EXCEPT ![r.key] = r.n]
          /\ missed' = IF empty THEN missed \cup {r.key} ELSE missed \ {r.key}
        BY <2>1 DEF Stored
    <3>2. /\ new \in Contents /\ new.interval = r.interval /\ new.mock = r.mock
          /\ new.empty = empty
        BY <1>4 DEF Contents
    <3>3. new # NoEntry
        BY <1>4, <3>2 DEF NoEntry
    <3> HIDE DEF new
    <3>4. store'[r.key] = new /\ \A k \in Keys : k # r.key => store'[k] = store[k]
        BY <1>3, <1>4, <3>1
    <3>5. /\ store' \in [Keys -> Contents \cup {NoEntry}]
          /\ answered' \in [Keys -> 0..issued]
          /\ answered'[r.key] = r.n
          /\ \A k \in Keys : k # r.key => answered'[k] = answered[k]
        BY <1>3, <1>4, <3>1, <3>2
    <3>6. /\ missed' \subseteq Keys
          /\ \A k \in Keys : k # r.key => (k \in missed' <=> k \in missed)
          /\ empty => r.key \in missed'
        BY <1>3, <1>4, <3>1
    <3> QED BY <3>2, <3>3, <3>4, <3>5, <3>6
  <2>2. CASE missed' = missed \cup {r.key} /\ UNCHANGED <<store, answered>>
      BY <1>3, <1>4, <2>2
  <2> QED BY <2>1, <2>2
<1>8. PICK sel : sel = selection
    OBVIOUS
<1>9. Send(made, last, sel, {r}) /\ sel = selection'
    BY <1>1, <1>8
<1>10. /\ \A k \in Keys :
            \/ answered'[k] = answered[k] /\ store'[k] = store[k]
            \/ \E q \in requests : /\ q.key = k /\ answered'[k] = q.n
                                   /\ store'[k].interval = q.interval
                                   /\ store'[k].mock = q.mock
       /\ selectedTicker' \in Tickers \cup {NoTicker} /\ selectedGranularity' \in Granularities
       /\ UNCHANGED selection
    BY <1>1, <1>3, <1>6, <1>7
<1>11. /\ issued' \in 0..MaxRequests /\ issued <= issued'
       /\ requests' \subseteq Requests'
       /\ made \subseteq requests' /\ requests \ {r} \subseteq requests'
       /\ newest' \in [Keys -> [n : 0..issued', fits : BOOLEAN]]
       /\ NewestAsks' /\ ShownIsSelected'
    BY <1>0, <1>2, <1>5, <1>9, <1>10, SendStep
<1>12. SomeSelected'
    BY <1>1, <1>6 DEF MarketInv, SomeSelected
<1>13. EmptyMissed'
    BY <1>7 DEF MarketInv, EmptyMissed, HasEntry, Keys
<1>14. WatchlistCovered'
  <2> SUFFICES ASSUME NEW t \in ToSet(subscriptions)
               PROVE  \/ HasEntry(<<t, "1d">>)' /\ ~store'[<<t, "1d">>].empty
                      \/ InFlight(<<t, "1d">>)' # {}
                      \/ <<t, "1d">> \in missed'
      BY <1>1 DEF WatchlistCovered, ToSet
  <2> DEFINE k == <<t, "1d">>
  <2>1. k \in Keys
      BY <1>3 DEF ToSet, Keys
  <2>2. \/ (HasEntry(k) /\ ~store[k].empty) \/ InFlight(k) # {} \/ k \in missed
      BY DEF MarketInv, WatchlistCovered
  <2> HIDE DEF k
  <2>3. ASSUME r.key = k PROVE (store'[k] # NoEntry /\ ~store'[k].empty) \/ k \in missed'
      BY <1>7, <2>3
  <2>4. ASSUME r.key # k
        PROVE  \/ store'[k] # NoEntry /\ ~store'[k].empty
               \/ k \in missed'
               \/ {q \in requests' : q.key = k} # {}
    <3>1. {q \in requests : q.key = k} \subseteq {q \in requests' : q.key = k}
        BY <1>11, <2>4
    <3> QED BY <1>7, <2>1, <2>2, <2>4, <3>1 DEF HasEntry, InFlight
  <2> QED BY <2>3, <2>4 DEF k, HasEntry, InFlight
<1>15. forceMockMode' \in BOOLEAN
    BY <1>0, <1>6 DEF TypeOK
<1>16. calls' \subseteq Calls /\ handlers' \subseteq Closures /\ listener' \in Closures
       /\ activeTickers' \in Seq(Tickers)
    BY <1>0, <1>1 DEF TypeOK
<1>17. answered' \in [Keys -> 0..issued']
  <2>1. 0..issued \subseteq 0..issued'
      BY <1>3, <1>11
  <2> QED BY <1>7, <2>1
<1>18. TypeOK'
    BY <1>1, <1>3, <1>6, <1>7, <1>11, <1>15, <1>16, <1>17 DEF TypeOK, Calls, Changes, Closures
<1> QED BY <1>11, <1>12, <1>13, <1>14, <1>18 DEF MarketInv

\* The invariant of selection and watchlist holds at the mount.
LEMMA MarketInvInit == Init => MarketInv
<1> SUFFICES ASSUME Init PROVE MarketInv
    OBVIOUS
<1> USE WebMarketAssumption
<1>1. atMount \in Closures
    BY DEF atMount, Closure, Closures
<1>2. [kind |-> "config", from |-> atMount] \in Calls
    BY <1>1 DEF Calls
<1>3. forceMockMode \in BOOLEAN
    BY DEF Init
<1>4. TypeOK
    BY <1>1, <1>2, <1>3 DEF Init, TypeOK, Contents
<1>5. ToSet(subscriptions) = {}
    BY DEF Init, ToSet
<1> QED BY <1>4, <1>5
        DEF Init, MarketInv, SomeSelected, NewestAsks, ShownIsSelected, EmptyMissed, HasEntry,
            WatchlistCovered

\* The parts that a render or a request cannot disturb, and the others.
LEMMA Together ==
    ASSUME Rendered', UNCHANGED <<store, answered, missed>>, issued <= issued', MarketInv,
           activeTickers' \in Seq(Tickers), calls' \subseteq Calls, handlers' \subseteq Closures
    PROVE  MarketInv'
<1>1. forceMockMode' \in BOOLEAN
    BY DEF Rendered
<1>2. /\ store' \in [Keys -> Contents \cup {NoEntry}] /\ missed' \subseteq Keys
      /\ answered \in [Keys -> 0..issued] /\ issued \in Nat
    BY WebMarketAssumption DEF MarketInv, TypeOK
<1>3. answered' \in [Keys -> 0..issued']
  <2>1. issued' \in Nat
      BY WebMarketAssumption DEF Rendered
  <2>2. 0..issued \subseteq 0..issued'
      BY <1>2, <2>1
  <2> QED BY <1>2, <2>2
<1>4. EmptyMissed'
    BY DEF MarketInv, EmptyMissed, HasEntry
<1>5. TypeOK'
    BY <1>1, <1>2, <1>3 DEF Rendered, TypeOK, Calls, Changes, Closures
<1> QED BY <1>4, <1>5 DEF Rendered, MarketInv

\* Every step of selection, watchlist, requests and answers keeps the invariant.
LEMMA MarketInvStep == MarketInv /\ [Next]_vars => MarketInv'
<1> SUFFICES ASSUME MarketInv, [Next]_vars PROVE MarketInv'
    OBVIOUS
<1> USE WebMarketAssumption
<1>0. TypeOK
    BY DEF MarketInv
<1>1. /\ calls \subseteq Calls /\ handlers \subseteq Closures /\ listener \in Closures
      /\ activeTickers \in Seq(Tickers) /\ issued \in 0..MaxRequests
      /\ subscriptions \in Seq(Tickers)
    BY <1>0 DEF TypeOK
<1>2. current \in Closures /\ current.subs = subscriptions
    BY <1>0, CurrentTyped DEF current, Closure
\* A render of a closure that differs from the current one in some fields.
<1>3. ASSUME NEW c \in Closures, c.subs = subscriptions, UserOp(c) PROVE MarketInv'
  <2>1. /\ Render(c, FALSE, {})
        /\ UNCHANGED <<store, calls, handlers, activeTickers, answered, missed>>
      BY <1>3 DEF UserOp
  <2>2. Rendered' /\ issued <= issued'
      BY <1>3, <2>1, RenderStep
  <2> QED BY <1>1, <2>1, <2>2, Together
<1>4. ASSUME NEW t \in Tickers, selectTicker(t) PROVE MarketInv'
  <2>1. [current EXCEPT !.ticker = t] \in Closures
        /\ [current EXCEPT !.ticker = t].subs = subscriptions
      BY <1>2 DEF Closures
  <2> QED BY <1>3, <1>4, <2>1 DEF selectTicker
<1>5. ASSUME NEW g \in Granularities, selectGranularity(g) PROVE MarketInv'
  <2>1. [current EXCEPT !.gran = g, !.interval = recMap[g]] \in Closures
        /\ [current EXCEPT !.gran = g, !.interval = recMap[g]].subs = subscriptions
      BY <1>2 DEF Closures
  <2> QED BY <1>3, <1>5, <2>1 DEF selectGranularity
<1>6. ASSUME NEW i \in Intervals, selectInterval(i) PROVE MarketInv'
  <2>1. [current EXCEPT !.interval = i] \in Closures
        /\ [current EXCEPT !.interval = i].subs = subscriptions
      BY <1>2 DEF Closures
  <2> QED BY <1>3, <1>6, <2>1 DEF selectInterval
<1>7. ASSUME NEW m \in BOOLEAN, setMode(m) PROVE MarketInv'
  <2>1. [current EXCEPT !.mock = m] \in Closures
        /\ [current EXCEPT !.mock = m].subs = subscriptions
      BY <1>2 DEF Closures
  <2> QED BY <1>3, <1>7, <2>1 DEF setMode
\* Steps that leave the terminal's market state alone.
<1>8. ASSUME UNCHANGED <<selection, subscriptions, store, requests, listener, handlers,
                         issued, newest, answered, missed>>,
             calls' \subseteq Calls, activeTickers' \in Seq(Tickers)
      PROVE  MarketInv'
  <2>1. /\ UNCHANGED <<selectedTicker, selectedGranularity, selectedInterval, forceMockMode>>
        /\ issued \in Nat
      BY <1>1, <1>8 DEF selection
  <2>2. SomeSelected' /\ NewestAsks' /\ ShownIsSelected' /\ WatchlistCovered'
    <3>1. SomeSelected'
        BY <1>8, <2>1 DEF MarketInv, SomeSelected
    <3>2. NewestAsks'
        BY <1>8, <2>1 DEF MarketInv, NewestAsks, Keys
    <3>3. ShownIsSelected'
        BY <1>8, <2>1 DEF MarketInv, ShownIsSelected
    <3>4. WatchlistCovered'
        BY <1>8, Zenon DEF MarketInv, WatchlistCovered, ToSet, HasEntry, InFlight
    <3> QED BY <3>1, <3>2, <3>3, <3>4
  <2>3. Rendered' /\ issued <= issued'
      BY <1>0, <1>8, <2>1, <2>2 DEF Rendered, TypeOK, Requests, Closures
  <2> QED BY <1>1, <1>8, <2>3, Together
<1>9. ASSUME NEW call \in Calls, Call(call) PROVE MarketInv'
    BY <1>1, <1>8, <1>9 DEF Call
<1>10. ASSUME NEW t \in Tickers, addSubscription(t) PROVE MarketInv'
  <2>1. [kind |-> "add", from |-> current, ticker |-> t] \in Calls
      BY <1>2 DEF Calls, Changes
  <2> QED BY <1>9, <1>10, <2>1 DEF addSubscription
<1>11. ASSUME NEW t \in Tickers, removeSubscription(t) PROVE MarketInv'
  <2>1. [kind |-> "remove", from |-> current, ticker |-> t] \in Calls
      BY <1>2 DEF Calls, Changes
  <2> QED BY <1>9, <1>11, <2>1 DEF removeSubscription
<1>12. CASE saveApiKey
  <2>1. [kind |-> "key", from |-> current] \in Calls
      BY <1>2 DEF Calls
  <2> QED BY <1>9, <1>12, <2>1 DEF saveApiKey
<1>13. CASE selectAlpacaFeed
  <2>1. [kind |-> "feed", from |-> current] \in Calls
      BY <1>2 DEF Calls
  <2> QED BY <1>9, <1>13, <2>1 DEF selectAlpacaFeed
\* The kinds of calls.
<1>14. ASSUME NEW call \in calls
       PROVE  /\ call.kind \in {"add", "remove"} => call \in Changes
              /\ call.kind \in {"read", "changed"} =>
                    call.of \in Changes /\ call.tickers \in Seq(Tickers)
              /\ call.kind \in {"config", "key", "feed"} => call.from \in Closures
  <2>1. call \in Calls
      BY <1>1
  <2>2. CASE call \in [kind : {"config", "key", "feed"}, from : Closures]
      BY <2>2
  <2>3. CASE call \in Changes
    <3>1. call.kind \in {"add", "remove"}
        BY <2>3 DEF Changes
    <3> QED BY <2>3, <3>1
  <2>4. CASE call \in [kind : {"read", "changed"}, of : Changes, tickers : Seq(Tickers)]
      BY <2>4
  <2> QED BY <2>1, <2>2, <2>3, <2>4 DEF Calls
<1>15. ASSUME NEW call \in calls, HandleMdgSubscriptionsReads(call) PROVE MarketInv'
  <2>1. call \in Changes
      BY <1>14, <1>15 DEF HandleMdgSubscriptionsReads
  <2>2. [kind |-> "read", of |-> call, tickers |-> activeTickers] \in Calls
      BY <1>1, <2>1 DEF Calls
  <2> QED BY <1>1, <1>8, <1>15, <2>2 DEF HandleMdgSubscriptionsReads
<1>16. ASSUME NEW call \in calls, HandleMdgSubscriptionsWrites(call) PROVE MarketInv'
  <2> DEFINE list == changedList(call.of, call.tickers)
  <2>1. call.of \in Changes /\ call.tickers \in Seq(Tickers)
      BY <1>14, <1>16 DEF HandleMdgSubscriptionsWrites
  <2>2. list \in Seq(Tickers)
    <3>1. call.of.ticker \in Tickers
        BY <2>1 DEF Changes
    <3>2. Kept(call.tickers, Tickers \ {call.of.ticker}) \in Seq(Tickers)
        BY <2>1, KeptKeeps
    <3>3. Append(call.tickers, call.of.ticker) \in Seq(Tickers)
        BY <2>1, <3>1
    <3> QED BY <2>1, <3>2, <3>3 DEF changedList
  <2> HIDE DEF list
  <2>3. [kind |-> "changed", of |-> call.of, tickers |-> list] \in Calls
      BY <2>1, <2>2 DEF Calls
  <2>4. /\ activeTickers' = IF list # call.tickers THEN list ELSE activeTickers
        /\ calls' = (calls \ {call}) \cup {[kind |-> "changed", of |-> call.of, tickers |-> list]}
        /\ UNCHANGED <<selection, subscriptions, store, requests, listener, handlers, issued, ops,
                       resyncs, newest, answered, missed>>
      BY <1>16 DEF HandleMdgSubscriptionsWrites, list
  <2> QED BY <1>1, <1>8, <2>2, <2>3, <2>4
<1>17. ASSUME NEW call \in calls, NEW c \in Closures, Ends(call), Render(c, TRUE, {})
       PROVE  MarketInv'
  <2>1. Rendered' /\ issued <= issued'
      BY <1>17, RenderStep DEF Ends
  <2> QED BY <1>1, <1>17, <2>1, Together DEF Ends
<1>18. ASSUME NEW call \in calls, ConfigAnswered(call) PROVE MarketInv'
  <2> DEFINE t == IF activeTickers # <<>> /\ call.from.ticker = NoTicker
                  THEN activeTickers[1] ELSE current.ticker
             c == [current EXCEPT !.subs = activeTickers,
                                  !.ticker = IF activeTickers # <<>> /\ call.from.ticker = NoTicker
                                             THEN activeTickers[1] ELSE @]
  <2>1. current.ticker \in Tickers \cup {NoTicker}
      BY <1>2 DEF Closures
  <2>2. t \in Tickers \cup {NoTicker}
      BY <1>1, <2>1
  <2>3. c \in Closures
      BY <1>1, <1>2, <2>2 DEF Closures
  <2> QED BY <1>17, <1>18, <2>3 DEF ConfigAnswered
<1>19. ASSUME NEW call \in calls, SubscriptionAnswered(call) PROVE MarketInv'
  <2> DEFINE c == [current EXCEPT
                 !.subs = call.tickers,
                 !.ticker = CASE call.of.kind = "add" /\ call.of.from.ticker = NoTicker
                                   -> call.of.ticker
                              [] call.of.kind = "remove" /\ call.of.from.ticker = call.of.ticker
                                   /\ call.tickers # <<>>
                                   -> call.tickers[1]
                              [] OTHER -> @]
  <2>1. call.of \in Changes /\ call.tickers \in Seq(Tickers)
      BY <1>14, <1>19 DEF SubscriptionAnswered
  <2>2. current.ticker \in Tickers \cup {NoTicker} /\ call.of.ticker \in Tickers
      BY <1>2, <2>1 DEF Closures, Changes
  <2>3. call.tickers # <<>> => call.tickers[1] \in Tickers
      BY <2>1
  <2>4. c \in Closures
      BY <1>2, <2>1, <2>2, <2>3 DEF Closures
  <2> QED BY <1>17, <1>19, <2>4 DEF SubscriptionAnswered
<1>20. ASSUME NEW call \in calls, ControlAnswered(call) PROVE MarketInv'
  <2> DEFINE c == IF call.kind = "key" THEN [current EXCEPT !.mock = FALSE] ELSE current
             ns == Len(selectionFetches(c))
             nw == Len(watchlistFetches(c, FALSE))
             first == ns + nw + 1
             q == Request(issued + first, call.from, call.from.ticker, call.from.gran,
                          call.from.interval, <<>>, FALSE)
             others == IF call.from.ticker = NoTicker THEN {} ELSE {q}
  <2>1. /\ call.from \in Closures /\ Ends(call)
        /\ Render(c, FALSE, others)
      BY <1>14, <1>20 DEF ControlAnswered
  <2>2. c \in Closures /\ c.subs = subscriptions /\ c.ticker = selectedTicker
      BY <1>2 DEF Closures, current, Closure
  <2> HIDE DEF c
  <2>3. autoSelected(c) = c
      BY <2>2 DEF MarketInv, SomeSelected, autoSelected
  <2>4. ns \in Nat /\ nw \in Nat
    <3>1. selectionFetches(c) \in Seq(Fetches)
        BY <2>2, SelectionFetched, Zenon
    <3> DEFINE w == watchlistFetches(c, FALSE)
    <3>2. w \in Seq(Fetches)
        BY <2>2, WatchlistFetched, Zenon
    <3> HIDE DEF w
    <3>3. Len(selectionFetches(c)) \in Nat /\ Len(w) \in Nat
        BY <3>1, <3>2
    <3> QED BY <3>3 DEF w
  <2> HIDE DEF ns, nw
  <2>5. call.from.ticker # NoTicker => q \in Numberless /\ q.n = issued + first
    <3> SUFFICES ASSUME call.from.ticker # NoTicker PROVE q \in Numberless /\ q.n = issued + first
        OBVIOUS
    <3>1. /\ call.from.ticker \in Tickers /\ call.from.gran \in Granularities
          /\ call.from.interval \in Intervals /\ call.from.mock \in BOOLEAN
          /\ call.from.years \in SUBSET Tickers
        BY <2>1 DEF Closures
    <3>2. <<call.from.ticker, call.from.gran>> \in Keys /\ issued + first \in Nat
        BY <1>1, <2>4, <3>1 DEF Keys
    <3> QED BY <3>1, <3>2 DEF Request, Numberless
  <2>6. issued + first = issued + ns + nw + 1
      BY <1>1, <2>4
  <2>7. \/ others = {}
        \/ \E r \in Numberless :
              /\ others = {r}
              /\ r.n = issued + Len(selectionFetches(autoSelected(c)))
                              + Len(watchlistFetches(autoSelected(c), FALSE)) + 1
    <3>1. call.from.ticker # NoTicker => q \in Numberless /\ q.n = issued + ns + nw + 1
        BY <2>5, <2>6
    <3> HIDE DEF q, first
    <3>2. others = {} \/ (others = {q} /\ q \in Numberless /\ q.n = issued + ns + nw + 1)
        BY <3>1
    <3>3. ns = Len(selectionFetches(autoSelected(c))) /\ nw = Len(watchlistFetches(autoSelected(c), FALSE))
        BY <2>3, Zenon DEF ns, nw
    <3> QED BY <3>2, <3>3, Zenon
  <2> HIDE DEF others
  <2>8. Rendered' /\ issued <= issued'
      BY <2>1, <2>2, <2>7, RenderStep DEF Ends
  <2> QED BY <1>1, <2>1, <2>8, Together DEF Ends
<1>21. ASSUME NEW call \in calls, CallFails(call) PROVE MarketInv'
    BY <1>1, <1>8, <1>21 DEF CallFails, Ends
<1>22. ASSUME NEW r \in requests, HistoryAnswered(r) PROVE MarketInv'
    BY <1>22, HistoryStep DEF HistoryAnswered
<1>23. ASSUME NEW r \in requests, HistoryFailed(r) PROVE MarketInv'
    BY <1>23, HistoryStep DEF HistoryFailed
<1>24. ASSUME NEW c \in Closures, resyncData(c) 
       PROVE  Rendered' /\ issued <= issued' /\ calls' \subseteq Calls
  <2> DEFINE a == Request(issued + 1, c, c.ticker, c.gran, c.interval, c.subs, FALSE)
             b == Request(issued + 1, c, c.subs[1], "1d", "30m", Tail(c.subs), FALSE)
             first == CASE c.ticker # NoTicker -> {a}
                        [] c.ticker = NoTicker /\ c.subs # <<>> -> {b}
                        [] OTHER -> {}
  <2>1. /\ Send(first, issued + Cardinality(first), selection, {})
        /\ calls' = calls \cup {[kind |-> "config", from |-> c]}
        /\ UNCHANGED <<selection, subscriptions, store, listener, activeTickers, ops,
                       answered, missed>>
      BY <1>24 DEF resyncData
  <2>2. /\ c.ticker \in Tickers \cup {NoTicker} /\ c.gran \in Granularities
        /\ c.interval \in Intervals /\ c.mock \in BOOLEAN /\ c.subs \in Seq(Tickers)
        /\ c.years \in SUBSET Tickers /\ issued + 1 \in Nat
      BY <1>1, <1>24 DEF Closures
  <2>3. c.ticker # NoTicker => a \in Numberless /\ a.n = issued + 1
    <3> SUFFICES ASSUME c.ticker # NoTicker PROVE a \in Numberless /\ a.n = issued + 1
        OBVIOUS
    <3>1. <<c.ticker, c.gran>> \in Keys
        BY <2>2 DEF Keys
    <3> QED BY <2>2, <3>1 DEF Request, Numberless
  <2>4. c.subs # <<>> => b \in Numberless /\ b.n = issued + 1
    <3> SUFFICES ASSUME c.subs # <<>> PROVE b \in Numberless /\ b.n = issued + 1
        OBVIOUS
    <3>1. <<c.subs[1], "1d">> \in Keys /\ Tail(c.subs) \in Seq(Tickers)
        BY <2>2 DEF Keys
    <3> QED BY <2>2, <3>1 DEF Request, Numberless
  <2> HIDE DEF a, b
  <2>5. \/ first = {}
        \/ first = {a} /\ c.ticker # NoTicker
        \/ first = {b} /\ c.subs # <<>>
    <3>1. CASE c.ticker # NoTicker
        BY <3>1
    <3>2. CASE c.ticker = NoTicker /\ c.subs # <<>>
        BY <3>2
    <3>3. CASE c.ticker = NoTicker /\ c.subs = <<>>
        BY <3>3
    <3> QED BY <3>1, <3>2, <3>3
  <2> HIDE DEF first
  <2>6. /\ \A q \in first : q \in Numberless /\ q.n = issued + 1
        /\ Cardinality(first) \in Nat
        /\ first # {} => Cardinality(first) = 1
        /\ \A p \in first, q \in first : p = q
    <3>1. Cardinality({}) = 0 /\ \A q : Cardinality({q}) = 1
        BY FS_EmptySet, FS_Singleton, Zenon
    <3>2. CASE first = {}
        BY <3>1, <3>2
    <3>3. CASE first # {}
      <4>1. PICK q : first = {q} /\ q \in Numberless /\ q.n = issued + 1
          BY <2>3, <2>4, <2>5, <3>3
      <4>2. Cardinality(first) = 1
          BY <3>1, <4>1, Zenon
      <4> QED BY <4>1, <4>2
    <3> QED BY <3>2, <3>3
  <2> DEFINE last == issued + Cardinality(first)
  <2>7. /\ last \in Nat /\ issued <= last
        /\ \A q \in first : q \in Numberless /\ q.n \in (issued + 1)..last
    <3>1. last \in Nat /\ issued <= last /\ (first # {} => last = issued + 1) /\ issued \in Nat
        BY <1>1, <2>6
    <3> HIDE DEF last
    <3> QED BY <2>6, <3>1
  <2> HIDE DEF last
  <2>8. Rendered' /\ issued <= issued'
    <3>1. Send(first, last, selection, {})
        BY <2>1 DEF last
    <3>2. listener' \in Closures
        BY <1>1, <2>1
    <3> QED BY <2>1, <2>6, <2>7, <3>1, <3>2, AddStep
  <2>9. [kind |-> "config", from |-> c] \in Calls
      BY <1>24 DEF Calls
  <2> QED BY <1>1, <2>1, <2>8, <2>9
<1>25. ASSUME NEW c \in handlers, SocketOpens(c) PROVE MarketInv'
  <2>1. resyncData(c) /\ UNCHANGED handlers /\ c \in Closures
      BY <1>1, <1>25 DEF SocketOpens
  <2>2. Rendered' /\ issued <= issued' /\ calls' \subseteq Calls
      BY <1>24, <2>1
  <2>3. UNCHANGED <<store, answered, missed, activeTickers>>
      BY <2>1 DEF resyncData
  <2> QED BY <1>1, <2>1, <2>2, <2>3, Together
<1>26. CASE fetchOnOnline
  <2>1. resyncData(listener) /\ handlers' = handlers \cup {listener}
      BY <1>26 DEF fetchOnOnline
  <2>2. Rendered' /\ issued <= issued' /\ calls' \subseteq Calls
      BY <1>1, <1>24, <2>1
  <2>3. UNCHANGED <<store, answered, missed, activeTickers>>
      BY <2>1 DEF resyncData
  <2>4. handlers' \subseteq Closures
      BY <1>1, <2>1
  <2> QED BY <1>1, <2>2, <2>3, <2>4, Together
<1>27. CASE UNCHANGED vars
    BY <1>1, <1>8, <1>27 DEF vars
<1> QED
    BY <1>4, <1>5, <1>6, <1>7, <1>10, <1>11, <1>12, <1>13, <1>15, <1>16, <1>18, <1>19, <1>20,
       <1>21, <1>22, <1>23, <1>25, <1>26, <1>27 DEF Next

\* The chart shows what is selected: when the selected key was written last by the
\* answer to the newest request for it, and that request asked for what was selected
\* when it was made, its bars have the selected interval and mode, however answers,
\* failures, switches of mode, changes of the list and reconnections are
\* interleaved.  An older request that is answered last is left out: the code does
\* not discard its answer.
THEOREM ShownTheorem == Spec => []ShownIsSelected
<1>1. MarketInv => ShownIsSelected
    BY DEF MarketInv
<1> QED BY <1>1, MarketInvInit, MarketInvStep, PTL DEF Spec

\* No symbol of the watchlist is left at "Loading..." unasked: it has bars, a request
\* in flight, or its last request to end failed or brought no bars.
THEOREM WatchlistTheorem == Spec => []WatchlistCovered
<1>1. MarketInv => WatchlistCovered
    BY DEF MarketInv
<1> QED BY <1>1, MarketInvInit, MarketInvStep, PTL DEF Spec

-----------------------------------------------------------------------------
(***************************************************************************)
(* The links to the BFF                                                    *)
(***************************************************************************)
\* At first there is neither a socket nor a timer.
LEMMA LinkInvInit == LinkInit => LinkInv
<1> SUFFICES ASSUME LinkInit PROVE LinkInv
    OBVIOUS
<1>1. LinkTypeOK
  <2>1. isWsConnected \in BOOLEAN /\ isReconnecting \in BOOLEAN /\ isOnline \in BOOLEAN
      BY Zenon DEF LinkInit
  <2>2. /\ sockets \in [Ids -> Live \cup {"none", "closed"}]
        /\ timers \in SUBSET Ids
        /\ wsRef \in 0..MaxSockets
        /\ chains \in Nat
      BY LinkAssumption DEF LinkInit
  <2> QED BY <2>1, <2>2 DEF LinkTypeOK
<1>2. /\ \A i \in Ids : sockets[i] = "none" <=> i > wsRef
      /\ timers = {}
    BY LinkAssumption DEF LinkInit, Ids
<1>3. CommandLinkKept /\ FlagsHonest
    BY DEF LinkInit, CommandLinkKept, FlagsHonest
<1> QED BY <1>1, <1>2, <1>3 DEF LinkInv

\* Every step of a link keeps LinkInv.
LEMMA LinkInvStep == LinkInv /\ [LinkNext]_linkVars => LinkInv'
<1> SUFFICES ASSUME LinkInv, [LinkNext]_linkVars PROVE LinkInv'
    OBVIOUS
<1> USE LinkAssumption DEF Ids, Live
<1>0. /\ LinkTypeOK
      /\ \A i \in Ids : sockets[i] = "none" <=> i > wsRef
      /\ \A i \in timers : sockets[i] = "closed"
      /\ CommandLinkKept
      /\ FlagsHonest
    BY DEF LinkInv
<1>1. CASE Mount
  <2>1. LinkTypeOK'
    <3>1. isWsConnected' \in BOOLEAN /\ isReconnecting' \in BOOLEAN /\ isOnline' \in BOOLEAN
        BY <1>0, <1>1, Zenon DEF Mount, connectWS, LinkTypeOK
    <3>2. /\ sockets' \in [Ids -> Live \cup {"none", "closed"}]
          /\ timers' \in SUBSET Ids
          /\ wsRef' \in 0..MaxSockets
          /\ chains' \in Nat
        BY <1>0, <1>1 DEF Mount, connectWS, LinkTypeOK
    <3> QED BY <3>1, <3>2 DEF LinkTypeOK
  <2>2. /\ \A j \in Ids : sockets'[j] = "none" <=> j > wsRef'
        /\ \A j \in timers' : sockets'[j] = "closed"
        /\ CommandLinkKept'
      BY <1>0, <1>1 DEF Mount, connectWS, LinkTypeOK, CommandLinkKept
  <2>3. isWsConnected' => \E j \in Ids : sockets'[j] = "open"
      BY <1>0, <1>1 DEF Mount, connectWS, LinkTypeOK, FlagsHonest
  <2>4. isReconnecting' => timers' # {}
      BY <1>0, <1>1 DEF Mount, connectWS, FlagsHonest
  <2> QED BY <2>1, <2>2, <2>3, <2>4 DEF LinkInv, FlagsHonest
<1>2. CASE MountStrict
  <2>1. LinkTypeOK'
    <3>1. isWsConnected' \in BOOLEAN /\ isReconnecting' \in BOOLEAN /\ isOnline' \in BOOLEAN
        BY <1>0, <1>2, Zenon DEF MountStrict, LinkTypeOK
    <3>2. /\ sockets' \in [Ids -> Live \cup {"none", "closed"}]
          /\ timers' \in SUBSET Ids
          /\ wsRef' \in 0..MaxSockets
          /\ chains' \in Nat
        BY <1>0, <1>2 DEF MountStrict, LinkTypeOK
    <3> QED BY <3>1, <3>2 DEF LinkTypeOK
  <2>2. /\ \A j \in Ids : sockets'[j] = "none" <=> j > wsRef'
        /\ \A j \in timers' : sockets'[j] = "closed"
        /\ CommandLinkKept'
      BY <1>0, <1>2 DEF MountStrict, LinkTypeOK, CommandLinkKept
  <2>3. isWsConnected' => \E j \in Ids : sockets'[j] = "open"
      BY <1>0, <1>2 DEF MountStrict, LinkTypeOK, FlagsHonest
  <2>4. isReconnecting' => timers' # {}
      BY <1>0, <1>2 DEF MountStrict, FlagsHonest
  <2> QED BY <2>1, <2>2, <2>3, <2>4 DEF LinkInv, FlagsHonest
<1>3. CASE handleOnline
  <2>1. LinkTypeOK'
    <3>1. isWsConnected' \in BOOLEAN /\ isReconnecting' \in BOOLEAN /\ isOnline' \in BOOLEAN
        BY <1>0, <1>3, Zenon DEF handleOnline, connectWS, LinkTypeOK
    <3>2. /\ sockets' \in [Ids -> Live \cup {"none", "closed"}]
          /\ timers' \in SUBSET Ids
          /\ wsRef' \in 0..MaxSockets
          /\ chains' \in Nat
        BY <1>0, <1>3 DEF handleOnline, connectWS, LinkTypeOK
    <3> QED BY <3>1, <3>2 DEF LinkTypeOK
  <2>2. /\ \A j \in Ids : sockets'[j] = "none" <=> j > wsRef'
        /\ \A j \in timers' : sockets'[j] = "closed"
        /\ CommandLinkKept'
      BY <1>0, <1>3 DEF handleOnline, connectWS, LinkTypeOK, CommandLinkKept
  <2>3. isWsConnected' => \E j \in Ids : sockets'[j] = "open"
      BY <1>0, <1>3 DEF handleOnline, connectWS, LinkTypeOK, FlagsHonest
  <2>4. isReconnecting' => timers' # {}
      BY <1>0, <1>3 DEF handleOnline, connectWS, FlagsHonest
  <2> QED BY <2>1, <2>2, <2>3, <2>4 DEF LinkInv, FlagsHonest
<1>4. CASE handleOffline
  <2>1. LinkTypeOK'
      BY <1>0, <1>4 DEF handleOffline, LinkTypeOK
  <2>2. /\ \A j \in Ids : sockets'[j] = "none" <=> j > wsRef'
        /\ \A j \in timers' : sockets'[j] = "closed"
        /\ CommandLinkKept'
      BY <1>0, <1>4 DEF handleOffline, LinkTypeOK, CommandLinkKept
  <2>3. isWsConnected' => \E j \in Ids : sockets'[j] = "open"
      BY <1>0, <1>4 DEF handleOffline, LinkTypeOK, FlagsHonest
  <2>4. isReconnecting' => timers' # {}
      BY <1>0, <1>4 DEF handleOffline, FlagsHonest
  <2> QED BY <2>1, <2>2, <2>3, <2>4 DEF LinkInv, FlagsHonest
<1>5. ASSUME NEW i \in Ids, onopen(i) PROVE LinkInv'
  <2>1. LinkTypeOK'
      BY <1>0, <1>5 DEF onopen, LinkTypeOK
  <2>2. /\ \A j \in Ids : sockets'[j] = "none" <=> j > wsRef'
        /\ \A j \in timers' : sockets'[j] = "closed"
        /\ CommandLinkKept'
      BY <1>0, <1>5 DEF onopen, LinkTypeOK, CommandLinkKept
  <2>3. isWsConnected' => \E j \in Ids : sockets'[j] = "open"
      BY <1>0, <1>5 DEF onopen, LinkTypeOK, FlagsHonest
  <2>4. isReconnecting' => timers' # {}
      BY <1>0, <1>5 DEF onopen, FlagsHonest
  <2> QED BY <2>1, <2>2, <2>3, <2>4 DEF LinkInv, FlagsHonest
<1>6. ASSUME NEW i \in Ids, onmessage(i) PROVE LinkInv'
  <2>1. LinkTypeOK'
      BY <1>0, <1>6 DEF onmessage, LinkTypeOK
  <2>2. /\ \A j \in Ids : sockets'[j] = "none" <=> j > wsRef'
        /\ \A j \in timers' : sockets'[j] = "closed"
        /\ CommandLinkKept'
      BY <1>0, <1>6 DEF onmessage, LinkTypeOK, CommandLinkKept
  <2>3. isWsConnected' => \E j \in Ids : sockets'[j] = "open"
      BY <1>0, <1>6 DEF onmessage, LinkTypeOK, FlagsHonest
  <2>4. isReconnecting' => timers' # {}
      BY <1>0, <1>6 DEF onmessage, FlagsHonest
  <2> QED BY <2>1, <2>2, <2>3, <2>4 DEF LinkInv, FlagsHonest
<1>7. ASSUME NEW i \in Ids, Lost(i) PROVE LinkInv'
  <2>1. LinkTypeOK'
      BY <1>0, <1>7 DEF Lost, onclose, LinkTypeOK
  <2>2. /\ \A j \in Ids : sockets'[j] = "none" <=> j > wsRef'
        /\ \A j \in timers' : sockets'[j] = "closed"
        /\ CommandLinkKept'
      BY <1>0, <1>7 DEF Lost, onclose, LinkTypeOK, CommandLinkKept
  <2>3. isWsConnected' => \E j \in Ids : sockets'[j] = "open"
      BY <1>0, <1>7 DEF Lost, onclose, LinkTypeOK, FlagsHonest
  <2>4. isReconnecting' => timers' # {}
      BY <1>0, <1>7 DEF Lost, onclose, FlagsHonest
  <2> QED BY <2>1, <2>2, <2>3, <2>4 DEF LinkInv, FlagsHonest
<1>8. ASSUME NEW i \in Ids, Closed(i) PROVE LinkInv'
  <2>1. LinkTypeOK'
      BY <1>0, <1>8 DEF Closed, onclose, LinkTypeOK
  <2>2. /\ \A j \in Ids : sockets'[j] = "none" <=> j > wsRef'
        /\ \A j \in timers' : sockets'[j] = "closed"
        /\ CommandLinkKept'
      BY <1>0, <1>8 DEF Closed, onclose, LinkTypeOK, CommandLinkKept
  <2>3. isWsConnected' => \E j \in Ids : sockets'[j] = "open"
      BY <1>0, <1>8 DEF Closed, onclose, LinkTypeOK, FlagsHonest
  <2>4. isReconnecting' => timers' # {}
      BY <1>0, <1>8 DEF Closed, onclose, FlagsHonest
  <2> QED BY <2>1, <2>2, <2>3, <2>4 DEF LinkInv, FlagsHonest
<1>9. ASSUME NEW i \in Ids, TimerFires(i) PROVE LinkInv'
  <2>1. LinkTypeOK'
    <3>1. isWsConnected' \in BOOLEAN /\ isReconnecting' \in BOOLEAN /\ isOnline' \in BOOLEAN
        BY <1>0, <1>9, Zenon DEF TimerFires, connectWS, LinkTypeOK
    <3>2. /\ sockets' \in [Ids -> Live \cup {"none", "closed"}]
          /\ timers' \in SUBSET Ids
          /\ wsRef' \in 0..MaxSockets
          /\ chains' \in Nat
        BY <1>0, <1>9 DEF TimerFires, connectWS, LinkTypeOK
    <3> QED BY <3>1, <3>2 DEF LinkTypeOK
  <2>2. /\ \A j \in Ids : sockets'[j] = "none" <=> j > wsRef'
        /\ \A j \in timers' : sockets'[j] = "closed"
        /\ CommandLinkKept'
      BY <1>0, <1>9 DEF TimerFires, connectWS, LinkTypeOK, CommandLinkKept
  <2>3. isWsConnected' => \E j \in Ids : sockets'[j] = "open"
      BY <1>0, <1>9 DEF TimerFires, connectWS, LinkTypeOK, FlagsHonest
  <2>4. isReconnecting' => timers' # {}
      BY <1>0, <1>9 DEF TimerFires, connectWS, FlagsHonest
  <2> QED BY <2>1, <2>2, <2>3, <2>4 DEF LinkInv, FlagsHonest
<1>10. CASE UNCHANGED linkVars
    BY <1>0, <1>10 DEF linkVars, flags, LinkInv, LinkTypeOK, CommandLinkKept, FlagsHonest
<1> QED BY <1>1, <1>2, <1>3, <1>4, <1>5, <1>6, <1>7, <1>8, <1>9, <1>10 DEF LinkNext

-----------------------------------------------------------------------------
\* There are finitely many live sockets and pending retries.
LEMMA SetsFinite ==
  ASSUME LinkTypeOK
  PROVE  /\ IsFiniteSet(LiveSockets) /\ Cardinality(LiveSockets) \in Nat
         /\ IsFiniteSet(timers) /\ Cardinality(timers) \in Nat
<1>1. IsFiniteSet(Ids)
    BY LinkAssumption, FS_Interval DEF Ids
<1>2. IsFiniteSet(LiveSockets) /\ IsFiniteSet(timers)
    BY <1>1, FS_Subset DEF LiveSockets, LinkTypeOK
<1> QED BY <1>2, FS_CardinalityType

\* connectWS adds a live socket.
LEMMA ConnectAdds ==
  ASSUME LinkInv, connectWS
  PROVE  Cardinality(LiveSockets') = Cardinality(LiveSockets) + 1
<1>1. wsRef + 1 \in Ids /\ wsRef + 1 \notin LiveSockets
    BY LinkAssumption DEF LinkInv, LinkTypeOK, connectWS, Ids, LiveSockets, Live
<1>2. LiveSockets' = LiveSockets \cup {wsRef + 1}
    BY <1>1 DEF LinkInv, LinkTypeOK, connectWS, LiveSockets, Live, Ids
<1>3. IsFiniteSet(LiveSockets)
    BY SetsFinite DEF LinkInv
<1> QED BY <1>1, <1>2, <1>3, FS_AddElement

\* onclose turns a live socket into a pending retry.
LEMMA CloseMoves ==
  ASSUME LinkInv, NEW i \in LiveSockets, onclose(i)
  PROVE  /\ Cardinality(LiveSockets') = Cardinality(LiveSockets) - 1
         /\ Cardinality(timers') = Cardinality(timers) + 1
<1>1. LiveSockets' = LiveSockets \ {i}
    BY DEF LinkInv, LinkTypeOK, onclose, LiveSockets, Live
<1>2. i \notin timers /\ timers' = timers \cup {i}
    BY DEF LinkInv, onclose, LiveSockets, Live
<1>3. IsFiniteSet(LiveSockets) /\ IsFiniteSet(timers)
    BY SetsFinite DEF LinkInv
<1> QED BY <1>1, <1>2, <1>3, FS_AddElement, FS_RemoveElement

\* Before the mount there is no link and no retry.
LEMMA ConservedInit == LinkInit => LinksConserved
<1> SUFFICES ASSUME LinkInit PROVE LinksConserved
    OBVIOUS
<1>1. LiveSockets = {} /\ timers = {}
    BY DEF LinkInit, LiveSockets, Live
<1> QED BY <1>1, FS_EmptySet DEF LinksConserved, LinkInit

\* Every step of the link keeps live sockets and retries as many as the starts.
LEMMA ConservedStep ==
  LinkInv /\ LinksConserved /\ [LinkNext]_linkVars => LinksConserved'
<1> SUFFICES ASSUME LinkInv, LinksConserved, [LinkNext]_linkVars PROVE LinksConserved'
    OBVIOUS
<1>0. /\ LinkTypeOK
      /\ IsFiniteSet(LiveSockets) /\ Cardinality(LiveSockets) \in Nat
      /\ IsFiniteSet(timers) /\ Cardinality(timers) \in Nat
      /\ Cardinality(LiveSockets) + Cardinality(timers) = chains
    BY SetsFinite DEF LinkInv, LinksConserved
<1>a. ASSUME wsRef = 0 PROVE Cardinality(LiveSockets) = 0 /\ Cardinality(timers) = 0
  <2>1. LiveSockets = {} /\ timers = {}
      BY <1>a, LinkAssumption DEF LinkInv, LinkTypeOK, LiveSockets, Live, Ids
  <2> QED BY <2>1, FS_EmptySet
<1>1. CASE Mount
    BY <1>0, <1>1, <1>a, ConnectAdds DEF Mount, LinksConserved
<1>2. CASE MountStrict
  <2>1. LiveSockets' = {1, 2} /\ timers' = timers /\ chains' = 2
      BY <1>0, <1>2, LinkAssumption
      DEF MountStrict, LinkInv, LinkTypeOK, LiveSockets, Live, Ids
  <2>2. Cardinality({1, 2}) = 2
    <3>1. 1..2 = {1, 2}
        OBVIOUS
    <3>2. Cardinality(1..2) = IF 1 > 2 THEN 0 ELSE 2 - 1 + 1
        BY ONLY FS_Interval, 1 \in Int, 2 \in Int
    <3> QED BY <3>1, <3>2
  <2> QED BY <1>2, <1>a, <2>1, <2>2 DEF MountStrict, LinksConserved
<1>3. CASE handleOnline
    BY <1>0, <1>3, ConnectAdds DEF handleOnline, LinksConserved, LinkTypeOK
<1>4. CASE handleOffline
    BY <1>0, <1>4 DEF handleOffline, LinksConserved, LiveSockets
<1>5. ASSUME NEW i \in Ids, onopen(i) PROVE LinksConserved'
  <2>1. LiveSockets' = LiveSockets
      BY <1>0, <1>5 DEF onopen, LiveSockets, Live, LinkTypeOK
  <2> QED BY <1>0, <1>5, <2>1 DEF onopen, LinksConserved
<1>6. ASSUME NEW i \in Ids, onmessage(i) PROVE LinksConserved'
    BY <1>0, <1>6 DEF onmessage, LinksConserved, LiveSockets
<1>7. ASSUME NEW i \in Ids, Lost(i) PROVE LinksConserved'
  <2>1. i \in LiveSockets
      BY <1>7 DEF Lost, LiveSockets, Live
  <2> QED BY <1>0, <1>7, <2>1, CloseMoves DEF Lost, LinksConserved
<1>8. ASSUME NEW i \in Ids, Closed(i) PROVE LinksConserved'
  <2>1. i \in LiveSockets
      BY <1>8 DEF Closed, LiveSockets, Live
  <2> QED BY <1>0, <1>8, <2>1, CloseMoves DEF Closed, LinksConserved
<1>9. ASSUME NEW i \in Ids, TimerFires(i) PROVE LinksConserved'
  <2>1. Cardinality(timers') = Cardinality(timers) - 1
      BY <1>0, <1>9, FS_RemoveElement DEF TimerFires
  <2> QED BY <1>0, <1>9, <2>1, ConnectAdds DEF TimerFires, LinksConserved
<1>10. CASE UNCHANGED linkVars
    BY <1>0, <1>10 DEF linkVars, LinksConserved, LiveSockets
<1> QED BY <1>1, <1>2, <1>3, <1>4, <1>5, <1>6, <1>7, <1>8, <1>9, <1>10 DEF LinkNext

-----------------------------------------------------------------------------
\* What the BFF does leaves the links alone, or is one of their steps.
LEMMA CircuitStepIsLinkStep == [CircuitNext]_circuitVars => [LinkNext]_linkVars
<1> USE DEF LinkNext
<1>1. ASSUME NEW i \in Ids, LinkLost(i) \/ Accept(i) \/ Greet(i) \/ unregisterClient(i)
      PROVE [LinkNext]_linkVars
    BY <1>1 DEF LinkLost, Accept, Greet, unregisterClient
<1>2. ASSUME NEW k \in DOMAIN statuses, NEW i \in Ids, DeliverStatus(k, i)
      PROVE [LinkNext]_linkVars
    BY <1>2 DEF DeliverStatus
<1>3. ASSUME NEW a, Handler(a) \/ Announcer(a) PROVE UNCHANGED linkVars
    BY <1>3 DEF Handler, Announcer, Receive, UpdateRedis, broadcastStatus, broadcast,
                callEMSForcePause
<1>4. ASSUME NEW a, sendOOBAction(a) \/ ApiLocal(a) PROVE UNCHANGED linkVars
    BY <1>4 DEF sendOOBAction, ApiLocal
<1>5. CASE requestResume \/ postHalt \/ Validate \/ HealthCheck \/ RestartEMS
    BY <1>5 DEF requestResume, postHalt, Validate, HealthCheck, RestartEMS
<1>6. CASE Quietly(Mount \/ MountStrict \/ handleOnline \/ (Budget /\ handleOffline))
    BY <1>6 DEF Quietly
<1>7. ASSUME NEW i \in Ids, Quietly(Closed(i) \/ TimerFires(i)) PROVE [LinkNext]_linkVars
    BY <1>7 DEF Quietly
<1>8. CASE UNCHANGED circuitVars
    BY <1>8 DEF circuitVars
<1> QED BY <1>1, <1>2, <1>3, <1>4, <1>5, <1>6, <1>7, <1>8 DEF CircuitNext

\* With the BFF beside them, the links keep LinkInv: the command link is never
\* given up and the badges do not lie for good (connectWS and its handlers).
THEOREM CommandLinkTheorem == CircuitSpec => []CommandLinkKept
<1>1. CircuitInit => LinkInv
    BY LinkInvInit DEF CircuitInit
<1>2. LinkInv /\ [CircuitNext]_circuitVars => LinkInv'
    BY LinkInvStep, CircuitStepIsLinkStep
<1>3. LinkInv => CommandLinkKept
    BY DEF LinkInv
<1> QED BY <1>1, <1>2, <1>3, PTL DEF CircuitSpec

\* The badges of the terminal are honest in every state of the composed system.
THEOREM FlagsHonestTheorem == CircuitSpec => []FlagsHonest
<1>1. CircuitInit => LinkInv
    BY LinkInvInit DEF CircuitInit
<1>2. LinkInv /\ [CircuitNext]_circuitVars => LinkInv'
    BY LinkInvStep, CircuitStepIsLinkStep
<1>3. LinkInv => FlagsHonest
    BY DEF LinkInv
<1> QED BY <1>1, <1>2, <1>3, PTL DEF CircuitSpec

\* No chain of reconnections dies or splits, whatever is lost and whenever.
THEOREM LinksConservedTheorem == CircuitSpec => []LinksConserved
<1>1. CircuitInit => LinkInv /\ LinksConserved
    BY LinkInvInit, ConservedInit DEF CircuitInit
<1>2. LinkInv /\ LinksConserved /\ [CircuitNext]_circuitVars => LinkInv' /\ LinksConserved'
    BY LinkInvStep, ConservedStep, CircuitStepIsLinkStep
<1> QED BY <1>1, <1>2, PTL DEF CircuitSpec

-----------------------------------------------------------------------------
(***************************************************************************)
(* A halt reaches the EMS                                                  *)
(***************************************************************************)
LEMMA Actions == /\ DOMAIN Target = {"pause", "panic", "resume", "halt"}
                 /\ Handlers = {"pause", "panic", "resume", "halt", "health"}
BY DEF Target, Handlers

\* A handler that goes to another step, or ends, keeps the tasks well formed.
LEMMA TaskMoves ==
    ASSUME tasks \in [Handlers -> [pc : Steps, link : 0..MaxSockets]],
           NEW a \in Handlers, NEW pc \in Steps,
           Go(a, pc) \/ Done(a)
    PROVE  /\ tasks' \in [Handlers -> [pc : Steps, link : 0..MaxSockets]]
           /\ Go(a, pc) => tasks'[a].pc = pc
           /\ Done(a) => tasks'[a].pc = "idle"
           /\ \A b \in Handlers : b # a => tasks'[b] = tasks[b]
<1> USE LinkAssumption
<1>1. CASE Go(a, pc)
  <2>1. tasks' = [tasks EXCEPT ![a] = [tasks[a] EXCEPT !.pc = pc]]
      BY <1>1 DEF Go
  <2>2. tasks[a] \in [pc : Steps, link : 0..MaxSockets]
      OBVIOUS
  <2>3. /\ [tasks[a] EXCEPT !.pc = pc] \in [pc : Steps, link : 0..MaxSockets]
        /\ [tasks[a] EXCEPT !.pc = pc].pc = pc
      BY <2>2
  <2> DEFINE moved == [tasks[a] EXCEPT !.pc = pc]
  <2> HIDE DEF moved
  <2>4. tasks' = [tasks EXCEPT ![a] = moved] /\ moved.pc = pc
        /\ moved \in [pc : Steps, link : 0..MaxSockets]
      BY <2>1, <2>3 DEF moved
  <2>5. Done(a) => tasks'[a] = Idle /\ Idle.pc = "idle"
      BY DEF Done, Idle
  <2> QED BY <2>4, <2>5
<1>2. CASE Done(a)
  <2>1. Idle \in [pc : Steps, link : 0..MaxSockets] /\ Idle.pc = "idle"
      BY DEF Idle, Steps
  <2>2. tasks' = [tasks EXCEPT ![a] = Idle]
      BY <1>2 DEF Done
  <2>3. Go(a, pc) => tasks'[a].pc = pc
      BY DEF Go
  <2> QED BY <2>1, <2>2, <2>3
<1> QED BY <1>1, <1>2

\* Every step of terminal and BFF keeps the invariant behind HaltReachesEMS.
LEMMA HaltInvStep == HaltInv /\ LinkInv /\ [CircuitNext]_circuitVars => HaltInv'
<1> SUFFICES ASSUME HaltInv, LinkInv, [CircuitNext]_circuitVars PROVE HaltInv'
    OBVIOUS
<1> DEFINE Typed == /\ currentState \in States
                    /\ redis \in States \cup {Empty}
                    /\ tasks \in [Handlers -> [pc : Steps, link : 0..MaxSockets]]
           Halted == currentState # "RUNNING" \/ redis \in {"PAUSED", "TERMINATED"}
           Told == emsPaused \/ untold
           Telling(a) == tasks[a].pc \in {"redis", "broadcast", "send", "ems"}
           Owes == tasks["halt"].pc = "redis"
<1>0. /\ Typed /\ (Owes => Told)
      /\ Halted => Told \/ Telling("pause") \/ Telling("panic")
    BY DEF HaltInv
<1>a. ASSUME Typed', Owes' => Told', Halted' => Told' \/ Telling("pause")' \/ Telling("panic")'
      PROVE  HaltInv'
    BY <1>a DEF HaltInv
<1> USE LinkAssumption, Actions
<1>1. ASSUME UNCHANGED bff, UNCHANGED tasks PROVE HaltInv'
    BY <1>0, <1>1, <1>a DEF bff
<1>b. ASSUME UNCHANGED bff, NEW a \in Handlers, NEW pc \in Steps \ {"redis"},
             Go(a, pc) \/ Done(a),
             a \in {"pause", "panic"} /\ Telling(a) => Go(a, pc) /\ pc \in {"broadcast", "send", "ems"}
      PROVE  HaltInv'
  <2>1. /\ tasks' \in [Handlers -> [pc : Steps, link : 0..MaxSockets]]
        /\ Go(a, pc) => tasks'[a].pc = pc
        /\ Done(a) => tasks'[a].pc = "idle"
        /\ \A b \in Handlers : b # a => tasks'[b] = tasks[b]
      BY <1>0, <1>b, TaskMoves
  <2>2. Typed' /\ Told' = Told /\ Halted' = Halted
      BY <1>0, <1>b, <2>1 DEF bff
  <2>3. Owes' => Owes
      BY <1>b, <2>1
  <2>4. \A b \in {"pause", "panic"} : Telling(b) => Telling(b)'
      BY <1>b, <2>1
  <2> QED BY <1>0, <1>a, <2>2, <2>3, <2>4
<1>2. ASSUME NEW a \in {"pause", "panic"}, sendOOBAction(a) PROVE HaltInv'
  <2>1. wsRef \in 0..MaxSockets
      BY DEF LinkInv, LinkTypeOK
  <2>2. /\ tasks' = [tasks EXCEPT ![a] = [pc |-> "sent", link |-> wsRef]]
        /\ tasks[a] = Idle /\ UNCHANGED bff
      BY <1>2 DEF sendOOBAction, Free
  <2>3. Typed' /\ Told' = Told /\ Halted' = Halted
      BY <1>0, <2>1, <2>2 DEF Steps, bff
  <2>4. ~Telling(a)
      BY <2>2 DEF Idle
  <2>5. \A b \in {"pause", "panic"} : Telling(b) => Telling(b)'
      BY <1>0, <2>2, <2>4
  <2>6. Owes' => Owes
      BY <1>0, <2>2
  <2> QED BY <1>0, <1>a, <2>3, <2>5, <2>6
<1>3. CASE requestResume \/ postHalt \/ Validate \/ HealthCheck
  <2>1. UNCHANGED bff
      BY <1>3 DEF requestResume, postHalt, Validate, HealthCheck
  <2>2. \/ \E pc \in {"validate", "local"} : Go("resume", pc)
        \/ Done("resume") \/ Go("halt", "local") \/ Go("health", "broadcast")
      BY <1>3 DEF requestResume, postHalt, Validate, HealthCheck
  <2>3. {"validate", "local", "broadcast"} \subseteq Steps \ {"redis"}
      BY DEF Steps
  <2> QED BY <1>b, <2>1, <2>2, <2>3
<1>4. ASSUME NEW a \in DOMAIN Target, UpdateLocal(a) PROVE HaltInv'
  <2>1. /\ tasks' \in [Handlers -> [pc : Steps, link : 0..MaxSockets]]
        /\ tasks'[a].pc = "redis"
        /\ \A b \in Handlers : b # a => tasks'[b] = tasks[b]
      BY <1>0, <1>4, TaskMoves DEF UpdateLocal, Steps
  <2>2. /\ currentState' = Target[a] /\ UNCHANGED <<redis, emsPaused>>
        /\ untold' = (untold \/ a = "halt")
      BY <1>4 DEF UpdateLocal
  <2>3. Typed' /\ (Told => Told')
    <3>1. Target[a] \in States
        BY DEF Target, States
    <3>2. Typed'
        BY <1>0, <2>1, <2>2, <3>1
    <3> QED BY <2>2, <3>2
  <2>4. CASE a = "resume"
    <3>1. currentState' = "RUNNING"
        BY <2>2, <2>4 DEF Target
    <3> QED BY <1>0, <1>a, <2>1, <2>2, <2>3, <2>4, <3>1
  <2>5. CASE a \in {"pause", "panic"}
      BY <1>0, <1>a, <2>1, <2>3, <2>5
  <2>6. CASE a = "halt"
      BY <1>a, <2>2, <2>3, <2>6
  <2> QED BY <2>4, <2>5, <2>6
<1>5. ASSUME NEW a \in DOMAIN Target, Receive(a) PROVE HaltInv'
  <2>1. CASE UpdateLocal(a)
      BY <1>4, <2>1
  <2>2. CASE Done(a) /\ UNCHANGED bff /\ tasks[a].pc = "sent"
      BY <1>b, <2>2 DEF Steps
  <2> QED BY <1>5, <2>1, <2>2 DEF Receive
<1>6. ASSUME NEW a \in DOMAIN Target, UpdateRedis(a) PROVE HaltInv'
  <2>1. /\ tasks' \in [Handlers -> [pc : Steps, link : 0..MaxSockets]]
        /\ tasks'[a].pc = "broadcast"
        /\ \A b \in Handlers : b # a => tasks'[b] = tasks[b]
      BY <1>0, <1>6, TaskMoves DEF UpdateRedis, Steps
  <2>2. /\ redis' \in {redis, Target[a]} /\ UNCHANGED <<currentState, emsPaused, untold>>
        /\ tasks[a].pc = "redis"
      BY <1>6 DEF UpdateRedis
  <2>3. Typed' /\ Told' = Told /\ (Owes' => Owes)
      BY <1>0, <2>1, <2>2 DEF Target, States
  <2>4. CASE a = "resume"
    <3>1. redis' \in {redis, "RUNNING"}
        BY <2>2, <2>4 DEF Target
    <3> QED BY <1>0, <1>a, <2>1, <2>2, <2>3, <2>4, <3>1
  <2>5. CASE a \in {"pause", "panic"}
      BY <1>0, <1>a, <2>1, <2>3, <2>5
  <2>6. CASE a = "halt"
      BY <1>0, <1>a, <2>2, <2>3, <2>6
  <2> QED BY <2>4, <2>5, <2>6
<1>7. ASSUME NEW a \in Handlers, broadcastStatus(a) PROVE HaltInv'
  <2>1. UNCHANGED bff /\ Go(a, "send") /\ "send" \in Steps \ {"redis"}
      BY <1>7 DEF broadcastStatus, Steps
  <2> QED BY <1>b, <2>1
<1>8. ASSUME NEW a \in Handlers, broadcast(a) PROVE HaltInv'
  <2>1. /\ UNCHANGED bff /\ "ems" \in Steps \ {"redis"}
        /\ IF a \in {"pause", "panic"} THEN Go(a, "ems") ELSE Done(a)
      BY <1>8 DEF broadcast, Steps
  <2> QED BY <1>b, <2>1
<1>9. ASSUME NEW a \in DOMAIN Target, callEMSForcePause(a) PROVE HaltInv'
  <2>1. /\ tasks' \in [Handlers -> [pc : Steps, link : 0..MaxSockets]]
        /\ tasks'[a].pc = "idle"
        /\ \A b \in Handlers : b # a => tasks'[b] = tasks[b]
      BY <1>0, <1>9, TaskMoves DEF callEMSForcePause, Steps
  <2>2. UNCHANGED <<currentState, redis>> /\ Told'
      BY <1>9 DEF callEMSForcePause
  <2> QED BY <1>0, <1>a, <2>1, <2>2
<1>10. ASSUME NEW a \in {"resume", "halt"}, ApiLocal(a) PROVE HaltInv'
    BY <1>4, <1>10 DEF ApiLocal
<1>11. ASSUME NEW i \in Ids, LinkLost(i) \/ Accept(i) \/ Greet(i) \/ unregisterClient(i)
       PROVE  UNCHANGED bff /\ UNCHANGED tasks
    BY <1>11 DEF LinkLost, Accept, Greet, unregisterClient
<1>12. ASSUME NEW k, NEW i, DeliverStatus(k, i) PROVE UNCHANGED bff /\ UNCHANGED tasks
    BY <1>12 DEF DeliverStatus
<1>13. ASSUME NEW A, Quietly(A) PROVE UNCHANGED bff /\ UNCHANGED tasks
    BY <1>13 DEF Quietly
<1>14. CASE RestartEMS
    BY <1>0, <1>14, <1>a DEF RestartEMS
<1>15. CASE UNCHANGED circuitVars
    BY <1>1, <1>15 DEF circuitVars
<1> QED BY <1>1, <1>2, <1>3, <1>5, <1>6, <1>7, <1>8, <1>9, <1>10, <1>11, <1>12, <1>13, <1>14,
           <1>15 DEF CircuitNext, Handler, Announcer

\* The invariants of the link and of a halt hold at the start.
LEMMA CircuitInvInit == CircuitInit => LinkInv /\ HaltInv
<1>1. CircuitInit => LinkInv
    BY LinkInvInit DEF CircuitInit
<1>2. CircuitInit => HaltInv
    BY LinkAssumption, Actions DEF CircuitInit, HaltInv, Idle, Steps, States, Empty
<1> QED BY <1>1, <1>2

\* For any number of sockets, handlers and failures: a circuit that the operator
\* has halted and that is at rest has halted the EMS, unless a call to the EMS
\* failed, the EMS restarted or the halt came over HTTP, and no ForcePause arrived
\* since (processOOBAction, HandleCircuitAPI, callEMSForcePause).
THEOREM HaltReachesEMSTheorem == CircuitSpec => []HaltReachesEMS
<1>1. CircuitInit => LinkInv /\ HaltInv
    BY CircuitInvInit
<1>2. LinkInv /\ HaltInv /\ [CircuitNext]_circuitVars => LinkInv' /\ HaltInv'
    BY LinkInvStep, CircuitStepIsLinkStep, HaltInvStep
<1>3. HaltInv => HaltReachesEMS
  <2> SUFFICES ASSUME HaltInv, AllIdle, circuit # "RUNNING"
               PROVE  emsPaused \/ untold
      BY DEF HaltReachesEMS
  <2>1. currentState # "RUNNING" \/ redis \in {"PAUSED", "TERMINATED"}
      BY DEF HaltInv, circuit, States, Empty
  <2>2. \A a \in {"pause", "panic"} : tasks[a].pc = "idle"
      BY Actions DEF AllIdle, Idle
  <2> QED BY <2>1, <2>2 DEF HaltInv
<1> QED BY <1>1, <1>2, <1>3, PTL DEF CircuitSpec

-----------------------------------------------------------------------------
(***************************************************************************)
(* The terminal shows the state of the BFF                                 *)
(***************************************************************************)
\* A status that is still to be sent, or that some link waits for.
Wanted(st) == st.to # {} \/ st.by # "sent"

\* The entries of s that are wanted, in their order.
Picks(s, n, t, e) ==
    /\ t \in Seq(Status)
    /\ e \in [1..Len(t) -> 1..n]
    /\ \A j \in 1..Len(t) : t[j] = s[e[j]]
    /\ \A i, j \in 1..Len(t) : i < j => e[i] < e[j]
    /\ \A k \in 1..n : Wanted(s[k]) => \E j \in 1..Len(t) : e[j] = k

\* Awaited keeps the statuses that are wanted, and their order.
LEMMA AwaitedPicks ==
    ASSUME NEW s \in Seq(Status)
    PROVE  \E e : Picks(s, Len(s), Awaited(s), e)
<1> DEFINE Step(n, t) == IF s[n].to = {} /\ s[n].by = "sent" THEN t ELSE Append(t, s[n])
           Reads(f, N) == f = [n \in 0..N |-> IF n = 0 THEN <<>> ELSE Step(n, f[n - 1])]
<1>1. \E f : Reads(f, Len(s))
  <2> HIDE DEF Step
  <2> DEFINE S == {N \in Nat : \E f : Reads(f, N)}
  <2>1. 0 \in S
    <3>1. Reads([n \in 0..0 |-> <<>>], 0)
        OBVIOUS
    <3> QED BY <3>1
  <2>2. ASSUME NEW N \in S PROVE N + 1 \in S
    <3>1. PICK f : Reads(f, N)
        OBVIOUS
    <3> DEFINE g == [n \in 0..(N + 1) |-> IF n <= N THEN f[n] ELSE Step(N + 1, f[N])]
               h == [n \in 0..(N + 1) |-> IF n = 0 THEN <<>> ELSE Step(n, g[n - 1])]
    <3>2. f[0] = <<>> /\ \A n \in 1..N : f[n] = Step(n, f[n - 1])
        BY <3>1
    <3>3. \A n \in 0..(N + 1) : g[n] = h[n]
        BY <3>2
    <3>4. g = h
        BY <3>3
    <3>5. Reads(g, N + 1)
        BY <3>4
    <3> HIDE DEF g, Reads
    <3> QED BY <3>5
  <2>a. S \subseteq Nat
      OBVIOUS
  <2> HIDE DEF S
  <2>3. Nat \subseteq S
      BY <2>1, <2>2, <2>a, NatInd
  <2> QED BY <2>3 DEF S
<1> DEFINE kept == CHOOSE f : Reads(f, Len(s))
<1>2. Reads(kept, Len(s)) /\ Awaited(s) = kept[Len(s)]
    BY <1>1 DEF Awaited
<1> HIDE DEF kept
<1>3. /\ kept[0] = <<>>
      /\ \A n \in 1..Len(s) :
            kept[n] = IF Wanted(s[n]) THEN Append(kept[n - 1], s[n]) ELSE kept[n - 1]
  <2> HIDE DEF Step
  <2>1. kept[0] = <<>> /\ \A n \in 1..Len(s) : kept[n] = Step(n, kept[n - 1])
      BY <1>2
  <2> QED BY <2>1 DEF Step, Wanted
<1>4. \E e : Picks(s, 0, kept[0], e)
  <2>1. Picks(s, 0, <<>>, [j \in 1..0 |-> 0])
      BY DEF Picks
  <2> QED BY <1>3, <2>1
<1>5. ASSUME NEW n \in Nat, n + 1 <= Len(s), NEW e, Picks(s, n, kept[n], e)
      PROVE  \E d : Picks(s, n + 1, kept[n + 1], d)
  <2> DEFINE t == kept[n]
  <2>1. /\ t \in Seq(Status) /\ e \in [1..Len(t) -> 1..n]
        /\ \A j \in 1..Len(t) : t[j] = s[e[j]]
        /\ \A i, j \in 1..Len(t) : i < j => e[i] < e[j]
        /\ \A k \in 1..n : Wanted(s[k]) => \E j \in 1..Len(t) : e[j] = k
      BY <1>5 DEF Picks
  <2>2. kept[n + 1] = IF Wanted(s[n + 1]) THEN Append(t, s[n + 1]) ELSE t
    <3>1. n + 1 \in 1..Len(s) /\ (n + 1) - 1 = n
        BY <1>5
    <3> QED BY <1>3, <3>1
  <2> HIDE DEF t
  <2>3. CASE ~Wanted(s[n + 1])
    <3>1. \A k \in 1..(n + 1) : Wanted(s[k]) => k \in 1..n
        BY <2>3
    <3>2. e \in [1..Len(t) -> 1..(n + 1)]
        BY <2>1
    <3>3. Picks(s, n + 1, t, e)
        BY <2>1, <3>1, <3>2 DEF Picks
    <3> QED BY <2>2, <2>3, <3>3
  <2>4. CASE Wanted(s[n + 1])
    <3> DEFINE u == Append(t, s[n + 1])
               d == [j \in 1..(Len(t) + 1) |-> IF j <= Len(t) THEN e[j] ELSE n + 1]
    <3>1. s[n + 1] \in Status /\ Len(t) \in Nat
        BY <1>5, <2>1
    <3>2. /\ u \in Seq(Status) /\ Len(u) = Len(t) + 1
          /\ \A j \in 1..Len(t) : u[j] = t[j]
          /\ u[Len(t) + 1] = s[n + 1]
        BY <2>1, <3>1
    <3> HIDE DEF u
    <3>3. d \in [1..Len(u) -> 1..(n + 1)]
        BY <2>1, <3>1, <3>2
    <3>4. d[Len(t) + 1] = n + 1 /\ \A j \in 1..Len(t) : d[j] = e[j] /\ d[j] <= n
      <4>1. \A j \in 1..Len(t) : e[j] <= n
          BY <2>1
      <4> QED BY <3>1, <4>1
    <3> HIDE DEF d
    <3>5. \A j \in 1..Len(u) : u[j] = s[d[j]]
        BY <2>1, <3>1, <3>2, <3>4
    <3>6. \A i, j \in 1..Len(u) : i < j => d[i] < d[j]
      <4> SUFFICES ASSUME NEW i \in 1..Len(u), NEW j \in 1..Len(u), i < j PROVE d[i] < d[j]
          OBVIOUS
      <4>1. i \in 1..Len(t) /\ (j \in 1..Len(t) \/ j = Len(t) + 1)
          BY <3>1, <3>2
      <4>2. CASE j \in 1..Len(t)
        <5>1. d[i] = e[i] /\ d[j] = e[j] /\ e[i] < e[j]
            BY <2>1, <3>4, <4>1, <4>2
        <5> QED BY <5>1
      <4>3. CASE j = Len(t) + 1
        <5>1. d[i] \in 1..n /\ d[j] = n + 1
            BY <2>1, <3>4, <4>1, <4>3
        <5> QED BY <1>5, <5>1
      <4> QED BY <4>1, <4>2, <4>3
    <3>7. \A k \in 1..(n + 1) : Wanted(s[k]) => \E j \in 1..Len(u) : d[j] = k
      <4> SUFFICES ASSUME NEW k \in 1..(n + 1), Wanted(s[k])
                   PROVE  \E j \in 1..Len(u) : d[j] = k
          OBVIOUS
      <4>1. CASE k = n + 1
          BY <3>1, <3>2, <3>4, <4>1
      <4>2. CASE k \in 1..n
        <5>1. PICK j \in 1..Len(t) : e[j] = k
            BY <2>1, <4>2
        <5> QED BY <3>1, <3>2, <3>4, <5>1
      <4> QED BY <4>1, <4>2
    <3>8. Picks(s, n + 1, u, d)
        BY <3>2, <3>3, <3>5, <3>6, <3>7 DEF Picks
    <3> QED BY <2>2, <2>4, <3>8 DEF u
  <2> QED BY <2>3, <2>4
<1> HIDE DEF Reads
<1> DEFINE Good(n) == n <= Len(s) => \E e : Picks(s, n, kept[n], e)
           S == {n \in Nat : Good(n)}
<1>6. S \subseteq Nat /\ 0 \in S
    BY <1>4
<1>7. ASSUME NEW n \in S PROVE n + 1 \in S
  <2>1. n \in Nat /\ Good(n)
      OBVIOUS
  <2>2. n + 1 <= Len(s) => n <= Len(s)
      BY <2>1
  <2>3. Good(n + 1)
      BY <1>5, <2>1, <2>2
  <2> QED BY <2>1, <2>3
<1>8. Len(s) \in Nat /\ (Len(s) \in S => \E e : Picks(s, Len(s), kept[Len(s)], e))
    OBVIOUS
<1> HIDE DEF S
<1>9. Nat \subseteq S
    BY <1>6, <1>7, NatInd
<1> QED BY <1>2, <1>8, <1>9

\* What is kept comes from s, in the order of s, and what is wanted is kept.
LEMMA AwaitedKeeps ==
    ASSUME NEW s \in Seq(Status), NEW t, t = Awaited(s)
    PROVE  /\ t \in Seq(Status)
           /\ \A j \in DOMAIN t : \E k \in DOMAIN s : t[j] = s[k]
           /\ \A k \in DOMAIN s : Wanted(s[k]) =>
                 \E j \in DOMAIN t :
                    /\ t[j] = s[k]
                    /\ \A jj \in DOMAIN t : jj >= j => \E kk \in DOMAIN s : kk >= k /\ t[jj] = s[kk]
<1>1. PICK e : Picks(s, Len(s), t, e)
    BY AwaitedPicks
<1>2. /\ t \in Seq(Status) /\ DOMAIN t = 1..Len(t) /\ DOMAIN s = 1..Len(s)
      /\ Len(t) \in Nat /\ Len(s) \in Nat
      /\ e \in [1..Len(t) -> 1..Len(s)]
      /\ \A j \in 1..Len(t) : t[j] = s[e[j]]
      /\ \A i, j \in 1..Len(t) : i < j => e[i] < e[j]
      /\ \A k \in 1..Len(s) : Wanted(s[k]) => \E j \in 1..Len(t) : e[j] = k
    BY <1>1 DEF Picks
<1>3. \A j \in DOMAIN t : e[j] \in DOMAIN s /\ t[j] = s[e[j]]
    BY <1>2
<1>4. ASSUME NEW k \in DOMAIN s, Wanted(s[k])
      PROVE  \E j \in DOMAIN t :
                /\ t[j] = s[k]
                /\ \A jj \in DOMAIN t : jj >= j => \E kk \in DOMAIN s : kk >= k /\ t[jj] = s[kk]
  <2>1. PICK j \in DOMAIN t : e[j] = k
      BY <1>2, <1>4
  <2>2. ASSUME NEW jj \in DOMAIN t, jj >= j PROVE e[jj] >= k
    <3>1. CASE jj = j
        BY <1>2, <2>1, <3>1
    <3>2. CASE jj > j
      <4>1. e[j] < e[jj] /\ e[j] \in Int /\ e[jj] \in Int
          BY <1>2, <3>2
      <4> QED BY <2>1, <4>1
    <3> QED BY <1>2, <2>2, <3>1, <3>2
  <2> QED BY <1>3, <2>1, <2>2
<1> QED BY <1>2, <1>3, <1>4

\* A step that changes neither a status nor the state, and opens no link.
LEMMA SettleQuiet ==
    ASSUME SettleInv,
           UNCHANGED <<statuses, misled, shown, currentState, redis, greeting>>,
           Unannounced => Unannounced',
           \A b \in Handlers : tasks[b].pc = "send" => tasks'[b].pc = "send",
           clients' \subseteq clients,
           \A i \in Ids : sockets'[i] = "open" => sockets[i] = "open"
    PROVE  SettleInv'
<1>1. circuit' = circuit
    BY DEF circuit
<1>2. Reachable' \subseteq Reachable
    BY DEF Reachable, SettleInv
<1>3. /\ \A i : Coming(i) => Coming(i)'
      /\ Arrived => Arrived'
    BY <1>1 DEF Coming, Arrived, shown
<1>4. \A k \in DOMAIN statuses : statuses[k].by # "sent" => tasks'[statuses[k].by].pc = "send"
  <2>1. \A k \in DOMAIN statuses : statuses[k] \in Status
      BY DEF SettleInv
  <2>2. \A k \in DOMAIN statuses : statuses[k].by \in Handlers \cup {"sent"}
      BY <2>1 DEF Status
  <2> QED BY <2>2 DEF SettleInv
<1> QED BY <1>2, <1>3, <1>4 DEF SettleInv, shown

\* A step that makes a status of the state: the links it is for have it coming, and
\* so has every link when it is still to be sent.
LEMMA SettleMade ==
    ASSUME SettleInv, NEW state \in States, NEW to \in SUBSET Ids,
           NEW by \in Handlers \cup {"sent"}, MakeStatus(state, to, by),
           UNCHANGED <<shown, bff, clients, sockets>>,
           misled' \in BOOLEAN, ~misled' => state = circuit,
           \/ by = "sent" /\ (misled => misled') /\ UNCHANGED tasks
              /\ greeting \subseteq greeting' \cup to
           \/ by # "sent" /\ tasks'[by].pc = "send"
              /\ \A b \in Handlers : b # by => tasks'[b] = tasks[b]
    PROVE  SettleInv'
<1> DEFINE new == [state |-> state, to |-> to, passed |-> FALSE, by |-> by]
           n == Len(statuses)
<1>1. new \in Status /\ new.state = state /\ new.to = to /\ new.by = by
    BY DEF Status
<1>2. statuses' = Append(statuses, new)
    BY DEF MakeStatus
<1> HIDE DEF new
<1>3. /\ statuses' \in Seq(Status) /\ n \in Nat
      /\ DOMAIN statuses = 1..n /\ DOMAIN statuses' = 1..(n + 1)
      /\ \A k \in 1..n : statuses'[k] = statuses[k]
      /\ statuses'[n + 1] = new
    BY <1>1, <1>2 DEF SettleInv
<1>4. circuit' = circuit /\ Reachable' = Reachable
    BY DEF circuit, bff, Reachable
<1>5. \A k \in DOMAIN statuses' : statuses'[k].by # "sent" => tasks'[statuses'[k].by].pc = "send"
  <2>1. \A k \in DOMAIN statuses : /\ statuses[k].by \in Handlers \cup {"sent"}
                                   /\ statuses[k].by # "sent" => tasks[statuses[k].by].pc = "send"
    <3>1. \A k \in DOMAIN statuses : statuses[k] \in Status
        BY DEF SettleInv
    <3> QED BY <3>1 DEF Status, SettleInv
  <2>2. \A b \in Handlers : tasks[b].pc = "send" => tasks'[b].pc = "send"
      OBVIOUS
  <2>3. by # "sent" => tasks'[by].pc = "send"
      OBVIOUS
  <2> QED BY <1>1, <1>3, <2>1, <2>2, <2>3
<1>6. ASSUME ~misled', NEW i, Coming(i) \/ i \in to \/ by # "sent" PROVE Coming(i)'
  <2>1. state = circuit'
      BY <1>4, <1>6
  <2>2. CASE i \in to \/ by # "sent"
    <3>1. n + 1 \in DOMAIN statuses'
          /\ (i \in statuses'[n + 1].to \/ statuses'[n + 1].by # "sent")
        BY <1>1, <1>3, <2>2
    <3>2. \A j \in DOMAIN statuses' : j >= n + 1 => statuses'[j].state = circuit'
        BY <1>1, <1>3, <2>1
    <3> QED BY <3>1, <3>2 DEF Coming
  <2>3. CASE i \in greeting /\ by = "sent"
    <3>1. i \in greeting' \/ i \in to
        BY <2>3
    <3> QED BY <2>2, <3>1 DEF Coming
  <2>4. CASE i \notin greeting /\ Coming(i)
    <3>1. PICK k \in DOMAIN statuses :
              /\ i \in statuses[k].to \/ statuses[k].by # "sent"
              /\ \A j \in DOMAIN statuses : j >= k => statuses[j].state = circuit
        BY <2>4 DEF Coming
    <3>2. k \in DOMAIN statuses' /\ (i \in statuses'[k].to \/ statuses'[k].by # "sent")
        BY <1>3, <3>1
    <3>3. \A j \in DOMAIN statuses' : j >= k => statuses'[j].state = circuit'
        BY <1>1, <1>3, <1>4, <2>1, <3>1
    <3> QED BY <3>2, <3>3 DEF Coming
  <2> QED BY <1>6, <2>2, <2>3, <2>4
<1>7. ASSUME ~misled', Arrived PROVE Arrived'
  <2>1. state = circuit'
      BY <1>4, <1>7
  <2> QED BY <1>1, <1>3, <1>4, <1>7, <2>1 DEF Arrived, shown
<1>8. ASSUME ~misled', ~Unannounced', NEW i \in Reachable' PROVE Coming(i)' \/ Arrived'
  <2>1. CASE by # "sent"
      BY <1>6, <1>8, <2>1
  <2>2. CASE by = "sent"
    <3>1. ~misled /\ ~Unannounced
        BY <1>8, <2>2 DEF Unannounced
    <3>2. Coming(i) \/ Arrived
        BY <1>4, <1>8, <3>1 DEF SettleInv
    <3> QED BY <1>6, <1>7, <1>8, <3>2
  <2> QED BY <2>1, <2>2
<1> QED BY <1>3, <1>5, <1>8 DEF SettleInv

\* The statuses change by a map that keeps their states, forgets no history and
\* drops what nobody waits for.
Recast(cut) ==
    /\ cut \in Seq(Status) /\ DOMAIN cut = DOMAIN statuses
    /\ \A k \in DOMAIN statuses : cut[k].state = statuses[k].state
    /\ statuses' = Awaited(cut)

\* What a recast keeps: well-formed statuses, those still to be sent with their
\* handlers, and what is coming for a link it leaves on their way.
LEMMA RecastKeeps ==
    ASSUME SettleInv, NEW cut, Recast(cut), circuit' = circuit,
           \A k \in DOMAIN cut : cut[k].by # "sent" => tasks'[cut[k].by].pc = "send"
    PROVE  /\ statuses' \in Seq(Status)
           /\ \A k \in DOMAIN statuses' :
                 statuses'[k].by # "sent" => tasks'[statuses'[k].by].pc = "send"
           /\ \A i, k : /\ k \in DOMAIN cut
                        /\ i \in cut[k].to \/ cut[k].by # "sent"
                        /\ \A j \in DOMAIN statuses : j >= k => statuses[j].state = circuit
                        => Coming(i)'
           /\ (\A l \in DOMAIN cut : cut[l].passed \/ cut[l].state = circuit)
                 => \A j \in DOMAIN statuses' : statuses'[j].passed \/ statuses'[j].state = circuit'
<1>1. /\ statuses' \in Seq(Status)
      /\ \A j \in DOMAIN statuses' : \E k \in DOMAIN cut : statuses'[j] = cut[k]
      /\ \A k \in DOMAIN cut : Wanted(cut[k]) =>
            \E j \in DOMAIN statuses' :
               /\ statuses'[j] = cut[k]
               /\ \A jj \in DOMAIN statuses' : jj >= j =>
                     \E kk \in DOMAIN cut : kk >= k /\ statuses'[jj] = cut[kk]
    BY AwaitedKeeps DEF Recast
<1>2. ASSUME NEW i, NEW k \in DOMAIN cut, i \in cut[k].to \/ cut[k].by # "sent",
             \A j \in DOMAIN statuses : j >= k => statuses[j].state = circuit
      PROVE  Coming(i)'
  <2>1. Wanted(cut[k])
      BY <1>2 DEF Wanted
  <2>2. PICK l \in DOMAIN statuses' :
               /\ statuses'[l] = cut[k]
               /\ \A ll \in DOMAIN statuses' : ll >= l =>
                     \E kk \in DOMAIN cut : kk >= k /\ statuses'[ll] = cut[kk]
      BY <1>1, <2>1
  <2>3. \A ll \in DOMAIN statuses' : ll >= l => statuses'[ll].state = circuit'
      BY <1>2, <2>2 DEF Recast
  <2> QED BY <1>2, <2>2, <2>3 DEF Coming
<1> QED BY <1>1, <1>2

\* A handler sends its status to the links that are reachable.
LEMMA SettleSent ==
    ASSUME SettleInv, NEW a \in Handlers, SendTo(a, Reachable), Reachable \subseteq Ids,
           UNCHANGED <<misled, shown, bff, greeting, clients, sockets>>,
           \A b \in Handlers : b # a => tasks'[b] = tasks[b],
           Unannounced => Unannounced'
    PROVE  SettleInv'
<1> DEFINE cut == [k \in DOMAIN statuses |->
                     IF statuses[k].by = a THEN [statuses[k] EXCEPT !.to = Reachable, !.by = "sent"]
                     ELSE statuses[k]]
<1>1. /\ statuses \in Seq(Status) /\ DOMAIN statuses = 1..Len(statuses)
      /\ Len(statuses) \in Nat /\ a # "sent"
    BY Actions DEF SettleInv
<1>2. \A k \in DOMAIN statuses :
         /\ cut[k] \in Status
         /\ cut[k].state = statuses[k].state
         /\ cut[k].passed = statuses[k].passed
         /\ cut[k].by # "sent" => cut[k].by = statuses[k].by /\ cut[k].by # a
         /\ statuses[k].by # "sent" => statuses[k].by \in Handlers
         /\ \A i \in Reachable : i \in statuses[k].to \/ statuses[k].by # "sent"
                                    => i \in cut[k].to \/ cut[k].by # "sent"
  <2> TAKE k \in DOMAIN statuses
  <2> DEFINE st == statuses[k]
  <2>1. /\ st \in Status
        /\ cut[k] = IF st.by = a THEN [st EXCEPT !.to = Reachable, !.by = "sent"] ELSE st
      BY <1>1
  <2> HIDE DEF st, cut
  <2>2. CASE st.by = a
    <3>1. cut[k] = [st EXCEPT !.to = Reachable, !.by = "sent"]
        BY <2>1, <2>2
    <3>2. cut[k] = [state |-> st.state, to |-> Reachable, passed |-> st.passed, by |-> "sent"]
        BY <2>1, <3>1 DEF Status
    <3> QED BY <2>1, <2>2, <3>2 DEF Status, st
  <2>3. CASE st.by # a
      BY <2>1, <2>3 DEF Status, st
  <2> QED BY <2>2, <2>3
<1>3. Recast(cut)
  <2>1. cut \in [1..Len(statuses) -> Status] /\ DOMAIN cut = DOMAIN statuses
      BY <1>1, <1>2
  <2>2. statuses' = Awaited(cut)
      BY DEF SendTo
  <2> HIDE DEF cut
  <2> QED BY <1>1, <1>2, <2>1, <2>2 DEF Recast
<1> HIDE DEF cut
<1>4. circuit' = circuit /\ Reachable' = Reachable
    BY DEF circuit, bff, Reachable
<1>5. \A k \in DOMAIN cut : cut[k].by # "sent" => tasks'[cut[k].by].pc = "send"
    BY <1>2, <1>3 DEF Recast, SettleInv
<1>6. /\ statuses' \in Seq(Status)
      /\ \A k \in DOMAIN statuses' :
            statuses'[k].by # "sent" => tasks'[statuses'[k].by].pc = "send"
      /\ \A i, k : /\ k \in DOMAIN cut
                   /\ i \in cut[k].to \/ cut[k].by # "sent"
                   /\ \A j \in DOMAIN statuses : j >= k => statuses[j].state = circuit
                   => Coming(i)'
      /\ (\A l \in DOMAIN cut : cut[l].passed \/ cut[l].state = circuit)
            => \A j \in DOMAIN statuses' : statuses'[j].passed \/ statuses'[j].state = circuit'
    BY <1>3, <1>4, <1>5, RecastKeeps
<1>7. ASSUME NEW i \in Reachable, Coming(i) PROVE Coming(i)'
  <2>1. CASE i \in greeting
      BY <2>1 DEF Coming
  <2>2. CASE i \notin greeting
    <3>1. PICK k \in DOMAIN statuses :
              /\ i \in statuses[k].to \/ statuses[k].by # "sent"
              /\ \A j \in DOMAIN statuses : j >= k => statuses[j].state = circuit
        BY <1>7, <2>2 DEF Coming
    <3>2. k \in DOMAIN cut /\ (i \in cut[k].to \/ cut[k].by # "sent")
        BY <1>2, <1>3, <3>1 DEF Recast
    <3> QED BY <1>6, <3>1, <3>2
  <2> QED BY <2>1, <2>2
<1>8. Arrived => Arrived'
    BY <1>2, <1>3, <1>4, <1>6 DEF Arrived, shown, Recast
<1> QED BY <1>4, <1>6, <1>7, <1>8 DEF SettleInv

\* The link goes, with what was on its way to it.
LEMMA SettleLost ==
    ASSUME SettleInv, LinkInv, NEW i \in Ids, LinkLost(i)
    PROVE  SettleInv'
<1> DEFINE cut == [k \in DOMAIN statuses |-> [statuses[k] EXCEPT !.to = @ \ {i}]]
<1>1. /\ statuses \in Seq(Status) /\ DOMAIN statuses = 1..Len(statuses)
      /\ Len(statuses) \in Nat
    BY DEF SettleInv
<1>2. \A k \in DOMAIN statuses : /\ cut[k] \in Status
                                 /\ cut[k].to = statuses[k].to \ {i}
                                 /\ cut[k].state = statuses[k].state
                                 /\ cut[k].passed = statuses[k].passed
                                 /\ cut[k].by = statuses[k].by
  <2> TAKE k \in DOMAIN statuses
  <2> DEFINE st == statuses[k]
  <2>1. st \in Status /\ cut[k] = [st EXCEPT !.to = st.to \ {i}]
      BY <1>1
  <2> HIDE DEF st, cut
  <2>2. cut[k] = [state |-> st.state, to |-> st.to \ {i}, passed |-> st.passed, by |-> st.by]
      BY <2>1 DEF Status
  <2> QED BY <2>1, <2>2 DEF Status, st
<1>3. Recast(cut)
  <2>1. cut \in [1..Len(statuses) -> Status] /\ DOMAIN cut = DOMAIN statuses
      BY <1>1, <1>2
  <2>2. statuses' = Awaited(cut)
      BY DEF LinkLost
  <2> HIDE DEF cut
  <2> QED BY <1>1, <1>2, <2>1, <2>2 DEF Recast
<1> HIDE DEF cut
<1>4. /\ circuit' = circuit /\ UNCHANGED <<shown, tasks, clients, misled>>
      /\ Unannounced' = Unannounced /\ greeting' = greeting \ {i}
    BY DEF LinkLost, circuit, bff, Unannounced
<1>5. Reachable' \subseteq Reachable \ {i}
    BY DEF LinkLost, Lost, onclose, LinkInv, LinkTypeOK, Reachable, SettleInv
<1>6. \A k \in DOMAIN cut : cut[k].by # "sent" => tasks'[cut[k].by].pc = "send"
    BY <1>2, <1>3, <1>4 DEF Recast, SettleInv
<1>7. /\ statuses' \in Seq(Status)
      /\ \A k \in DOMAIN statuses' :
            statuses'[k].by # "sent" => tasks'[statuses'[k].by].pc = "send"
      /\ \A j, k : /\ k \in DOMAIN cut
                   /\ j \in cut[k].to \/ cut[k].by # "sent"
                   /\ \A l \in DOMAIN statuses : l >= k => statuses[l].state = circuit
                   => Coming(j)'
      /\ (\A l \in DOMAIN cut : cut[l].passed \/ cut[l].state = circuit)
            => \A j \in DOMAIN statuses' : statuses'[j].passed \/ statuses'[j].state = circuit'
    BY <1>3, <1>4, <1>6, RecastKeeps
<1>8. ASSUME NEW j \in Reachable \ {i}, Coming(j) PROVE Coming(j)'
  <2>1. CASE j \in greeting
      BY <1>4, <1>8, <2>1 DEF Coming
  <2>2. CASE j \notin greeting
    <3>1. PICK k \in DOMAIN statuses :
              /\ j \in statuses[k].to \/ statuses[k].by # "sent"
              /\ \A l \in DOMAIN statuses : l >= k => statuses[l].state = circuit
        BY <1>8, <2>2 DEF Coming
    <3>2. k \in DOMAIN cut /\ (j \in cut[k].to \/ cut[k].by # "sent")
        BY <1>2, <1>3, <1>8, <3>1 DEF Recast
    <3> QED BY <1>7, <3>1, <3>2
  <2> QED BY <2>1, <2>2
<1>9. Arrived => Arrived'
    BY <1>2, <1>3, <1>4, <1>7 DEF Arrived, shown, Recast
<1> QED BY <1>4, <1>5, <1>7, <1>8, <1>9 DEF SettleInv, shown

\* A status arrives.
LEMMA SettleDeliver ==
    ASSUME SettleInv, NEW k \in DOMAIN statuses, NEW i \in Ids, DeliverStatus(k, i)
    PROVE  SettleInv'
<1> DEFINE cut == [j \in DOMAIN statuses |->
                        IF j < k THEN [statuses[j] EXCEPT !.passed = TRUE]
                        ELSE IF j = k THEN [statuses[j] EXCEPT !.to = @ \ {i}]
                        ELSE statuses[j]]
<1>1. /\ statuses \in Seq(Status) /\ DOMAIN statuses = 1..Len(statuses)
      /\ Len(statuses) \in Nat
    BY DEF SettleInv
<1>2. \A j \in DOMAIN statuses : /\ cut[j] \in Status
                                 /\ cut[j].state = statuses[j].state
                                 /\ cut[j].by = statuses[j].by
                                 /\ j < k => cut[j].passed
                                 /\ j > k => cut[j] = statuses[j]
                                 /\ statuses[j].passed => cut[j].passed
  <2> TAKE j \in DOMAIN statuses
  <2> DEFINE st == statuses[j]
  <2>1. /\ st \in Status
        /\ cut[j] = IF j < k THEN [st EXCEPT !.passed = TRUE]
                    ELSE IF j = k THEN [st EXCEPT !.to = st.to \ {i}] ELSE st
      BY <1>1
  <2>2. \/ j < k /\ cut[j] = [st EXCEPT !.passed = TRUE]
        \/ j = k /\ cut[j] = [st EXCEPT !.to = st.to \ {i}]
        \/ j > k /\ cut[j] = st
      BY <1>1, <2>1
  <2> HIDE DEF st, cut
  <2>3. CASE j < k /\ cut[j] = [st EXCEPT !.passed = TRUE]
    <3>0. /\ st.state \in States /\ st.to \in SUBSET Ids /\ st.by \in Handlers \cup {"sent"}
          /\ cut[j] = [state |-> st.state, to |-> st.to, passed |-> TRUE, by |-> st.by]
        BY <2>1, <2>3 DEF Status
    <3>1. cut[j] \in Status /\ cut[j].state = st.state /\ cut[j].by = st.by /\ ~(j > k)
      <4>1. cut[j] \in Status
        <5>1. \A q \in States, to \in SUBSET Ids, p \in BOOLEAN, by \in Handlers \cup {"sent"} :
                  [state |-> q, to |-> to, passed |-> p, by |-> by] \in Status
            BY DEF Status
        <5> QED BY <3>0, <5>1, Zenon
      <4> QED BY <1>1, <2>3, <3>0, <4>1
    <3>2. cut[j].passed
      <4>1. cut[j].passed = TRUE
          BY <2>1, <2>3 DEF Status
      <4> QED BY <4>1, Zenon
    <3> QED BY <3>1, <3>2 DEF st
  <2>4. CASE j = k /\ cut[j] = [st EXCEPT !.to = st.to \ {i}]
      BY <1>1, <2>1, <2>4 DEF Status, st
  <2>5. CASE j > k /\ cut[j] = st
      BY <1>1, <2>1, <2>5 DEF Status, st
  <2> QED BY <2>2, <2>3, <2>4, <2>5
<1>3. Recast(cut)
  <2>1. cut \in [1..Len(statuses) -> Status] /\ DOMAIN cut = DOMAIN statuses
      BY <1>1, <1>2
  <2>2. statuses' = Awaited(cut)
      BY DEF DeliverStatus
  <2> HIDE DEF cut
  <2> QED BY <1>1, <1>2, <2>1, <2>2 DEF Recast
<1> HIDE DEF cut
<1>4. /\ circuit' = circuit /\ UNCHANGED <<tasks, clients, sockets, greeting, misled>>
      /\ Unannounced' = Unannounced /\ Reachable' = Reachable
    BY DEF DeliverStatus, circuit, bff, Unannounced, onmessage, Reachable
<1>5. circuitState' = statuses[k].state /\ overtaken' = statuses[k].passed
    BY DEF DeliverStatus, ApplyStatus
<1>6. \A j \in DOMAIN cut : cut[j].by # "sent" => tasks'[cut[j].by].pc = "send"
    BY <1>2, <1>3, <1>4 DEF Recast, SettleInv
<1>7. /\ statuses' \in Seq(Status)
      /\ \A j \in DOMAIN statuses' :
            statuses'[j].by # "sent" => tasks'[statuses'[j].by].pc = "send"
      /\ \A r, c : /\ c \in DOMAIN cut
                   /\ r \in cut[c].to \/ cut[c].by # "sent"
                   /\ \A l \in DOMAIN statuses : l >= c => statuses[l].state = circuit
                   => Coming(r)'
      /\ (\A l \in DOMAIN cut : cut[l].passed \/ cut[l].state = circuit)
            => \A j \in DOMAIN statuses' : statuses'[j].passed \/ statuses'[j].state = circuit'
    BY <1>3, <1>4, <1>6, RecastKeeps
<1>8. ASSUME ~misled', ~Unannounced', NEW r \in Reachable'
      PROVE  Coming(r)' \/ Arrived'
  <2>1. Coming(r) \/ Arrived
      BY <1>4, <1>8 DEF SettleInv
  <2>2. ASSUME statuses[k].passed \/ statuses[k].state = circuit,
               \A j \in DOMAIN statuses : j >= k =>
                  statuses[j].passed \/ statuses[j].state = circuit
        PROVE  Arrived'
    <3>1. \A l \in DOMAIN cut : cut[l].passed \/ cut[l].state = circuit
      <4> SUFFICES ASSUME NEW l \in DOMAIN cut
                   PROVE  cut[l].passed \/ cut[l].state = circuit
          OBVIOUS
      <4>1. DOMAIN cut = DOMAIN statuses /\ (l < k \/ l >= k)
          BY <1>1, <1>3 DEF Recast
      <4> QED BY <1>2, <2>2, <4>1
    <3> QED BY <1>4, <1>5, <1>7, <2>2, <3>1 DEF Arrived
  <2>3. CASE Arrived
      BY <2>2, <2>3 DEF Arrived
  <2>4. CASE r \in greeting
      BY <1>4, <2>4 DEF Coming
  <2>5. CASE Coming(r) /\ r \notin greeting
    <3>1. PICK c \in DOMAIN statuses :
              /\ r \in statuses[c].to \/ statuses[c].by # "sent"
              /\ \A j \in DOMAIN statuses : j >= c => statuses[j].state = circuit
        BY <2>5 DEF Coming
    <3>2. CASE k >= c
      <4>1. \A j \in DOMAIN statuses : j >= k => statuses[j].state = circuit
          BY <1>1, <3>1, <3>2
      <4>2. k >= k
          BY <1>1
      <4> QED BY <2>2, <4>1, <4>2
    <3>3. CASE k < c
      <4>1. cut[c] = statuses[c] /\ c \in DOMAIN cut
          BY <1>2, <1>3, <3>1, <3>3 DEF Recast
      <4> QED BY <1>7, <3>1, <4>1
    <3> QED BY <1>1, <3>2, <3>3
  <2> QED BY <2>1, <2>3, <2>4, <2>5
<1> QED BY <1>4, <1>7, <1>8 DEF SettleInv

\* Every step of terminal and BFF keeps the invariant behind DisplaySettles.
LEMMA SettleInvStep == SettleInv /\ HaltInv /\ LinkInv /\ [CircuitNext]_circuitVars => SettleInv'
<1> SUFFICES ASSUME SettleInv, HaltInv, LinkInv, [CircuitNext]_circuitVars PROVE SettleInv'
    OBVIOUS
<1>0. /\ clients \subseteq Ids /\ Reachable \subseteq Ids /\ misled \in BOOLEAN
      /\ tasks \in [Handlers -> [pc : Steps, link : 0..MaxSockets]]
      /\ DOMAIN Target \subseteq Handlers
      /\ statuses \in Seq(Status)
    BY Actions DEF HaltInv, SettleInv, Reachable
<1>1. ASSUME UNCHANGED <<sent, shown, bff, tasks, greeting>>, clients' \subseteq clients,
             \A i \in Ids : sockets'[i] = "open" => sockets[i] = "open"
      PROVE  SettleInv'
    BY <1>1, SettleQuiet DEF Unannounced, bff, sent
<1>b. \A k \in DOMAIN statuses : /\ statuses[k].by \in Handlers \cup {"sent"}
                                 /\ statuses[k].by # "sent" => tasks[statuses[k].by].pc = "send"
  <2>1. \A k \in DOMAIN statuses : statuses[k] \in Status
      BY <1>0
  <2> QED BY <2>1 DEF Status, SettleInv
<1>2. ASSUME UNCHANGED <<sent, clients, linkVars, shown>>, Unannounced',
             NEW a \in Handlers, tasks[a].pc # "send",
             \A b \in Handlers : b # a => tasks'[b] = tasks[b]
      PROVE  SettleInv'
  <2>1. \A k \in DOMAIN statuses : statuses[k].by # "sent" => tasks'[statuses[k].by].pc = "send"
      BY <1>b, <1>2
  <2> QED BY <1>2, <2>1 DEF SettleInv, sent
<1>3. ASSUME NEW a \in Handlers, tasks[a].pc \notin {"redis", "broadcast", "send"},
             \A b \in Handlers : b # a => tasks'[b] = tasks[b],
             UNCHANGED <<sent, clients, linkVars, shown, currentState, redis, greeting>>
      PROVE  SettleInv'
  <2>1. Unannounced => Unannounced'
      BY <1>0, <1>3 DEF Unannounced
  <2> QED BY <1>3, <2>1, SettleQuiet DEF linkVars, sent
<1>c. ASSUME NEW a \in Handlers, NEW pc \in Steps, Go(a, pc) \/ Done(a)
      PROVE  /\ \A b \in Handlers : b # a => tasks'[b] = tasks[b]
             /\ Go(a, pc) => tasks'[a].pc = pc
    BY <1>0, <1>c, TaskMoves
<1>d. {"validate", "local", "redis", "broadcast", "send", "ems", "idle"} \subseteq Steps
    BY DEF Steps
<1>4. ASSUME NEW a \in {"pause", "panic"}, sendOOBAction(a) PROVE SettleInv'
  <2>1. /\ tasks[a].pc = "idle" /\ tasks' = [tasks EXCEPT ![a] = [pc |-> "sent", link |-> wsRef]]
        /\ UNCHANGED <<sent, clients, linkVars, shown, currentState, redis, greeting>>
        /\ a \in Handlers
      BY <1>4, Actions DEF sendOOBAction, Free, Idle, bff
  <2> QED BY <1>0, <1>3, <2>1
<1>5. CASE requestResume \/ postHalt \/ Validate \/ HealthCheck
  <2>1. /\ UNCHANGED <<sent, clients, linkVars, shown, currentState, redis, greeting>>
        /\ \E a \in {"resume", "halt", "health"}, pc \in {"validate", "local", "broadcast"} :
              (Go(a, pc) \/ Done(a)) /\ tasks[a].pc \in {"idle", "validate"}
      BY <1>5 DEF requestResume, postHalt, Validate, HealthCheck, Free, Idle, bff
  <2>2. PICK a \in {"resume", "halt", "health"}, pc \in {"validate", "local", "broadcast"} :
              (Go(a, pc) \/ Done(a)) /\ tasks[a].pc \in {"idle", "validate"}
      BY <2>1
  <2> QED BY <1>3, <1>c, <1>d, <2>1, <2>2, Actions
<1>6. ASSUME NEW a \in DOMAIN Target, UpdateLocal(a), tasks[a].pc # "send",
             UNCHANGED <<sent, clients, linkVars, shown>>
      PROVE  SettleInv'
  <2>1. Go(a, "redis")
      BY <1>6 DEF UpdateLocal
  <2>2. Unannounced'
      BY <1>0, <1>c, <1>d, <2>1 DEF Unannounced
  <2> QED BY <1>0, <1>2, <1>6, <1>c, <1>d, <2>1, <2>2
<1>7. ASSUME NEW a \in DOMAIN Target, Receive(a) PROVE SettleInv'
  <2>1. CASE UpdateLocal(a)
      BY <1>6, <1>7, <2>1 DEF Receive
  <2>2. CASE Done(a) /\ UNCHANGED bff
      BY <1>0, <1>3, <1>7, <1>c, <1>d, <2>2 DEF Receive, bff
  <2> QED BY <1>7, <2>1, <2>2 DEF Receive
<1>8. ASSUME NEW a \in {"resume", "halt"}, ApiLocal(a) PROVE SettleInv'
    BY <1>6, <1>8, Actions DEF ApiLocal
<1>9. ASSUME NEW a \in DOMAIN Target, UpdateRedis(a) PROVE SettleInv'
  <2>1. Go(a, "broadcast") /\ tasks[a].pc = "redis"
        /\ UNCHANGED <<sent, clients, linkVars, shown>>
      BY <1>9 DEF UpdateRedis
  <2>2. Unannounced'
      BY <1>0, <1>c, <1>d, <2>1 DEF Unannounced
  <2> QED BY <1>0, <1>2, <1>c, <1>d, <2>1, <2>2
<1>10. ASSUME NEW a \in Handlers, broadcastStatus(a) PROVE SettleInv'
  <2>1. PICK state \in States : MakeStatus(state, {}, a) /\ misled' = (state # circuit)
      BY <1>10 DEF broadcastStatus
  <2>2. /\ Go(a, "send") /\ a # "sent"
        /\ UNCHANGED <<shown, bff, clients, sockets>>
      BY <1>10, Actions DEF broadcastStatus, linkVars
  <2>3. tasks'[a].pc = "send" /\ \A b \in Handlers : b # a => tasks'[b] = tasks[b]
      BY <1>c, <1>d, <2>2
  <2>4. misled' \in BOOLEAN /\ (~misled' => state = circuit) /\ {} \in SUBSET Ids
      BY <2>1
  <2> QED BY <2>1, <2>2, <2>3, <2>4, SettleMade
<1>11. ASSUME NEW a \in Handlers, broadcast(a) PROVE SettleInv'
  <2>1. /\ SendTo(a, Reachable) /\ tasks[a].pc = "send"
        /\ UNCHANGED <<misled, shown, bff, greeting, clients, sockets>>
        /\ Go(a, "ems") \/ Done(a)
      BY <1>11 DEF broadcast, linkVars
  <2>2. \A b \in Handlers : b # a => tasks'[b] = tasks[b]
      BY <1>c, <1>d, <2>1
  <2>3. Unannounced => Unannounced'
      BY <1>0, <2>1, <2>2 DEF Unannounced
  <2> QED BY <1>0, <2>1, <2>2, <2>3, SettleSent
<1>12. ASSUME NEW a \in DOMAIN Target, callEMSForcePause(a) PROVE SettleInv'
  <2>1. /\ tasks[a].pc = "ems" /\ Done(a)
        /\ UNCHANGED <<sent, clients, linkVars, shown, currentState, redis, greeting>>
      BY <1>12 DEF callEMSForcePause
  <2> QED BY <1>0, <1>3, <1>c, <1>d, <2>1
<1>13. CASE RestartEMS
  <2>1. /\ UNCHANGED <<sent, clients, linkVars, shown, currentState, redis, greeting, tasks>>
      BY <1>13 DEF RestartEMS
  <2> QED BY <2>1, SettleQuiet DEF sent, linkVars, Unannounced
<1>14. ASSUME NEW i \in Ids, Accept(i) PROVE SettleInv'
  <2>1. /\ Reachable' \subseteq Reachable \cup {i} /\ clients' \subseteq Ids
        /\ greeting' = greeting \cup {i} /\ circuit' = circuit /\ Unannounced' = Unannounced
        /\ UNCHANGED <<sent, shown, tasks>>
      BY <1>0, <1>14 DEF Accept, onopen, Reachable, LinkInv, LinkTypeOK, circuit, bff, Unannounced
  <2>2. /\ \A r : Coming(r) \/ r = i => Coming(r)'
        /\ Arrived => Arrived'
      BY <2>1 DEF Coming, Arrived, sent, shown
  <2> QED BY <2>1, <2>2 DEF SettleInv, sent
<1>15. ASSUME NEW i \in Ids, Greet(i) PROVE SettleInv'
  <2>1. PICK state \in States : MakeStatus(state, {i}, "sent") /\ misled' = (misled \/ state # circuit)
      BY <1>15 DEF Greet
  <2>2. /\ greeting \subseteq greeting' \cup {i} /\ UNCHANGED tasks
        /\ UNCHANGED <<shown, bff, clients, sockets>>
      BY <1>15 DEF Greet, linkVars
  <2>3. misled' \in BOOLEAN /\ (misled => misled') /\ (~misled' => state = circuit)
      BY <1>0, <2>1
  <2> QED BY <2>1, <2>2, <2>3, SettleMade
<1>16. ASSUME NEW i \in Ids, unregisterClient(i) PROVE SettleInv'
    BY <1>1, <1>16 DEF unregisterClient, linkVars
<1>17. ASSUME NEW A, Quietly(A), \A i \in Ids : sockets'[i] = "open" => sockets[i] = "open"
       PROVE  SettleInv'
    BY <1>1, <1>17 DEF Quietly
<1>18. ASSUME Mount \/ MountStrict \/ handleOnline \/ handleOffline
              \/ \E i \in Ids : Closed(i) \/ TimerFires(i)
       PROVE  \A i \in Ids : sockets'[i] = "open" => sockets[i] = "open"
    BY <1>18 DEF Mount, MountStrict, handleOnline, handleOffline, Closed, TimerFires,
                 connectWS, onclose, LinkInv, LinkTypeOK
<1>19. CASE Quietly(Mount \/ MountStrict \/ handleOnline \/ (Budget /\ handleOffline))
    BY <1>17, <1>18, <1>19 DEF Quietly
<1>20. ASSUME NEW i \in Ids, Quietly(Closed(i) \/ TimerFires(i)) PROVE SettleInv'
    BY <1>17, <1>18, <1>20 DEF Quietly
<1>21. CASE UNCHANGED circuitVars
    BY <1>1, <1>21 DEF circuitVars, linkVars
<1> QED BY <1>4, <1>5, <1>7, <1>8, <1>9, <1>10, <1>11, <1>12, <1>13, <1>14, <1>15, <1>16,
           <1>19, <1>20, <1>21, SettleLost, SettleDeliver DEF CircuitNext, Handler, Announcer

\* For any number of sockets, handlers and failures, the terminal shows the state of
\* the BFF once every status has arrived and no handler runs, unless the status it
\* applied last had been overtaken or one was made while Redis failed
\* (broadcastStatus, getCircuitState, onmessage).
THEOREM DisplaySettlesTheorem == CircuitSpec => []DisplaySettles
<1>1. CircuitInit => LinkInv /\ HaltInv /\ SettleInv
  <2>1. CircuitInit => LinkInv /\ HaltInv
      BY CircuitInvInit
  <2>2. ASSUME CircuitInit PROVE SettleInv
    <3>1. clients = {} /\ statuses = <<>> /\ misled = FALSE
        BY <2>2 DEF CircuitInit
    <3>2. Reachable = {}
        BY <3>1 DEF Reachable
    <3>3. statuses \in Seq(Status) /\ misled \in BOOLEAN
      <4>1. <<>> \in Seq(Status)
          OBVIOUS
      <4>2. statuses = <<>> /\ misled = FALSE
          BY <3>1
      <4> QED BY ONLY <4>1, <4>2, Zenon
    <3>4. DOMAIN statuses = {}
        BY <3>1
    <3> QED BY <3>1, <3>2, <3>3, <3>4 DEF SettleInv
  <2> QED BY <2>1, <2>2
<1>2. LinkInv /\ HaltInv /\ SettleInv /\ [CircuitNext]_circuitVars => LinkInv' /\ HaltInv' /\ SettleInv'
    BY LinkInvStep, CircuitStepIsLinkStep, HaltInvStep, SettleInvStep
<1>3. SettleInv => DisplaySettles
  <2> SUFFICES ASSUME SettleInv, AllIdle, statuses = <<>>, greeting = {}, ~overtaken, ~misled,
                      Reachable # {}
               PROVE  circuitState = circuit
      BY DEF DisplaySettles
  <2>1. ~Unannounced
      BY Actions DEF Unannounced, AllIdle, Idle
  <2>2. \A i : ~Coming(i)
      BY DEF Coming
  <2> QED BY <2>1, <2>2 DEF SettleInv, Arrived
<1> QED BY <1>1, <1>2, <1>3, PTL DEF CircuitSpec
=============================================================================
