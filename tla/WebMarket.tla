----------------------------- MODULE WebMarket ------------------------------
(***************************************************************************)
(* Which bars the web terminal asks for (web/src/App.tsx): the selection   *)
(* of symbol, granularity, interval and mode, the watchlist, the requests  *)
(* in flight and, per key of the store, which request its candles came     *)
(* from.  The contents of the bars are the subject of WebBars.             *)
(*                                                                         *)
(* A handler uses the values of the render it was created in.  Such a      *)
(* closure is a record of those values; requests, the online listener and  *)
(* the sockets carry the closure they were created with.  A step is one    *)
(* callback with the render that follows and the effects of that render.   *)
(*                                                                         *)
(* The BFF reads, changes and writes the list of active tickers in Redis   *)
(* in separate steps.                                                      *)
(***************************************************************************)
EXTENDS Integers, Sequences, FiniteSets, SequencesExt

CONSTANTS Tickers,
          Granularities,      \* of the chart; "1d" and "1y" are among them
          Intervals,          \* "30m", "1d" and those that are recommended are among them
          recMap,             \* recommended interval of a granularity
          Defaults,           \* the active tickers that Redis starts with
          NoTicker,           \* selectedTicker = ""
          MaxRequests,        \* bound: requests for history
          MaxOps,             \* bound: operations of the user
          MaxResyncs          \* bound: reconnections

ASSUME WebMarketAssumption ==
    /\ NoTicker \notin Tickers
    /\ {"1d", "1y"} \subseteq Granularities
    /\ {"30m", "1d"} \subseteq Intervals /\ "none" \notin Intervals
    /\ recMap \in [Granularities -> Intervals]
    /\ Defaults \in Seq(Tickers)
    /\ MaxRequests \in Nat /\ MaxOps \in Nat /\ MaxResyncs \in Nat

VARIABLES selectedTicker, selectedGranularity, selectedInterval, forceMockMode,
          subscriptions,
          store,          \* per key: no entry, or the request its candles come from
          requests,       \* requests for history in flight
          calls,          \* other calls in flight, with their closures
          listener,       \* closure of the online listener
          handlers,         \* closures of the WebSocket handlers
          activeTickers,  \* mdg:active_tickers in Redis
          issued, ops, resyncs,
          newest,         \* history: per key, the last request made for it, and whether
                          \* it asked for what was selected then
          answered,       \* history: the request that wrote the key last
          missed          \* history: keys whose last request to end failed or brought no bars

selection == <<selectedTicker, selectedGranularity, selectedInterval, forceMockMode>>
vars == <<selection, subscriptions, store, requests, calls, listener, handlers,
          activeTickers, issued, ops, resyncs, newest, answered, missed>>

Keys == Tickers \X Granularities
NoEntry == [interval |-> "none", mock |-> FALSE, empty |-> TRUE]
Contents == [interval : Intervals, mock : BOOLEAN, empty : BOOLEAN]

HasEntry(k) == store[k] # NoEntry

\* The symbols of a list that are in `wanted', in order.
Kept(list, wanted) ==
    LET kept[i \in 0..Len(list)] ==
            IF i = 0 THEN <<>>
            ELSE IF list[i] \in wanted THEN Append(kept[i - 1], list[i]) ELSE kept[i - 1]
    IN  kept[Len(list)]

\* What a callback sees of the render it was created in; `years' are the
\* symbols whose year was loaded.
Closure(sel, gran, intv, mock, subs, years) ==
    [ticker |-> sel, gran |-> gran, interval |-> intv, mock |-> mock, subs |-> subs,
     years |-> years]
current == Closure(selectedTicker, selectedGranularity, selectedInterval, forceMockMode,
                   subscriptions, {t \in Tickers : HasEntry(<<t, "1y">>)})

\* A request of fetchHistoricalData made in closure c: `rest' is what resyncData
\* fetches after it; `only' marks the prefetch that brings candles alone.
Request(n, c, ticker, gran, interval, rest, only) ==
    [n |-> n, key |-> <<ticker, gran>>, interval |-> interval, mock |-> c.mock,
     years |-> c.years, rest |-> rest, only |-> only]

\* The newest request per key once those of `made' are, in the selection sel.
NewestOf(made, sel) ==
    [k \in Keys |->
        LET own == {r \in made : r.key = k}
            last == CHOOSE r \in own : \A q \in own : q.n <= r.n
        IN  IF own = {} THEN newest[k]
            ELSE [n |-> last.n, fits |-> <<k[1], k[2], last.interval, last.mock>> = sel]]

\* Requests up to number `last' are sent; those of `ended' have been answered.
Send(made, last, sel, ended) ==
    /\ last <= MaxRequests
    /\ issued' = last
    /\ requests' = (requests \ ended) \cup made
    /\ newest' = NewestOf(made, sel)

-----------------------------------------------------------------------------
(***************************************************************************)
(* Effects of a render                                                     *)
(***************************************************************************)

\* MUTANT: the effect does not depend on the mode.
selectionChanged_NotMode(c) ==
    <<c.ticker, c.gran, c.interval>> # <<current.ticker, current.gran, current.interval>>
\* The dependencies of the effect that fetches what is selected.
selectionChanged(c) ==
    <<c.ticker, c.gran, c.interval, c.mock>>
      # <<current.ticker, current.gran, current.interval, current.mock>>

\* The requests of that effect, in order: the chart, the day and the year.
selectionFetches(c) ==
    IF c.ticker = NoTicker \/ ~selectionChanged(c) THEN <<>>
    ELSE <<<<c.ticker, c.gran, c.interval>>>>
           \o (IF c.gran # "1d" THEN <<<<c.ticker, "1d", "30m">>>> ELSE <<>>)
           \o (IF c.gran # "1y" THEN <<<<c.ticker, "1y", "1d">>>> ELSE <<>>)

\* MUTANT: only a list that has grown is looked at.
watchlistFetches_WhenGrown(c, subsSet) ==
    LET wanted == Kept(c.subs, {t \in Tickers : ~HasEntry(<<t, "1d">>)})
    IN  IF Len(c.subs) > Len(subscriptions) \/ c.mock # forceMockMode
        THEN [i \in 1..Len(wanted) |-> <<wanted[i], "1d", "30m">>]
        ELSE <<>>
\* Those of the watchlist: the day of every symbol without an entry, when the
\* list was set (even to the same symbols) or the mode changed.
watchlistFetches(c, subsSet) ==
    LET wanted == Kept(c.subs, {t \in Tickers : ~HasEntry(<<t, "1d">>)})
    IN  IF subsSet \/ c.mock # forceMockMode
        THEN [i \in 1..Len(wanted) |-> <<wanted[i], "1d", "30m">>]
        ELSE <<>>

\* The first symbol of a list is selected if none is.
autoSelected(c) ==
    IF c.ticker = NoTicker /\ c.subs # <<>> THEN [c EXCEPT !.ticker = c.subs[1]] ELSE c

\* The render with the state of c, and its effects.  `others' are requests made
\* by the callback itself.
Render(c0, subsSet, others) ==
    LET c == autoSelected(c0)
        fetches == selectionFetches(c) \o watchlistFetches(c, subsSet)
        made == others \cup
            {Request(issued + i, c, fetches[i][1], fetches[i][2], fetches[i][3], <<>>, FALSE) :
                i \in 1..Len(fetches)}
    IN  /\ Send(made, issued + Len(fetches) + Cardinality(others),
                <<c.ticker, c.gran, c.interval, c.mock>>, {})
        /\ selectedTicker' = c.ticker
        /\ selectedGranularity' = c.gran
        /\ selectedInterval' = c.interval
        /\ forceMockMode' = c.mock
        /\ subscriptions' = c.subs
        \* the listener is made again when the symbol, the granularity, the
        \* interval or the list changes, not when the mode does
        /\ listener' = IF subsSet \/ <<c.ticker, c.gran, c.interval>>
                                        # <<listener.ticker, listener.gran, listener.interval>>
                       THEN c ELSE listener

-----------------------------------------------------------------------------
(***************************************************************************)
(* Initial state: the mount effect has called fetchMdgConfig and connectWS *)
(***************************************************************************)
atMount == Closure(NoTicker, "1d", "30m", FALSE, <<>>, {})

Init ==
    /\ selectedTicker = NoTicker
    /\ selectedGranularity = "1d"
    /\ selectedInterval = "30m"
    /\ forceMockMode = FALSE
    /\ subscriptions = <<>>
    /\ store = [k \in Keys |-> NoEntry]
    /\ requests = {}
    /\ calls = {[kind |-> "config", from |-> atMount]}
    /\ listener = atMount
    /\ handlers = {atMount}
    /\ activeTickers = Defaults
    /\ issued = 0 /\ ops = 0 /\ resyncs = 0
    /\ newest = [k \in Keys |-> [n |-> 0, fits |-> FALSE]]
    /\ answered = [k \in Keys |-> 0]
    /\ missed = {}

-----------------------------------------------------------------------------
(***************************************************************************)
(* The user                                                                *)
(***************************************************************************)
UserOp(c) ==
    /\ ops < MaxOps
    /\ ops' = ops + 1
    /\ Render(c, FALSE, {})
    /\ UNCHANGED <<store, calls, handlers, activeTickers, resyncs, answered, missed>>

selectTicker(t) == t \in ToSet(subscriptions) /\ UserOp([current EXCEPT !.ticker = t])
selectGranularity(g) == UserOp([current EXCEPT !.gran = g, !.interval = recMap[g]])
selectInterval(i) == UserOp([current EXCEPT !.interval = i])
setMode(m) == UserOp([current EXCEPT !.mock = m])

\* Calls that the user starts: a change of the watchlist, or a key or feed of
\* the vendor that is saved and followed by a fetch.
Call(call) ==
    /\ ops < MaxOps
    /\ ops' = ops + 1
    /\ calls' = calls \cup {call}
    /\ UNCHANGED <<selection, subscriptions, store, requests, listener, handlers, activeTickers,
                   issued, resyncs, newest, answered, missed>>

addSubscription(t) ==
    Call([kind |-> "add", from |-> current, ticker |-> t])
removeSubscription(t) ==
    t \in ToSet(subscriptions) /\ Call([kind |-> "remove", from |-> current, ticker |-> t])
saveApiKey == Call([kind |-> "key", from |-> current])
selectAlpacaFeed == Call([kind |-> "feed", from |-> current])

-----------------------------------------------------------------------------
(***************************************************************************)
(* The BFF's watchlist                                                     *)
(***************************************************************************)
HandleMdgSubscriptionsReads(call) ==
    /\ call.kind \in {"add", "remove"}
    /\ calls' = (calls \ {call}) \cup
                   {[kind |-> "read", of |-> call, tickers |-> activeTickers]}
    /\ UNCHANGED <<selection, subscriptions, store, requests, listener, handlers, activeTickers,
                   issued, ops, resyncs, newest, answered, missed>>

changedList(call, tickers) ==
    IF call.kind = "add"
    THEN IF call.ticker \in ToSet(tickers) THEN tickers ELSE Append(tickers, call.ticker)
    ELSE Kept(tickers, Tickers \ {call.ticker})

HandleMdgSubscriptionsWrites(call) ==
    /\ call.kind = "read"
    /\ LET list == changedList(call.of, call.tickers) IN
         /\ activeTickers' = IF list # call.tickers THEN list ELSE activeTickers
         /\ calls' = (calls \ {call}) \cup
                        {[kind |-> "changed", of |-> call.of, tickers |-> list]}
    /\ UNCHANGED <<selection, subscriptions, store, requests, listener, handlers, issued, ops,
                   resyncs, newest, answered, missed>>

-----------------------------------------------------------------------------
(***************************************************************************)
(* Answers                                                                 *)
(***************************************************************************)
Ends(call) ==
    /\ calls' = calls \ {call}
    /\ UNCHANGED <<store, handlers, activeTickers, ops, resyncs, answered, missed>>

\* fetchMdgConfig: a closure without a selection selects the first symbol,
\* whatever has been selected since.
ConfigAnswered(call) ==
    /\ call.kind = "config"
    /\ Ends(call)
    /\ Render([current EXCEPT !.subs = activeTickers,
                              !.ticker = IF activeTickers # <<>> /\ call.from.ticker = NoTicker
                                         THEN activeTickers[1] ELSE @],
              TRUE, {})

\* After the removal of the last symbol the BFF returns null: the list becomes
\* empty, and taking its first element throws before anything is selected.
SubscriptionAnswered(call) ==
    /\ call.kind = "changed"
    /\ Ends(call)
    /\ Render([current EXCEPT
                 !.subs = call.tickers,
                 !.ticker = CASE call.of.kind = "add" /\ call.of.from.ticker = NoTicker
                                   -> call.of.ticker
                              [] call.of.kind = "remove" /\ call.of.from.ticker = call.of.ticker
                                   /\ call.tickers # <<>>
                                   -> call.tickers[1]
                              [] OTHER -> @],
              TRUE, {})

\* saveApiKey leaves mock mode and selectAlpacaFeed does not; both then fetch
\* with the values of the closure, the mode included.
ControlAnswered(call) ==
    /\ call.kind \in {"key", "feed"}
    /\ Ends(call)
    /\ LET c == IF call.kind = "key" THEN [current EXCEPT !.mock = FALSE] ELSE current
           first == Len(selectionFetches(c)) + Len(watchlistFetches(c, FALSE)) + 1
       IN  Render(c, FALSE,
                  IF call.from.ticker = NoTicker THEN {}
                  ELSE {Request(issued + first, call.from, call.from.ticker, call.from.gran,
                                call.from.interval, <<>>, FALSE)})

\* A call that fails is logged and forgotten.
CallFails(call) ==
    /\ call.kind \in {"config", "add", "remove", "changed", "key", "feed"}
    /\ Ends(call)
    /\ UNCHANGED <<selection, subscriptions, requests, listener, issued, newest>>

\* What follows a request that ended: the prefetch of the year, and the next
\* symbol of resyncData.
FollowUps(r, ok) ==
    LET prefetch == IF ok /\ ~r.only /\ r.key[2] # "1y" /\ r.key[1] \notin r.years
                    THEN <<Request(issued + 1, r, r.key[1], "1y", "1d", <<>>, TRUE)>>
                    ELSE <<>>
        next == IF r.rest # <<>>
                THEN <<Request(issued + Len(prefetch) + 1, r, r.rest[1], "1d", "30m",
                               Tail(r.rest), FALSE)>>
                ELSE <<>>
    IN  prefetch \o next

HistoryEnds(r, ok) ==
    /\ LET more == FollowUps(r, ok) IN Send(ToSet(more), issued + Len(more), selection, {r})
    /\ UNCHANGED <<selection, subscriptions, calls, listener, handlers, activeTickers, ops,
                   resyncs>>

Stored(r, empty) ==
    /\ store' = [store EXCEPT ![r.key] = [interval |-> r.interval, mock |-> r.mock,
                                          empty |-> empty]]
    /\ answered' = [answered EXCEPT ![r.key] = r.n]
    /\ missed' = IF empty THEN missed \cup {r.key} ELSE missed \ {r.key}

\* The answer may have no bars, or none of the time that the granularity shows.
HistoryAnswered(r) ==
    /\ HistoryEnds(r, TRUE)
    /\ \E empty \in BOOLEAN : Stored(r, empty)

\* The key is emptied in real mode and left alone in mock mode; a prefetch
\* leaves it alone in both.
HistoryFailed(r) ==
    /\ HistoryEnds(r, FALSE)
    /\ IF r.mock \/ r.only
       THEN /\ missed' = missed \cup {r.key}
            /\ UNCHANGED <<store, answered>>
       ELSE Stored(r, TRUE)

-----------------------------------------------------------------------------
(***************************************************************************)
(* Reconnection                                                            *)
(***************************************************************************)

\* resyncData in closure c: the configuration, the selected chart of c and
\* then the day of every symbol of c, one after the other.
resyncData(c) ==
    LET first == CASE c.ticker # NoTicker ->
                        {Request(issued + 1, c, c.ticker, c.gran, c.interval, c.subs, FALSE)}
                   [] c.ticker = NoTicker /\ c.subs # <<>> ->
                        {Request(issued + 1, c, c.subs[1], "1d", "30m", Tail(c.subs), FALSE)}
                   [] OTHER -> {}
    IN  /\ resyncs < MaxResyncs
        /\ resyncs' = resyncs + 1
        /\ Send(first, issued + Cardinality(first), selection, {})
        /\ calls' = calls \cup {[kind |-> "config", from |-> c]}
        /\ UNCHANGED <<selection, subscriptions, store, listener, activeTickers, ops,
                       answered, missed>>

\* onopen of a socket, the first or one after a loss.
SocketOpens(c) == c \in handlers /\ resyncData(c) /\ UNCHANGED handlers

\* The browser is online again: a new chain of sockets has the listener's closure.
fetchOnOnline == resyncData(listener) /\ handlers' = handlers \cup {listener}

-----------------------------------------------------------------------------
Next ==
    \/ \E t \in Tickers : selectTicker(t) \/ addSubscription(t) \/ removeSubscription(t)
    \/ \E g \in Granularities : selectGranularity(g)
    \/ \E i \in Intervals : selectInterval(i)
    \/ \E m \in BOOLEAN : setMode(m)
    \/ saveApiKey
    \/ selectAlpacaFeed
    \/ \E call \in calls :
          \/ HandleMdgSubscriptionsReads(call)
          \/ HandleMdgSubscriptionsWrites(call)
          \/ ConfigAnswered(call)
          \/ SubscriptionAnswered(call)
          \/ ControlAnswered(call)
          \/ CallFails(call)
    \/ \E r \in requests : HistoryAnswered(r) \/ HistoryFailed(r)
    \/ \E c \in handlers : SocketOpens(c)
    \/ fetchOnOnline

Spec == Init /\ [][Next]_vars

-----------------------------------------------------------------------------
(***************************************************************************)
(* Properties                                                              *)
(***************************************************************************)
InFlight(k) == {r \in requests : r.key = k}

\* Types of closures, requests and calls.
Closures == [ticker : Tickers \cup {NoTicker}, gran : Granularities, interval : Intervals,
             mock : BOOLEAN, subs : Seq(Tickers), years : SUBSET Tickers]
Requests == [n : 1..issued, key : Keys, interval : Intervals, mock : BOOLEAN,
             years : SUBSET Tickers, rest : Seq(Tickers), only : BOOLEAN]
Changes == [kind : {"add", "remove"}, from : Closures, ticker : Tickers]
Calls == [kind : {"config", "key", "feed"}, from : Closures] \cup Changes
           \cup [kind : {"read", "changed"}, of : Changes, tickers : Seq(Tickers)]

TypeOK ==
    /\ selectedTicker \in Tickers \cup {NoTicker}
    /\ selectedGranularity \in Granularities
    /\ selectedInterval \in Intervals
    /\ forceMockMode \in BOOLEAN
    /\ subscriptions \in Seq(Tickers)
    /\ activeTickers \in Seq(Tickers)
    /\ store \in [Keys -> Contents \cup {NoEntry}]
    /\ issued \in 0..MaxRequests
    /\ requests \subseteq Requests
    /\ calls \subseteq Calls
    /\ handlers \subseteq Closures
    /\ listener \in Closures
    /\ newest \in [Keys -> [n : 0..issued, fits : BOOLEAN]]
    /\ answered \in [Keys -> 0..issued]
    /\ missed \subseteq Keys

\* The chart shows what is selected: when the answer that wrote the selected key
\* last is the one to the newest request for it, and that request asked for what was
\* selected when it was made, then the bars have the selected interval and mode: no
\* later change of the selection goes without a request of its own.  Left out is
\* what the code does not prevent: an older request that is answered last, a newer
\* one with the interval of a stale closure or of the watchlist, and a failure in
\* mock mode, which leaves the old bars.
ShownIsSelected ==
    LET k == <<selectedTicker, selectedGranularity>> IN
    selectedTicker # NoTicker /\ newest[k].fits /\ answered[k] = newest[k].n =>
        /\ store[k].interval = selectedInterval
        /\ store[k].mock = forceMockMode

\* Every symbol of the watchlist has bars for the day, or a request for them in
\* flight, or the last request to end failed or brought none (which the code
\* leaves at "Loading..." for good): no interleaving of changes of the list,
\* reconnections and mode switches leaves it at "Loading..." unasked.
WatchlistCovered ==
    \A t \in ToSet(subscriptions) :
        \/ HasEntry(<<t, "1d">>) /\ ~store[<<t, "1d">>].empty
        \/ InFlight(<<t, "1d">>) # {}
        \/ <<t, "1d">> \in missed

\* An entry without bars comes from such a request.
EmptyMissed == \A k \in Keys : HasEntry(k) /\ store[k].empty => k \in missed

\* A list is never shown without a selection.
SomeSelected == subscriptions = <<>> \/ selectedTicker # NoTicker

\* The newest request for a key is for that key; while the key is selected and the
\* request asked for what was, it still asks for what is.
NewestAsks ==
    \A r \in requests, k \in Keys :
        r.n = newest[k].n =>
            /\ r.key = k
            /\ k = <<selectedTicker, selectedGranularity>> /\ newest[k].fits =>
                  r.interval = selectedInterval /\ r.mock = forceMockMode

\* Inductive.
MarketInv ==
    TypeOK /\ SomeSelected /\ NewestAsks /\ ShownIsSelected /\ EmptyMissed /\ WatchlistCovered
=============================================================================
