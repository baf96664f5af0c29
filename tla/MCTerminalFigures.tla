------------------------- MODULE MCTerminalFigures --------------------------
(***************************************************************************)
(* A small instance of TerminalFigures: a day of three ticks of the clock, *)
(* bars of one or two, and the fills and caps scaled down with them.       *)
(***************************************************************************)
EXTENDS TerminalFigures

MCWindow == [g \in Granularities |-> 4]
Body(t, o, c) ==
    [time |-> t, open |-> o, high |-> Greater(o, c), low |-> Lesser(o, c), close |-> c]
\* Nothing, one bar, bars of two days, and a longer run with a gap.
MCAnswers == {<<>>,
              <<Body(1, 1, 3)>>,
              <<Body(2, 3, 1), Body(4, 1, 1)>>,
              <<Body(0, 1, 3), Body(1, 3, 3), Body(3, 3, 1)>>}
MCBase == [price |-> 2, wHigh |-> 2, wLow |-> 2]
Trade(sym, t, p, q, a) == [symbol |-> sym, time |-> t, price |-> p, qty |-> q, action |-> a]
MCTrades == {Trade("A", 0, 1, 2, "BUY"), Trade("A", 2, 3, 0, "BUY"),
             Trade("A", 2, 3, 1, "SELL"), Trade("B", 3, 1, 1, "SELL")}
=============================================================================
