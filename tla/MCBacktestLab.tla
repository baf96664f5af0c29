--------------------------- MODULE MCBacktestLab ----------------------------
(* BacktestLab with two symbols, results of up to three pages of two trades,  *)
(* of which a search keeps one page or none.                                  *)
EXTENDS BacktestLab

MCDefaultConfig == [strategy |-> "trend", symbols |-> {"AAPL", "MSFT"}, period |-> "5y"]
MCPresets == {[strategy |-> "rl", symbols |-> {"MSFT"}, period |-> "3y"]}
MCTradeCounts == {[all |-> 0, hits |-> 0], [all |-> 2, hits |-> 0], [all |-> 3, hits |-> 1],
                  [all |-> 6, hits |-> 4]}
=============================================================================
