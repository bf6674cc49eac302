---------------------------- MODULE MC_TradingDesk ----------------------------
(* TradingDesk for TLC: the instances of its parts. *)
EXTENDS TradingDesk

MCFia == [symbols |-> {"XAUUSD"}, order |-> 1, position |-> 2, messages |-> 2, window |-> 2]

\* A trader may lose 2 in a trade, 20 percent a day, 30 percent of the peak in all.
MCLimits ==
    [positions |-> 1, balance |-> 10, dailyLoss |-> 20, drawdown |-> 30,
     loss |-> 2, gain |-> 1, ceiling |-> 12]

\* Two prices that are apart: both directions of arbitrage occur.
MCQuotes == {[bid |-> 1, ask |-> 2], [bid |-> 4, ask |-> 5]}

\* A sale is asked for with a negative size or, like a purchase, a positive one.
MCTest ==
    [buys |-> {1, 2}, sells |-> {-2}, results |-> {-3, 2}, gains |-> {-2, 0, 1},
     capital |-> 10, drawdown |-> 5, dailyLoss |-> 4, position |-> 4, units |-> 3, reach |-> 7]
=============================================================================
