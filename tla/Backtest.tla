------------------------------- MODULE Backtest --------------------------------
(***************************************************************************)
(* EnhancedBacktestEngine and InstitutionalRiskManager of                  *)
(* enhanced_backtest_engine.py for one symbol: orders that the risk        *)
(* manager admits, their executions, full or in part, and the drawdown     *)
(* that warns, halts and kills.  Results and unrealized profits are        *)
(* integers chosen for each step; the price is constant.  Sizes are signed *)
(* or not as the caller passes them, the position adds them as they are.   *)
(* Orders are market orders: a limit order that could be filled raises, an *)
(* UnboundLocalError at line 1446, before it changes anything.             *)
(***************************************************************************)
EXTENDS Integers

CONSTANTS
    Orders,          \* ids of orders
    BuySizes,        \* sizes callers pass with BUY
    SellSizes,       \* sizes callers pass with SELL
    Results,         \* net results of a closing trade
    Gains,           \* unrealized profits at a tick
    InitialCapital,
    MaxDrawdown,     \* limits['drawdown'], in tenths
    MaxDailyLoss,    \* limits['daily_loss'], in tenths
    MaxPosition,     \* limits['position'] at the price, in tenths
    MaxUnits,        \* bound of the model on the position
    Reach            \* bound of the model on how far capital is from the start

BacktestConstants ==
    /\ BuySizes \subseteq Int /\ SellSizes \subseteq Int
    /\ Results \subseteq Int /\ Gains \subseteq Int
    /\ InitialCapital \in Nat /\ MaxDrawdown \in Nat

VARIABLES
    capital,   \* the engine's capital
    current,   \* current_capital of the risk manager
    peak,      \* peak_capital, which is high_water_mark
    dailyPnl,  \* daily_pnl
    level,     \* circuit_breaker_level: 0 normal, 1 warning, 2 halt
    killed,    \* kill_switch_active
    held,      \* size of the position
    orders,    \* open_orders: remaining size and filled_size
    booked     \* ghost: results of the closed trades

riskVars == <<current, peak, dailyPnl, level, killed>>
backtestVars == <<capital, riskVars, held, orders, booked>>

NoOrder == [size |-> 0, filled |-> 0, open |-> FALSE]

Init ==
    /\ capital = InitialCapital /\ current = InitialCapital /\ peak = InitialCapital
    /\ dailyPnl = 0
    /\ level = 0 /\ killed = FALSE
    /\ held = 0
    /\ orders = [o \in Orders |-> NoOrder]
    /\ booked = 0

Abs(n) == IF n < 0 THEN -n ELSE n

-----------------------------------------------------------------------------
(* InstitutionalRiskManager *)

(* The drawdown is over so many tenths of its limit. *)
DrawdownOver(now, top, tenths) == 100 * (top - now) > MaxDrawdown * tenths * top

(* check_intraday_risk: a drawdown between warning and halt lowers a halt  *)
(* to a warning, one below the warning changes nothing.                    *)
CheckIntradayRisk(now, top) ==
    /\ current' = now /\ peak' = top
    /\ killed' = (killed \/ DrawdownOver(now, top, 10))
    /\ level' = IF DrawdownOver(now, top, 8) THEN 2
                ELSE IF DrawdownOver(now, top, 5) THEN 1 ELSE level

UpdateCapital_Unchecked(pnl) ==
    /\ current' = current + pnl
    /\ peak' = IF current + pnl > peak THEN current + pnl ELSE peak
    /\ dailyPnl' = dailyPnl + pnl
    /\ UNCHANGED <<level, killed>>

UpdateCapital(pnl) ==
    LET now == current + pnl IN
    /\ dailyPnl' = dailyPnl + pnl
    /\ CheckIntradayRisk(now, IF now > peak THEN now ELSE peak)

DailyLossReached == 10 * dailyPnl < -(MaxDailyLoss * current)

(* The manager's positions are never filled in, so that the order alone is *)
(* measured; leverage, the wider limit, and VaR, which only warns, are     *)
(* left out.                                                               *)
PositionFits(size) == 10 * Abs(size) <= MaxPosition * current

-----------------------------------------------------------------------------
(* process_tick: the risk manager's capital is the equity at the tick. *)
ProcessTick(gain) ==
    /\ held = 0 => gain = 0
    /\ CheckIntradayRisk(capital + gain, peak)
    /\ UNCHANGED <<capital, dailyPnl, held, orders, booked>>

(* submit_order with check_pre_trade_risk. *)
SubmitOrder(o, size) ==
    /\ orders[o] = NoOrder
    /\ ~killed /\ level < 2
    /\ IF DailyLossReached
       THEN killed' = TRUE /\ level' = 2 /\ UNCHANGED orders
       ELSE /\ PositionFits(size)
            /\ orders' = [orders EXCEPT ![o] = [size |-> size, filled |-> 0, open |-> TRUE]]
            /\ UNCHANGED <<level, killed>>
    /\ UNCHANGED <<capital, current, peak, dailyPnl, held, booked>>

(* filled_size is compared with what remained before the fill. *)
OrderFilled(o, size) ==
    IF orders[o].filled + size = orders[o].size
    THEN [NoOrder EXCEPT !.filled = orders[o].filled + size]
    ELSE [orders[o] EXCEPT !.size = @ - size, !.filled = @ + size]

(* _close_position *)
Left(size) == IF held > 0 THEN held + size ELSE held - size

Remaining(size) == IF Abs(size) > Abs(Left(size)) THEN size + Left(size) ELSE size

(* execute_order that adds to the position or opens one. *)
ExecuteOpening(o, size) ==
    /\ held * size >= 0
    /\ held' = held + size
    /\ orders' = [orders EXCEPT ![o] = OrderFilled(o, size)]
    /\ UNCHANGED <<capital, riskVars, booked>>

(* execute_order against the position: after the trade was booked, the     *)
(* rest of the order is added to what is left.  Where both cancel out the  *)
(* average divides by zero: with a plain float the order stays as it was,  *)
(* with one of NumPy the average is no number and the order goes on.       *)
ExecuteClosing(o, size, result) ==
    LET total == Left(size) + Remaining(size) IN
    /\ held * size < 0
    /\ capital' = capital + result /\ booked' = booked + result
    /\ UpdateCapital(result)
    /\ \/ Left(size) # 0 /\ total = 0 /\ held' = Left(size) /\ UNCHANGED orders
       \/ held' = total /\ orders' = [orders EXCEPT ![o] = OrderFilled(o, size)]

ExecuteOrder(o, size, result) ==
    /\ orders[o].open
    /\ size # 0 /\ size * orders[o].size > 0 /\ Abs(size) <= Abs(orders[o].size)
    /\ ExecuteOpening(o, size) \/ ExecuteClosing(o, size, result)

WithinModel ==
    /\ Abs(capital' - InitialCapital) <= Reach /\ Abs(current' - InitialCapital) <= Reach
    /\ Abs(held') <= MaxUnits

Next ==
    /\ \/ \E gain \in Gains : ProcessTick(gain)
       \/ \E o \in Orders :
            \/ \E size \in BuySizes \cup SellSizes : SubmitOrder(o, size)
            \/ \E size \in -MaxUnits..MaxUnits, result \in Results : ExecuteOrder(o, size, result)
    /\ WithinModel

Spec == Init /\ [][Next]_backtestVars

-----------------------------------------------------------------------------
TypeOK ==
    /\ capital \in Int /\ current \in Int /\ peak \in Int
    /\ dailyPnl \in Int /\ booked \in Int
    /\ level \in 0..2 /\ killed \in BOOLEAN

(* Over ticks, closings and orders that break off half booked: while the   *)
(* capital the risk manager knows is further below its peak than the halt  *)
(* or the kill switch permit, the halt or the switch is on, so that no     *)
(* order is admitted; and no result is lost or booked twice.               *)
DrawdownHalts ==
    /\ DrawdownOver(current, peak, 8) => level = 2
    /\ DrawdownOver(current, peak, 10) => killed
    /\ capital = InitialCapital + booked /\ dailyPnl = booked

(* What the code does not do: halt until somebody resets it,               *)
HaltStays == [][level = 2 => level' = 2]_backtestVars

(* leave no position when one is closed by an order of its size,           *)
ClosedIsFlat ==
    [][\A o \in Orders : orders[o].open /\ ~orders'[o].open /\ held # 0
                         /\ orders[o].size = -held /\ orders[o].filled = 0 => held' = 0]_backtestVars

(* and close an order when nothing remains of it.                          *)
FilledOrdersLeave == \A o \in Orders : orders[o].open => orders[o].size # 0
=============================================================================
