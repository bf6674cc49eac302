------------------------------ MODULE TradingDesk ------------------------------
(***************************************************************************)
(* The parts of the trading desk that a strategy's orders meet: the order  *)
(* throttler, the asynchronous engine, the OMS of src/, the paper broker,  *)
(* the position books, the pre-trade controls, the arbitrage executor, the *)
(* backtest engine and the smart order router.  They share no state, each  *)
(* is built and called on its own: a behaviour therefore exercises one of  *)
(* them, since steps of the others in between would change nothing for it. *)
(***************************************************************************)
EXTENDS Throttler

CONSTANTS
    Orders, ManyOrders,   \* ids of orders, for parts that take fewer and more
    Loops,
    Symbols, PaperPrices, BookPrices, MaxUnits, MaxFills,
    Accounts, Strategies, PriceLevels, Sizes,
    Fia,                  \* of the FIA controls: symbols, and limits by their names
    Traders, Positions, Limits,   \* Limits: those of the risk manager
    Venues, Quotes, Executions, MinProfit,
    Routed, Brokers,
    Test                  \* what the backtest takes: sizes, results, limits

VARIABLES
    part,     \* the part the behaviour exercises
    backup, status, filled, pending, lock, submit, delayed, confirmed, shutdown,
    running, connecting, loop, taken, queue, known, orderStatus, placed, brokerFills, fills,
    price, paperStatus, position, balance, traded,
    quantity, avgEntry, market, unrealized, realized, cash, peak, maxLoss, fillCount,
    level, action, resting, entering, answer, entered,
    killed, booked, messages, windowAge, admitted, leaked, passes,
    openPositions, balanceNow, peakBalance, dailyPnl, totalPnl, approved,
    priceCache, phase, venueOf, request, order, hedge, exposure, success,
    capital, current, peakCapital, testPnl, haltLevel, halted, held, openOrders, results,
    registered, place, asking, plan, requests

Engine == INSTANCE AsyncEngine
Oms == INSTANCE NestedOms
Paper == INSTANCE PaperTrading WITH Orders <- ManyOrders, Prices <- PaperPrices
Books == INSTANCE Portfolio WITH Prices <- BookPrices
Stp == INSTANCE SelfTrade WITH Orders <- ManyOrders
Controls == INSTANCE FiaControls WITH
    Symbols <- Fia.symbols, MaxOrderSize <- Fia.order, MaxPosition <- Fia.position,
    MaxMessages <- Fia.messages, Window <- Fia.window
Risk == INSTANCE RiskDesk WITH
    MaxPositions <- Limits.positions, InitialBalance <- Limits.balance,
    MaxDailyLoss <- Limits.dailyLoss, MaxDrawdown <- Limits.drawdown,
    WorstLoss <- Limits.loss, BestGain <- Limits.gain, Ceiling <- Limits.ceiling
Arb == INSTANCE Arbitrage
Router == INSTANCE SmartRouter
Back == INSTANCE Backtest WITH
    BuySizes <- Test.buys, SellSizes <- Test.sells, Results <- Test.results, Gains <- Test.gains,
    InitialCapital <- Test.capital, MaxDrawdown <- Test.drawdown,
    MaxDailyLoss <- Test.dailyLoss, MaxPosition <- Test.position, MaxUnits <- Test.units,
    Reach <- Test.reach, peak <- peakCapital, dailyPnl <- testPnl, level <- haltLevel,
    killed <- halted, orders <- openOrders, booked <- results

ASSUME DeskConstants ==
    /\ Paper!PaperConstants /\ Books!PortfolioConstants /\ Stp!SelfTradeConstants
    /\ Controls!FiaConstants /\ Risk!RiskConstants /\ Arb!ArbitrageConstants
    /\ Back!BacktestConstants /\ Oms!OmsConstants

Parts == {"throttler", "engine", "oms", "paper", "books", "stp", "controls", "risk",
          "arbitrage", "backtest", "router"}

engineVars == <<backup, status, filled, pending, lock, submit, delayed, confirmed, shutdown>>
omsVars == <<running, connecting, loop, taken, queue, known, orderStatus, placed, brokerFills, fills>>
paperVars == <<price, paperStatus, position, balance, traded>>
bookVars ==
    <<quantity, avgEntry, market, unrealized, realized, cash, peak, maxLoss, fillCount>>
stpVars == <<level, action, resting, entering, answer, entered>>
fiaVars == <<killed, booked, messages, windowAge, admitted, leaked, passes>>
riskVars == <<openPositions, balanceNow, peakBalance, dailyPnl, totalPnl, approved>>
arbVars == <<priceCache, phase, venueOf, request, order, hedge, exposure, success>>
testVars ==
    <<capital, current, peakCapital, testPnl, haltLevel, halted, held, openOrders, results>>
routerVars == <<registered, place, asking, plan, requests>>
deskVars == <<part, throttlerVars, engineVars, omsVars, paperVars, bookVars, stpVars, fiaVars,
              riskVars, arbVars, testVars, routerVars>>

-----------------------------------------------------------------------------
(* Where a part may begin in several ways and is not the one exercised, it *)
(* begins in one of them.                                                  *)
DeskInit ==
    /\ part \in Parts
    /\ Init
    /\ Engine!Init /\ (part # "engine" => ~backup)
    /\ Oms!Init
    /\ Paper!Init /\ (part # "paper" => price = CHOOSE p \in [Symbols -> PaperPrices] : TRUE)
    /\ Books!Init
    /\ Stp!Init /\ (part # "stp" => level = "firm" /\ action = "cancel_new")
    /\ Controls!Init /\ Risk!Init /\ Arb!Init /\ Back!Init /\ Router!Init

(* A step of the part that is exercised; the state of the others stays.    *)
Only(name) ==
    /\ part = name /\ UNCHANGED part
    /\ IF name = "throttler" THEN TRUE ELSE UNCHANGED throttlerVars
    /\ IF name = "engine" THEN TRUE ELSE UNCHANGED engineVars
    /\ IF name = "oms" THEN TRUE ELSE UNCHANGED omsVars
    /\ IF name = "paper" THEN TRUE ELSE UNCHANGED paperVars
    /\ IF name = "books" THEN TRUE ELSE UNCHANGED bookVars
    /\ IF name = "stp" THEN TRUE ELSE UNCHANGED stpVars
    /\ IF name = "controls" THEN TRUE ELSE UNCHANGED fiaVars
    /\ IF name = "risk" THEN TRUE ELSE UNCHANGED riskVars
    /\ IF name = "arbitrage" THEN TRUE ELSE UNCHANGED arbVars
    /\ IF name = "backtest" THEN TRUE ELSE UNCHANGED testVars
    /\ IF name = "router" THEN TRUE ELSE UNCHANGED routerVars

DeskNext ==
    \/ Only("throttler") /\ Next
    \/ Only("engine") /\ Engine!Next
    \/ Only("oms") /\ Oms!Next
    \/ Only("paper") /\ Paper!Next
    \/ Only("books") /\ Books!Next
    \/ Only("stp") /\ Stp!Next
    \/ Only("controls") /\ Controls!Next
    \/ Only("risk") /\ Risk!Next
    \/ Only("arbitrage") /\ Arb!Next
    \/ Only("backtest") /\ Back!Next
    \/ Only("router") /\ Router!Next

(* The fairness of the parts that have tasks of an event loop. *)
DeskSpec ==
    /\ DeskInit /\ [][DeskNext]_deskVars
    /\ Engine!Fairness
    /\ Oms!Fairness
    /\ Router!Fairness

-----------------------------------------------------------------------------
(* The parts of these are stated where their modules are. *)

\* AsyncEngine, NestedOms: a rejected order took no fill, an order is placed by
\* one loop and its fill is booked once.
FillsAreBookedOnce == Engine!RejectedTookNothing /\ Oms!PlacedByOne
\* AsyncEngine, NestedOms: with one broker submit_order comes back, a cancellation
\* that was asked for is confirmed, and submissions and fills are settled at last;
\* SmartRouter: a routed order that was sent comes to its end.
RequestsSettle ==
    /\ Engine!UnbackedSubmitReturns /\ Engine!CancelAnswered
    /\ Oms!SubmissionsSettle /\ Router!PlacingEnds
\* PaperTrading, Portfolio: equity, cash and results are those of the fills.
AccountsBalance == Paper!EquityIsWorth /\ Books!BooksBalance
\* SelfTrade, FiaControls: no two resting orders of one owner cross, and what was
\* admitted stays within the limits of what was booked.
ControlsHold == Stp!OwnOrdersApart /\ Controls!AdmittedWithinBookings
\* RiskDesk, Backtest: losses stay within the limits and the trades admitted before
\* them, and beyond the limits of the drawdown nothing is admitted.
LossesBounded == Risk!LossesBounded /\ Back!DrawdownHalts
\* Arbitrage, SmartRouter: what was executed leaves no position, and an order that
\* is tried at broker after broker stands once and where its requests were given up.
ExecutionsAreContained == Arb!ExecutionsStayFlat /\ Router!OrdersAreContained
=============================================================================
