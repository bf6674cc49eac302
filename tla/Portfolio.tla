------------------------------- MODULE Portfolio -------------------------------
(***************************************************************************)
(* PortfolioManager of portfolio/pms.py: fills and prices of several       *)
(* symbols, average entry prices, realised and unrealised results, cash.   *)
(*                                                                         *)
(* The code's Decimal divisions are exact here: prices are multiples of    *)
(* what the bounds can ever divide them by, and AddTrade is enabled where  *)
(* the division leaves no remainder. Commissions are kept apart from cash. *)
(***************************************************************************)
EXTENDS Integers, FiniteSetsExt, Functions

CONSTANTS
    Symbols,
    Prices,    \* prices of fills and of the market
    MaxUnits,  \* bound of the model on a position, long or short
    MaxFills   \* bound of the model on the number of fills

PortfolioConstants ==
    /\ IsFiniteSet(Symbols) /\ Prices \subseteq Nat \ {0}
    /\ MaxUnits \in Nat \ {0} /\ MaxFills \in Nat

VARIABLES
    quantity, avgEntry, market, unrealized, realized,  \* of each Position
    cash,      \* cash, without the commissions
    peak,      \* peak_value
    maxLoss,   \* what max_drawdown measures: the largest fall from a peak
    fillCount  \* process_fill calls so far

positionVars == <<quantity, avgEntry, market, unrealized, realized>>
portfolioVars == <<positionVars, cash, peak, maxLoss, fillCount>>

Zeros == [s \in Symbols |-> 0]

Init ==
    /\ quantity = Zeros /\ avgEntry = Zeros /\ market = Zeros
    /\ unrealized = Zeros /\ realized = Zeros
    /\ cash = 0 /\ peak = 0 /\ maxLoss = 0 /\ fillCount = 0

Abs(n) == IF n < 0 THEN -n ELSE n
Total(f) == SumFunctionOnSet(f, Symbols)

-----------------------------------------------------------------------------
(* Position.update_market_price: without a position the last unrealised    *)
(* result stays.                                                           *)
Unrealized_AtEntry(q, avg, price, last) == IF q = 0 THEN last ELSE 0

Unrealized(q, avg, price, last) == IF q = 0 THEN last ELSE q * (price - avg)

(* Position.add_trade, for n units bought (n > 0) or sold (n < 0).         *)
Extends(s, n) == IF n > 0 THEN quantity[s] >= 0 ELSE quantity[s] <= 0

(* A trade that turns the position over keeps its average entry price.     *)
AddTrade(s, n, price) ==
    LET q == quantity[s] + n
        cost == Abs(quantity[s]) * avgEntry[s] + Abs(n) * price
        avg == IF Extends(s, n) THEN cost \div Abs(q) ELSE IF q = 0 THEN 0 ELSE avgEntry[s]
    IN  /\ Extends(s, n) => cost % Abs(q) = 0
        /\ quantity' = [quantity EXCEPT ![s] = q]
        /\ avgEntry' = [avgEntry EXCEPT ![s] = avg]
        /\ realized' = [realized EXCEPT
             ![s] = IF Extends(s, n) THEN @ ELSE @ - n * (price - avgEntry[s])]
        /\ market' = [market EXCEPT ![s] = price]
        /\ unrealized' = [unrealized EXCEPT ![s] = Unrealized(q, avg, price, @)]

(* _recalculate_portfolio, with the values after the change. *)
Recalculate ==
    LET value == cash' + Total([s \in Symbols |-> quantity'[s] * market'[s]])
    IN  /\ peak' = Max({peak, value})
        /\ maxLoss' = Max({maxLoss, IF peak' > 0 THEN peak' - value ELSE 0})

ProcessFill(s, n, price) ==
    /\ fillCount < MaxFills /\ Abs(quantity[s] + n) <= MaxUnits
    /\ AddTrade(s, n, price)
    /\ cash' = cash - n * price
    /\ Recalculate
    /\ fillCount' = fillCount + 1

(* A symbol without a fill has no Position yet. *)
UpdatePrice(s, price) ==
    /\ market[s] # 0 /\ price # market[s]
    /\ market' = [market EXCEPT ![s] = price]
    /\ unrealized' = [unrealized EXCEPT
         ![s] = Unrealized(quantity[s], avgEntry[s], price, @)]
    /\ UNCHANGED <<quantity, avgEntry, realized, cash, fillCount>>
    /\ Recalculate

Next ==
    \E s \in Symbols, price \in Prices :
        \/ \E n \in ((-2 * MaxUnits)..(2 * MaxUnits)) \ {0} : ProcessFill(s, n, price)
        \/ UpdatePrice(s, price)

Spec == Init /\ [][Next]_portfolioVars

-----------------------------------------------------------------------------
TypeOK ==
    /\ quantity \in [Symbols -> (-MaxUnits)..MaxUnits]
    /\ avgEntry \in [Symbols -> Nat]
    /\ market \in [Symbols -> Prices \cup {0}]
    /\ unrealized \in [Symbols -> Int] /\ realized \in [Symbols -> Int]
    /\ cash \in Int /\ peak \in Nat /\ maxLoss \in Nat /\ fillCount \in 0..MaxFills

(* Money is neither made nor lost in the books: through every order of     *)
(* buying, selling and turning positions over, the realised results are    *)
(* the cash and what the open positions cost. What a symbol with an open   *)
(* position shows as unrealised is its value at the market over that cost. *)
BooksBalance ==
    /\ Total(realized) = cash + Total([s \in Symbols |-> quantity[s] * avgEntry[s]])
    /\ \A s \in Symbols : quantity[s] # 0 =>
         unrealized[s] = quantity[s] * (market[s] - avgEntry[s])

(* What the code does not do: the total of the results is the value of the *)
(* portfolio. A closed position still shows its last unrealised result.    *)
ResultIsValue ==
    Total(realized) + Total(unrealized)
      = cash + Total([s \in Symbols |-> quantity[s] * market[s]])
=============================================================================
