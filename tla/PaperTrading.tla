----------------------------- MODULE PaperTrading ------------------------------
(***************************************************************************)
(* PaperTradingBroker of brokers/paper_trading.py: market orders fill at   *)
(* once, all others rest and never fill, and a position is closed as a     *)
(* whole at the market. The position keeps the side of its first order and *)
(* grows with every later one, whatever its side.                          *)
(*                                                                         *)
(* A position's cost stands for its entry price times its quantity, so     *)
(* that the average is exact.                                              *)
(***************************************************************************)
EXTENDS Integers, FiniteSets, Functions

CONSTANTS
    Orders, Symbols,
    Prices,    \* prices of the market
    MaxUnits   \* bound of the model on the units of a position

PaperConstants ==
    IsFiniteSet(Symbols) /\ Prices \subseteq Nat \ {0} /\ MaxUnits \in Nat \ {0}

VARIABLES
    price,      \* market_prices
    paperStatus, \* Order.status, "new" before it is placed
    position,   \* positions: direction (0 when there is none), units, cost
    balance,    \* balance - initial_balance
    traded      \* ghost: direction, units and money of what was really traded
                \* since the symbol was last flat, and the money before

paperVars == <<price, paperStatus, position, balance, traded>>

Flat == [direction |-> 0, units |-> 0, cost |-> 0]

Init ==
    /\ price \in [Symbols -> Prices]
    /\ paperStatus = [o \in Orders |-> "new"]
    /\ position = [s \in Symbols |-> Flat]
    /\ balance = 0
    /\ traded = [s \in Symbols |-> [money |-> 0, units |-> 0, oneSided |-> TRUE]]

Sides == {1, -1}   \* LONG and SHORT

-----------------------------------------------------------------------------
CostAfter_FirstPrice(p, n, at) == IF p.units = 0 THEN n * at ELSE (p.cost \div p.units) * (p.units + n)

CostAfter(p, n, at) == p.cost + n * at

(* _update_position *)
UpdatePosition(s, side, n) ==
    LET p == position[s] IN
    /\ position' = [position EXCEPT ![s] =
         [direction |-> IF p.units = 0 THEN side ELSE p.direction,
          units |-> p.units + n,
          cost |-> CostAfter(p, n, price[s])]]
    /\ traded' = [traded EXCEPT ![s] =
         [money |-> @.money - side * n * price[s],
          units |-> @.units + side * n,
          oneSided |-> @.oneSided /\ p.direction # -side]]

(* place_order *)
PlaceMarket(o, s, side, n) ==
    /\ paperStatus[o] = "new" /\ position[s].units + n <= MaxUnits
    /\ paperStatus' = [paperStatus EXCEPT ![o] = "FILLED"]
    /\ UpdatePosition(s, side, n)
    /\ UNCHANGED <<price, balance>>

PlaceResting(o) ==
    /\ paperStatus[o] = "new"
    /\ paperStatus' = [paperStatus EXCEPT ![o] = "OPEN"]
    /\ UNCHANGED <<price, position, balance, traded>>

CancelOrder(o) ==
    /\ paperStatus[o] = "OPEN"
    /\ paperStatus' = [paperStatus EXCEPT ![o] = "CANCELLED"]
    /\ UNCHANGED <<price, position, balance, traded>>

(* What a position is worth over its cost: LONG gains with the price,      *)
(* SHORT loses (get_positions, close_position).                            *)
Result(s) ==
    LET p == position[s] IN p.direction * (p.units * price[s] - p.cost)

(* What was really held is sold at the market as well, for the ghost.      *)
ClosePosition(s) ==
    /\ position[s].units > 0
    /\ balance' = balance + Result(s)
    /\ position' = [position EXCEPT ![s] = Flat]
    /\ traded' = [traded EXCEPT ![s] =
         [money |-> @.money + @.units * price[s], units |-> 0, oneSided |-> @.oneSided]]
    /\ UNCHANGED <<price, paperStatus>>

UpdateMarketPrice(s) ==
    /\ \E p \in Prices \ {price[s]} : price' = [price EXCEPT ![s] = p]
    /\ UNCHANGED <<paperStatus, position, balance, traded>>

Next ==
    \/ \E o \in Orders : PlaceResting(o) \/ CancelOrder(o)
    \/ \E o \in Orders, s \in Symbols, side \in Sides, n \in 1..MaxUnits :
         PlaceMarket(o, s, side, n)
    \/ \E s \in Symbols : ClosePosition(s) \/ UpdateMarketPrice(s)

Spec == Init /\ [][Next]_paperVars

-----------------------------------------------------------------------------
TypeOK ==
    /\ price \in [Symbols -> Prices]
    /\ paperStatus \in [Orders -> {"new", "OPEN", "FILLED", "CANCELLED"}]
    /\ position \in [Symbols -> [direction : Sides \cup {0}, units : 0..MaxUnits, cost : Nat]]
    /\ balance \in Int
    /\ traded \in [Symbols -> [money : Int, units : Int, oneSided : BOOLEAN]]

Equity == balance + SumFunctionOnSet([s \in Symbols |-> Result(s)], Symbols)

Worth ==
    SumFunctionOnSet([s \in Symbols |-> traded[s].money + traded[s].units * price[s]], Symbols)

(* The account's equity is what trading the same units at the same prices  *)
(* would have left, as long as no order went against an open position:     *)
(* openings, additions at other prices, closings and reopenings on either  *)
(* side make and lose no money of their own.                               *)
EquityIsWorth == (\A s \in Symbols : traded[s].oneSided) => Equity = Worth

(* What the code does not do: the same with orders against a position.     *)
EquityIsAlwaysWorth == Equity = Worth
=============================================================================
