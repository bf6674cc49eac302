----------------------------- MODULE AdvancedOrders -----------------------------
(***************************************************************************)
(* AdvancedOrderManager of brokers/advanced_orders.py: plain orders,       *)
(* one-cancels-other pairs and brackets whose orders open and cancel one   *)
(* another when the broker reports fills, and the trailing stops that live *)
(* in the same manager. Every method holds the manager's Lock from its     *)
(* first read to its last write, so each is one step; the caller's threads *)
(* and the broker's reports come in any order.                             *)
(*                                                                         *)
(* The manager never tells the broker of a cancellation (broker_callback   *)
(* is stored and not used), so a report for an order it has CANCELLED may  *)
(* still come; and no report is checked, so one may come twice, carry more *)
(* than is left to fill, or name an exit whose entry has no fill.          *)
(***************************************************************************)
EXTENDS Integers, FiniteSets

CONSTANTS
    Ocos,      \* one-cancels-other pairs
    Brackets,  \* bracket orders
    Plains,    \* orders without links: plain, conditional, scaled children
    Quantity   \* quantity of every order

ASSUME QuantityAssumption == Quantity \in Nat \ {0}

\* Tables are finite, and every id is a uuid of its own.
ASSUME GroupsAssumption ==
    /\ IsFiniteSet(Ocos) /\ IsFiniteSet(Brackets) /\ IsFiniteSet(Plains)
    /\ Ocos \cap Brackets = {} /\ Ocos \cap Plains = {} /\ Brackets \cap Plains = {}

VARIABLES
    known,     \* the pairs, brackets and orders created so far
    status,    \* Order.status
    filled,    \* Order.filled_quantity
    oco,       \* OCOOrder: status, triggered_order_id, cancelled_order_id
    bracket,   \* BracketOrder.status and position_filled
    stats,     \* the manager's counters of filled, cancelled and completed
    repeated   \* history: reports of an order that had its quantity before them

vars == <<known, status, filled, oco, bracket, stats, repeated>>

Ids == (Ocos \X {"limit", "stop"}) \cup (Brackets \X {"entry", "sl", "tp"}) \cup (Plains \X {"order"})

OrderStatus == {"pending", "open", "filled", "partially_filled", "cancelled"}

Owner(o) == o[1]
Part(o)  == o[2]
NoOrder  == <<"none", "none">>

Init ==
    /\ known = {}
    /\ status = [o \in Ids |-> "pending"]
    /\ filled = [o \in Ids |-> 0]
    /\ oco = [g \in Ocos |-> [status |-> "pending", triggered |-> NoOrder, cancelled |-> NoOrder]]
    /\ bracket = [b \in Brackets |-> [status |-> "pending", positionFilled |-> FALSE]]
    /\ stats = [filled |-> 0, cancelled |-> 0, completed |-> 0]
    /\ repeated = 0

Create_ExitsOpen(g) ==
    /\ g \notin known
    /\ known' = known \cup {g}
    /\ status' = [o \in Ids |-> IF Owner(o) = g /\ Part(o) \in {"sl", "tp"} THEN "open" ELSE status[o]]
    /\ UNCHANGED <<filled, oco, bracket, stats, repeated>>

(* create_order, create_oco_order and create_bracket_order: all the orders *)
(* of a group enter the table at once, every one PENDING.                  *)
Create(g) ==
    /\ g \notin known
    /\ known' = known \cup {g}
    /\ UNCHANGED <<status, filled, oco, bracket, stats, repeated>>

-----------------------------------------------------------------------------
(* What the fill of an order does to the orders it is linked with. *)

OtherLeg_WrongName(o) == <<Owner(o), IF Part(o) = "limit" THEN "stop_loss" ELSE "take_profit">>

OtherLeg(o) == IF Part(o) = "limit" THEN <<Owner(o), "stop">> ELSE <<Owner(o), "limit">>

CancelsByFill_UnlessFilled(o) ==
    LET linked == CASE Owner(o) \in Ocos -> {OtherLeg(o)}
                    [] Part(o) = "sl"    -> {<<Owner(o), "tp">>}
                    [] Part(o) = "tp"    -> {<<Owner(o), "sl">>}
                    [] OTHER             -> {}
    IN  {x \in linked : status[x] # "partially_filled"}

(* _handle_oco_fill and the exits' branches of _handle_bracket_fill; a     *)
(* partial fill cancels as a full one does.                                *)
CancelsByFill(o) ==
    IF Owner(o) \in Ocos THEN {OtherLeg(o)}
    ELSE IF Part(o) = "sl" THEN {<<Owner(o), "tp">>}
    ELSE IF Part(o) = "tp" THEN {<<Owner(o), "sl">>}
    ELSE {}

(* The entry's branch of _handle_bracket_fill opens both exits.            *)
OpensByFill(o) ==
    IF Part(o) = "entry" THEN {<<Owner(o), "sl">>, <<Owner(o), "tp">>} ELSE {}

Completes(o, quantity) == filled[o] + quantity >= Quantity

StatusAfter(o, quantity) ==
    [x \in Ids |->
        IF x = o THEN (IF Completes(o, quantity) THEN "filled" ELSE "partially_filled")
        ELSE IF x \in CancelsByFill(o) THEN "cancelled"
        ELSE IF x \in OpensByFill(o) THEN "open"
        ELSE status[x]]

OcoAfter(o) ==
    IF Owner(o) \in Ocos
    THEN [oco EXCEPT ![Owner(o)] =
            [status |-> "filled", triggered |-> o, cancelled |-> OtherLeg(o)]]
    ELSE oco

BracketAfter(o) ==
    IF Owner(o) \in Brackets
    THEN [bracket EXCEPT ![Owner(o)] =
            IF Part(o) = "entry" THEN [@ EXCEPT !.positionFilled = TRUE]
                                 ELSE [@ EXCEPT !.status = "filled"]]
    ELSE bracket

FilledCount_EveryReport(o, quantity) == stats.filled + 1

FilledCount(o, quantity) == IF Completes(o, quantity) THEN stats.filled + 1 ELSE stats.filled

\* Bound: what the reports of one order add up to.
CONSTANT MaxFilled

ASSUME MaxFilledAssumption == MaxFilled \in Nat

(* handle_order_fill: no status, no quantity and no earlier report is      *)
(* looked at before the fill is booked.                                    *)
HandleOrderFill(o, quantity) ==
    /\ Owner(o) \in known
    /\ filled[o] + quantity <= MaxFilled
    /\ filled' = [filled EXCEPT ![o] = @ + quantity]
    /\ status' = StatusAfter(o, quantity)
    /\ oco' = OcoAfter(o)
    /\ bracket' = BracketAfter(o)
    /\ stats' = [stats EXCEPT !.filled = FilledCount(o, quantity),
                              !.completed = IF Part(o) \in {"sl", "tp"} THEN @ + 1 ELSE @]
    /\ repeated' = IF filled[o] >= Quantity THEN repeated + 1 ELSE repeated
    /\ UNCHANGED known

Cancellable(o) == status[o] \in {"pending", "open"}

CancelOrder(o) ==
    /\ Owner(o) \in known
    /\ Cancellable(o)
    /\ status' = [status EXCEPT ![o] = "cancelled"]
    /\ stats' = [stats EXCEPT !.cancelled = @ + 1]
    /\ UNCHANGED <<known, filled, oco, bracket, repeated>>

(* Bound: requests to cancel that are granted.                             *)
CONSTANT MaxCancels

ASSUME CancelsAssumption == MaxCancels \in Nat

Next ==
    \/ \E g \in Ocos \cup Brackets \cup Plains : Create(g)
    \/ \E o \in Ids, quantity \in 1..Quantity : HandleOrderFill(o, quantity)
    \/ stats.cancelled < MaxCancels /\ \E o \in Ids : CancelOrder(o)

Spec == Init /\ [][Next]_vars

-----------------------------------------------------------------------------
(* get_open_orders. *)
OpenOrders == {o \in Ids : Owner(o) \in known /\ status[o] \in {"pending", "open"}}

TypeOK ==
    /\ known \subseteq Ocos \cup Brackets \cup Plains
    /\ status \in [Ids -> OrderStatus]
    /\ filled \in [Ids -> 0..MaxFilled]
    /\ oco \in [Ocos -> [status : {"pending", "filled"}, triggered : Ids \cup {NoOrder},
                         cancelled : Ids \cup {NoOrder}]]
    /\ bracket \in [Brackets -> [status : {"pending", "filled"}, positionFilled : BOOLEAN]]
    /\ stats \in [filled : Nat, cancelled : 0..MaxCancels, completed : Nat]
    /\ repeated \in Nat

(* Once a leg took a fill the pair has one leg that lives and one that is  *)
(* CANCELLED, and the pair knows which, even when the other leg's report   *)
(* comes late and turns them round; and an exit works in the market only   *)
(* when the entry has taken a fill: the bracket never opens a position     *)
(* with its own protection.                                                *)
LegsAreSafe ==
    /\ \A g \in Ocos :
        IF oco[g].status = "filled"
        THEN /\ oco[g].cancelled = OtherLeg(oco[g].triggered)
             /\ status[oco[g].triggered] \in {"filled", "partially_filled"}
             /\ status[oco[g].cancelled] = "cancelled"
        ELSE \A o \in {g} \X {"limit", "stop"} : filled[o] = 0
    /\ \A b \in Brackets : \A part \in {"sl", "tp"} :
        status[<<b, part>>] = "open" => bracket[b].positionFilled /\ filled[<<b, "entry">>] > 0

(* The counter of filled orders counts an order when the parts of its fill *)
(* reach its quantity, whatever its status becomes, and once more for each *)
(* report after that: what it says beyond the filled orders are repeated   *)
(* reports, never an order in parts or one whose leg was cancelled.        *)
FilledAreCounted ==
    stats.filled = Cardinality({o \in Ids : filled[o] >= Quantity}) + repeated

\* The leg a filled pair was triggered by is one of its own.
TriggeredIsOwn ==
    \A g \in Ocos : oco[g].status = "filled" => oco[g].triggered \in {g} \X {"limit", "stop"}

LegsInv == TypeOK /\ LegsAreSafe /\ TriggeredIsOwn

-----------------------------------------------------------------------------
(* The manager with its trailing stops: every price the caller hands to    *)
(* update_trailing_stop may lift the best price seen and drag the stop     *)
(* behind it. A SELL stop guards a long position and follows prices up, a  *)
(* BUY stop guards a short one and follows them down. The trail is an      *)
(* amount; a percentage of the price is another monotone distance.         *)
CONSTANTS
    Stops,    \* ids of trailing stops
    Prices,   \* prices of the market
    Trails    \* trail amounts

\* Prices are positive, and each is below the infinity a BUY stop begins with.
ASSUME PricesAssumption ==
    Prices \subseteq Nat \ {0} /\ \E top \in Prices : \A price \in Prices : price <= top
ASSUME TrailsAssumption == Trails \subseteq Nat \ {0}

VARIABLES
    stops,    \* trailing stops created so far
    stop,     \* their fields
    heard     \* history: the prices each was updated with

trailingVars == <<stops, stop, heard>>
managerVars == <<vars, trailingVars>>

\* activation_price and stop_price when they are not set
Unset == 0
\* highest_price of a new SELL stop; lowest_price of a new BUY stop is infinite
Infinite == 1 + CHOOSE p \in Prices : \A q \in Prices : q <= p

Sides == {"SELL", "BUY"}

NewStop(side, trail, activation) ==
    [side |-> side, trail |-> trail, activation |-> activation, stop |-> Unset,
     best |-> IF side = "SELL" THEN 0 ELSE Infinite]

TrailingInit ==
    /\ stops = {}
    /\ stop = [s \in Stops |-> NewStop("SELL", 1, Unset)]
    /\ heard = [s \in Stops |-> {}]

CreateTrailingStop(s, side, trail, activation) ==
    /\ s \notin stops
    /\ stops' = stops \cup {s}
    /\ stop' = [stop EXCEPT ![s] = NewStop(side, trail, activation)]
    /\ UNCHANGED heard

(* The price is on the activated side of activation_price, now.            *)
Activated(r, price) ==
    r.activation # Unset =>
        IF r.side = "SELL" THEN price >= r.activation ELSE price <= r.activation

Better(r, price) == IF r.side = "SELL" THEN price > r.best ELSE price < r.best

StopAt(r, price) == IF r.side = "SELL" THEN price - r.trail ELSE price + r.trail

UpdateTrailingStop_BeforeActivation(s, price) ==
    /\ s \in stops
    /\ heard' = [heard EXCEPT ![s] = @ \cup {price}]
    /\ stop' = IF Better(stop[s], price)
                THEN [stop EXCEPT ![s].best = price, ![s].stop = StopAt(stop[s], price)]
                ELSE stop
    /\ UNCHANGED stops

Trailed(r, price) ==
    IF Activated(r, price) /\ Better(r, price)
    THEN [r EXCEPT !.best = price, !.stop = StopAt(r, price)] ELSE r

(* update_trailing_stop; it looks at no status, so a stop that was filled  *)
(* or cancelled still follows the price.                                   *)
UpdateTrailingStop(s, price) ==
    /\ s \in stops
    /\ heard' = [heard EXCEPT ![s] = @ \cup {price}]
    /\ stop' = [stop EXCEPT ![s] = Trailed(@, price)]
    /\ UNCHANGED stops

TrailingNext ==
    \E s \in Stops :
        \/ \E side \in Sides, trail \in Trails, activation \in Prices \cup {Unset} :
               CreateTrailingStop(s, side, trail, activation)
        \/ \E price \in Prices : UpdateTrailingStop(s, price)

ManagerInit == Init /\ TrailingInit

ManagerNext ==
    \/ Next /\ UNCHANGED trailingVars
    \/ TrailingNext /\ UNCHANGED vars

ManagerSpec == ManagerInit /\ [][ManagerNext]_managerVars

TrailingTypeOK ==
    /\ stops \subseteq Stops
    /\ stop \in [Stops -> [side : Sides, trail : Trails \cup {1}, activation : Prices \cup {Unset},
                          best : Prices \cup {0, Infinite}, stop : Int]]
    /\ heard \in [Stops -> SUBSET Prices]

(* The stop trails by its amount the best of the prices that were heard on *)
(* the activated side, whatever else the manager did meanwhile, and is not *)
(* set while there is none: the stop only ever tightens.                   *)
TrailsTheBestPrice ==
    \A s \in stops :
        LET r == stop[s]
            counted == {p \in heard[s] : Activated(r, p)}
        IN  IF counted = {} THEN r.stop = Unset
            ELSE \E p \in counted : /\ r.stop = IF r.side = "SELL" THEN p - r.trail ELSE p + r.trail
                                    /\ \A q \in counted : IF r.side = "SELL" THEN q <= p ELSE q >= p

(* The best price of a stop is the extreme of the prices that count, or    *)
(* the one it began with, which every price betters.                       *)
BestOf(r, prices) ==
    LET counted == {p \in prices : Activated(r, p)}
    IN  IF counted = {}
        THEN r.stop = Unset /\ r.best = (IF r.side = "SELL" THEN 0 ELSE Infinite)
        ELSE /\ r.best \in counted /\ r.stop = StopAt(r, r.best)
             /\ \A q \in counted : IF r.side = "SELL" THEN q <= r.best ELSE q >= r.best

TrailInv ==
    /\ TrailingTypeOK
    /\ \A s \in Stops : /\ s \notin stops => heard[s] = {}
                        /\ BestOf(stop[s], heard[s])

ManagerTypeOK == TypeOK /\ TrailingTypeOK

-----------------------------------------------------------------------------
(* What the docstrings promise and the code does not do.                   *)

(* create_oco_order: "When either order fills, the other is automatically  *)
(* cancelled."                                                             *)
OneLegFills ==
    \A g \in Ocos : ~(filled[<<g, "limit">>] >= Quantity /\ filled[<<g, "stop">>] >= Quantity)

(* cancel_order: "Cancel an order."; an order it cancelled stays so unless *)
(* the broker fills that very order.                                       *)
CancelledStaysCancelled ==
    [][\A o \in Ids : status[o] = "cancelled" /\ filled'[o] = filled[o] =>
            status'[o] = "cancelled"]_vars

(* _handle_bracket_fill: "If SL or TP filled, cancel the other"; after one *)
(* exit took the whole quantity the other is not open.                     *)
CompletedBracketStaysClosed ==
    \A b \in Brackets :
        /\ filled[<<b, "sl">>] >= Quantity => status[<<b, "tp">>] # "open"
        /\ filled[<<b, "tp">>] >= Quantity => status[<<b, "sl">>] # "open"

(* get_open_orders: "Get all open orders"; an order that was never         *)
(* cancelled and has something left to fill is one of them.                *)
OpenOrdersAreListed ==
    \A o \in Ids : (Owner(o) \in known /\ status[o] # "cancelled" /\ filled[o] < Quantity) =>
        o \in OpenOrders
=============================================================================
