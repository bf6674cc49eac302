------------------------------- MODULE Arbitrage -------------------------------
(***************************************************************************)
(* core/arbitrage/cross_exchange.py: the scan of CrossExchangeEngine.run,  *)
(* the detector with its cached prices, and the executor, which sends a    *)
(* buy and a sell to two venues at once, waits for both up to a deadline   *)
(* and hedges half of a leg that filled alone.                             *)
(*                                                                         *)
(* A venue may take an order and answer late or never; an order that rests *)
(* there may fill at any later time, for nobody cancels it. Exposure is in *)
(* halves of an order.                                                     *)
(***************************************************************************)
EXTENDS Integers

CONSTANTS
    Venues,
    Quotes,      \* what a venue may quote: records with bid and ask
    Executions,  \* names for the executions of opportunities
    MinProfit    \* least difference of prices worth an execution

ArbitrageConstants ==
    /\ Quotes \subseteq [bid : Nat, ask : Nat] /\ \A q \in Quotes : q.bid < q.ask
    /\ MinProfit \in Nat \ {0}

Legs == {"buy", "sell"}
NoQuote == [bid |-> 0, ask |-> 0]

VARIABLES
    priceCache,  \* price_cache of the symbol
    phase,       \* of an execution: new, waiting, deciding, hedge, done, failed
    venueOf,     \* venue of each leg
    request,     \* the task of a leg: sent, at the venue, its answer, cancelled
    order,       \* the order of a leg at its venue
    hedge,       \* the leg that is hedged
    exposure,    \* halves bought less halves sold, of an execution
    success      \* executions that were reported as executed

arbVars == <<priceCache, phase, venueOf, request, order, hedge, exposure, success>>

Init ==
    /\ priceCache = [v \in Venues |-> NoQuote]
    /\ phase = [e \in Executions |-> "new"]
    /\ venueOf = [e \in Executions |-> [l \in Legs |-> "none"]]
    /\ request = [e \in Executions |-> [l \in Legs |-> "none"]]
    /\ order = [e \in Executions |-> [l \in Legs |-> "none"]]
    /\ hedge = [e \in Executions |-> "none"]
    /\ exposure = [e \in Executions |-> 0]
    /\ success = {}

Signed(l, n) == IF l = "buy" THEN n ELSE -n
Scanning == \A e \in Executions : phase[e] \in {"new", "done", "failed"}

-----------------------------------------------------------------------------
(* _fetch_price: a venue that fails keeps its old entry. *)
FetchPrice(v) ==
    /\ Scanning
    /\ \E q \in Quotes : priceCache' = [priceCache EXCEPT ![v] = q]
    /\ UNCHANGED <<phase, venueOf, request, order, hedge, exposure, success>>

Cached == {v \in Venues : priceCache[v] # NoQuote}
BestBid(v) == v \in Cached /\ \A w \in Cached : priceCache[w].bid <= priceCache[v].bid
BestAsk(v) == v \in Cached /\ \A w \in Cached : priceCache[w].ask >= priceCache[v].ask

(* detect_opportunities and the start of execute. *)
Detect(e, buy, sell) ==
    /\ Scanning /\ phase[e] = "new"
    /\ BestAsk(buy) /\ BestBid(sell)
    /\ priceCache[sell].bid - priceCache[buy].ask >= MinProfit
    /\ phase' = [phase EXCEPT ![e] = "waiting"]
    /\ venueOf' = [venueOf EXCEPT ![e] = [l \in Legs |-> IF l = "buy" THEN buy ELSE sell]]
    /\ request' = [request EXCEPT ![e] = [l \in Legs |-> "sent"]]
    /\ UNCHANGED <<priceCache, order, hedge, exposure, success>>

-----------------------------------------------------------------------------
(* The venues. A cancelled task does not call back what it has sent.       *)
Fill(e, l) ==
    /\ order' = [order EXCEPT ![e][l] = "filled"]
    /\ exposure' = [exposure EXCEPT ![e] = @ + Signed(l, 2)]

VenueTakes(e, l) ==
    /\ request[e][l] \in {"sent", "cancelled"} /\ order[e][l] = "none"
    /\ \/ Fill(e, l)
       \/ order' = [order EXCEPT ![e][l] = "resting"] /\ UNCHANGED exposure
    /\ UNCHANGED <<priceCache, phase, venueOf, request, hedge, success>>

RestingFills(e, l) ==
    /\ order[e][l] = "resting" /\ Fill(e, l)
    /\ UNCHANGED <<priceCache, phase, venueOf, request, hedge, success>>

(* The answer says what the order was when the venue took it.              *)
Answers(e, l) ==
    /\ request[e][l] = "sent" /\ order[e][l] # "none"
    /\ \E a \in {order[e][l], "resting"} : request' = [request EXCEPT ![e][l] = a]
    /\ UNCHANGED <<priceCache, phase, venueOf, order, hedge, exposure, success>>

RequestFails(e, l) ==
    /\ request[e][l] = "sent"
    /\ request' = [request EXCEPT ![e][l] = "failed"]
    /\ UNCHANGED <<priceCache, phase, venueOf, order, hedge, exposure, success>>

-----------------------------------------------------------------------------
(* asyncio.wait returns, with both tasks done or at its deadline. *)
WaitEnds(e) ==
    /\ phase[e] = "waiting"
    /\ phase' = [phase EXCEPT ![e] = "deciding"]
    /\ request' = [request EXCEPT ![e] =
         [l \in Legs |-> IF @[l] = "sent" THEN "cancelled" ELSE @[l]]]
    /\ UNCHANGED <<priceCache, venueOf, order, hedge, exposure, success>>

Matched_OneLeg(e) == \E l \in Legs : request[e][l] = "filled"

Matched(e) == \A l \in Legs : request[e][l] = "filled"

(* A leg is hedged when the other one has no answer; an answer of an order *)
(* that rests counts as one.                                               *)
FilledAlone(e, l) ==
    request[e][l] = "filled" /\ \A k \in Legs \ {l} : request[e][k] = "cancelled"

Decide(e) ==
    LET raised == \E l \in Legs : request[e][l] = "failed"
    IN  /\ phase[e] = "deciding"
        /\ success' = IF ~raised /\ Matched(e) THEN success \cup {e} ELSE success
        /\ \/ /\ ~raised /\ ~Matched(e)
              /\ \E l \in Legs : FilledAlone(e, l) /\ hedge' = [hedge EXCEPT ![e] = l]
              /\ phase' = [phase EXCEPT ![e] = "hedging"]
           \/ /\ raised \/ Matched(e) \/ \A l \in Legs : ~FilledAlone(e, l)
              /\ phase' = [phase EXCEPT ![e] = IF raised THEN "failed" ELSE "done"]
              /\ UNCHANGED hedge
    /\ UNCHANGED <<priceCache, venueOf, request, order, exposure>>

(* _emergency_hedge: half the size at the market, or an error. *)
HedgeSize == 1

EmergencyHedge(e) ==
    /\ phase[e] = "hedging"
    /\ \/ /\ exposure' = [exposure EXCEPT ![e] = @ - Signed(hedge[e], HedgeSize)]
          /\ phase' = [phase EXCEPT ![e] = "done"]
       \/ phase' = [phase EXCEPT ![e] = "failed"] /\ UNCHANGED exposure
    /\ UNCHANGED <<priceCache, venueOf, request, order, hedge, success>>

Next ==
    \/ \E v \in Venues : FetchPrice(v)
    \/ \E e \in Executions : \E buy, sell \in Venues : Detect(e, buy, sell)
    \/ \E e \in Executions, l \in Legs :
         VenueTakes(e, l) \/ RestingFills(e, l) \/ Answers(e, l) \/ RequestFails(e, l)
    \/ \E e \in Executions : WaitEnds(e) \/ Decide(e) \/ EmergencyHedge(e)

Spec == Init /\ [][Next]_arbVars

-----------------------------------------------------------------------------
TypeOK ==
    /\ priceCache \in [Venues -> Quotes \cup {NoQuote}]
    /\ phase \in [Executions -> {"new", "waiting", "deciding", "hedging", "done", "failed"}]
    /\ venueOf \in [Executions -> [Legs -> Venues \cup {"none"}]]
    /\ request \in [Executions -> [Legs ->
         {"none", "sent", "filled", "resting", "failed", "cancelled"}]]
    /\ order \in [Executions -> [Legs -> {"none", "resting", "filled"}]]
    /\ hedge \in [Executions -> Legs \cup {"none"}]
    /\ exposure \in [Executions -> Int] /\ success \subseteq Executions

(* An execution that is counted as a profit is flat and stays so, and its  *)
(* legs went to two venues. Whatever comes late, no execution ever stands  *)
(* with more than one leg open.                                            *)
ExecutionsStayFlat ==
    /\ \A e \in success : exposure[e] = 0 /\ venueOf[e]["buy"] # venueOf[e]["sell"]
    /\ \A e \in Executions : exposure[e] \in (-2)..2

(* What the code does not do: a finished execution is flat but for the     *)
(* half that is left of a hedged leg.                                      *)
FinishedIsHedged == \A e \in Executions : phase[e] = "done" => exposure[e] \in {-1, 0, 1}

-----------------------------------------------------------------------------
(* ExecutionsStayFlat for any venues, quotes and executions.  The exposure *)
(* is that of the orders that were filled, less what a hedge took back,    *)
(* and a leg that was answered as filled is filled.                        *)
Net(o) == (IF o["buy"] = "filled" THEN 2 ELSE 0) - (IF o["sell"] = "filled" THEN 2 ELSE 0)

Hedged(e) ==
    /\ phase[e] = "done" /\ hedge[e] \in Legs /\ order[e][hedge[e]] = "filled"
    /\ exposure[e] = Net(order[e]) - Signed(hedge[e], HedgeSize)

Execution(e) ==
    /\ exposure[e] = Net(order[e]) \/ Hedged(e)
    /\ \A l \in Legs : request[e][l] = "filled" => order[e][l] = "filled"
    /\ phase[e] = "hedging" =>
         /\ exposure[e] = Net(order[e])
         /\ hedge[e] \in Legs /\ order[e][hedge[e]] = "filled"
    /\ phase[e] \in {"new", "waiting", "deciding"} => exposure[e] = Net(order[e])
    /\ phase[e] # "new" => venueOf[e]["buy"] # venueOf[e]["sell"]
    /\ e \in success => phase[e] = "done" /\ Matched(e) /\ exposure[e] = Net(order[e])

IInv == TypeOK /\ \A e \in Executions : Execution(e)
=============================================================================
