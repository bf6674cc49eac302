------------------------------- MODULE SelfTrade -------------------------------
(***************************************************************************)
(* SelfTradePrevention of risk/self_trade_prevention.py for one symbol,    *)
(* with the caller that the returned instructions are for: it checks an    *)
(* order, removes or shrinks what it is told to, and adds the order unless *)
(* it is rejected. Orders are entered one at a time, as there is no lock.  *)
(***************************************************************************)
EXTENDS Integers, Sequences

CONSTANTS
    Orders,     \* ids of orders
    Accounts, Strategies,
    PriceLevels, Sizes

SelfTradeConstants == PriceLevels \subseteq Nat /\ Sizes \subseteq Nat \ {0}

VARIABLES
    level,     \* prevention_level
    action,    \* SelfTradeAction
    resting,   \* resting_orders of the symbol
    entering,  \* the order whose check was answered: a sequence of one or none
    answer,    \* what _handle_cross returned, and the resting order it is about
    entered    \* ids of orders so far

stpVars == <<level, action, resting, entering, answer, entered>>

None == "none"
NoAnswer == [kind |-> None, id |-> None]

Levels == {"firm", "group", "account", "strategy"}
Actions == {"cancel_resting", "cancel_new", "cancel_both", "decrement_size"}

OrderRecords ==
    [id : Orders, buys : BOOLEAN, price : PriceLevels, size : Sizes,
     account : Accounts, strategy : Strategies]

Init ==
    /\ level \in Levels /\ action \in Actions
    /\ resting = <<>> /\ entering = <<>> /\ answer = NoAnswer /\ entered = {}

-----------------------------------------------------------------------------
(* _same_entity: a group is told by the strategy as well. *)
SameEntity(a, b) ==
    \/ level = "firm"
    \/ level = "account" /\ a.account = b.account
    \/ level \in {"group", "strategy"} /\ a.strategy = b.strategy

Crosses(a, b) ==
    a.buys # b.buys /\ (IF a.buys THEN a.price >= b.price ELSE a.price <= b.price)

SelfCrosses(a, b) == SameEntity(a, b) /\ Crosses(a, b)

(* check_self_trade: the first resting order that crosses is answered for, *)
(* any others are not.                                                     *)
CheckSelfTrade(o) ==
    LET crossed == {i \in DOMAIN resting : SelfCrosses(o, resting[i])}
    IN  /\ entering = <<>> /\ Orders # entered
        /\ o.id = CHOOSE i \in Orders : i \notin entered
        /\ entering' = <<o>>
        /\ \/ crossed = {} /\ answer' = NoAnswer
           \/ \E i \in crossed :
                /\ \A j \in crossed : i <= j
                /\ answer' = [kind |-> action, id |-> resting[i].id]
        /\ entered' = entered \cup {o.id}
        /\ UNCHANGED <<level, action, resting>>

-----------------------------------------------------------------------------
Places(id) == {i \in DOMAIN resting : resting[i].id = id}

Place(id) == CHOOSE i \in Places(id) : TRUE

Without(i) == SubSeq(resting, 1, i - 1) \o SubSeq(resting, i + 1, Len(resting))

(* remove_resting_order; ids are given once. *)
Removed(id) == IF Places(id) = {} THEN resting ELSE Without(Place(id))

(* The sizes are reduced by the smaller one; what is left of either rests. *)
Decremented(id) ==
    LET i == Place(id)
        new == Head(entering)
        cut == IF resting[i].size <= new.size THEN resting[i].size ELSE new.size
        old == IF resting[i].size = cut THEN Removed(id)
               ELSE [resting EXCEPT ![i].size = @ - cut]
    IN  IF new.size = cut THEN old
        ELSE Append(old, [new EXCEPT !.size = @ - cut])

Follow ==
    /\ entering # <<>>
    /\ \/ answer.kind = None /\ resting' = resting \o entering
       \/ answer.kind = "cancel_resting" /\ resting' = Removed(answer.id) \o entering
       \/ answer.kind = "cancel_new" /\ resting' = resting
       \/ answer.kind = "cancel_both" /\ resting' = Removed(answer.id)
       \/ answer.kind = "decrement_size" /\ resting' = Decremented(answer.id)
    /\ entering' = <<>> /\ answer' = NoAnswer
    /\ UNCHANGED <<level, action, entered>>

(* A resting order is filled or cancelled; so may be, meanwhile, the one   *)
(* an answer is about, except that its size is needed then.                *)
RestingLeaves ==
    /\ \E i \in DOMAIN resting :
         /\ ~(answer.kind = "decrement_size" /\ answer.id = resting[i].id)
         /\ resting' = Removed(resting[i].id)
    /\ UNCHANGED <<level, action, entering, answer, entered>>

Next == (\E o \in OrderRecords : CheckSelfTrade(o)) \/ Follow \/ RestingLeaves

Spec == Init /\ [][Next]_stpVars

-----------------------------------------------------------------------------
TypeOK ==
    /\ level \in Levels /\ action \in Actions
    /\ resting \in Seq(OrderRecords) /\ entering \in Seq(OrderRecords)
    /\ answer \in [kind : Actions \cup {None}, id : Orders \cup {None}]
    /\ entered \subseteq Orders

OwnPairs ==
    {p \in (DOMAIN resting) \X (DOMAIN resting) :
        LET bid == resting[p[1]]
            offer == resting[p[2]]
        IN  bid.buys /\ ~offer.buys /\ bid.price >= offer.price /\ SameEntity(bid, offer)}

(* Where a crossing order is rejected no two resting orders of one entity  *)
(* can trade with each other, whatever leaves the book meanwhile.          *)
OwnOrdersApart == action \in {"cancel_new", "cancel_both"} => OwnPairs = {}

(* What the code does not do: the same where the new order is let in after *)
(* the first crossing order was dealt with.                                *)
OwnOrdersAlwaysApart == OwnPairs = {}
=============================================================================
