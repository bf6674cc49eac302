---------------------------- MODULE OrderLifecycle ----------------------------
(***************************************************************************)
(* OrderLifecycleManager of execution/oms.py: the table of orders, the     *)
(* transition table every status change goes through, the asynchronous     *)
(* submission task, fills, cancel requests and the expiry sweep.           *)
(*                                                                         *)
(* A method of the manager runs to its end without an await, so each is    *)
(* one step; the only coroutine, _async_submit, sleeps between the step    *)
(* that schedules it (SubmitOrder) and the step that answers (Accept or    *)
(* Reject), and everything else may happen in between.                     *)
(***************************************************************************)
EXTENDS Integers, Sequences, FiniteSets

CONSTANTS
    Orders,      \* order ids (uuid4 in the code)
    Quantities,  \* quantities of orders and of fills
    Prices       \* limit prices and fill prices

\* Orders are for a positive amount and prices are positive.
ASSUME QuantitiesAssumption == Quantities \subseteq Nat \ {0}
ASSUME PricesAssumption == Prices \subseteq Nat \ {0}

VARIABLES
    orders,      \* self.orders: id -> Order
    active,      \* self.active_orders
    submitting,  \* orders whose _async_submit task has not finished
    due          \* orders whose expires_at lies in the past

vars == <<orders, active, submitting, due>>

-----------------------------------------------------------------------------
(* Statuses and the transition table. *)

Status == {"CREATED", "PENDING_NEW", "NEW", "PARTIALLY_FILLED", "FILLED",
           "PENDING_CANCEL", "CANCELLED", "REJECTED", "EXPIRED"}

(* Names with an underscore are faults a change of the code could bring in; *)
(* nothing uses them but the checks that a property would notice.          *)
ValidTransitions_CancelInFlight(current) ==
    CASE current = "CREATED"          -> {"PENDING_NEW", "CANCELLED"}
      [] current = "PENDING_NEW"      -> {"NEW", "REJECTED", "CANCELLED", "PENDING_CANCEL"}
      [] current = "NEW"              -> {"PARTIALLY_FILLED", "FILLED", "PENDING_CANCEL", "EXPIRED"}
      [] current = "PARTIALLY_FILLED" -> {"FILLED", "PENDING_CANCEL"}
      [] current = "PENDING_CANCEL"   -> {"CANCELLED", "FILLED", "NEW", "REJECTED"}
      [] OTHER                        -> {}

ValidTransitions_NoExpiry(current) ==
    CASE current = "CREATED"          -> {"PENDING_NEW", "CANCELLED"}
      [] current = "PENDING_NEW"      -> {"NEW", "REJECTED", "CANCELLED"}
      [] current = "NEW"              -> {"PARTIALLY_FILLED", "FILLED", "PENDING_CANCEL"}
      [] current = "PARTIALLY_FILLED" -> {"FILLED", "PENDING_CANCEL"}
      [] current = "PENDING_CANCEL"   -> {"CANCELLED", "FILLED"}
      [] OTHER                        -> {}

ValidTransitions(current) ==
    CASE current = "CREATED"          -> {"PENDING_NEW", "CANCELLED"}
      [] current = "PENDING_NEW"      -> {"NEW", "REJECTED", "CANCELLED"}
      [] current = "NEW"              -> {"PARTIALLY_FILLED", "FILLED", "PENDING_CANCEL", "EXPIRED"}
      [] current = "PARTIALLY_FILLED" -> {"FILLED", "PENDING_CANCEL"}
      [] current = "PENDING_CANCEL"   -> {"CANCELLED", "FILLED"}
      [] OTHER                        -> {}

Terminal == {"CANCELLED", "FILLED", "REJECTED", "EXPIRED"}

IsActive(r) == r.status \in {"PENDING_NEW", "NEW", "PARTIALLY_FILLED", "PENDING_CANCEL"}

(* One entry of order_history: the statuses and the fill in its context.   *)
Event == [from : Status, to : Status, fill : Nat]

(* An Order: limit is its price, Unlimited unless the type is LIMIT;       *)
(* expires says that expires_at is set; value is filled_quantity times     *)
(* avg_fill_price; log has the entries of order_history with its id.       *)
Unlimited == 0

Order == [status : Status, side : {"BUY", "SELL"}, quantity : Nat \ {0},
          limit : Prices \cup {Unlimited}, expires : BOOLEAN,
          filled : Nat, value : Nat, log : Seq(Event)]

NewOrder(side, quantity, limit, expires) ==
    [status |-> "CREATED", side |-> side, quantity |-> quantity,
     limit |-> limit, expires |-> expires, filled |-> 0, value |-> 0, log |-> << >>]

-----------------------------------------------------------------------------
(* What the methods do to one order. *)

CanMove(r, new) == new \in ValidTransitions(r.status)

(* _transition: an invalid transition is refused and leaves no trace.      *)
Moved(r, new, fill) ==
    IF CanMove(r, new)
    THEN [r EXCEPT !.status = new,
                   !.log = Append(@, [from |-> r.status, to |-> new, fill |-> fill])]
    ELSE r

Remaining(r) == r.quantity - r.filled

WithinLimit(r, price) ==
    r.limit # Unlimited => IF r.side = "BUY" THEN price <= r.limit ELSE price >= r.limit

CanFill_AnyQuantity(r, qty, price) ==
    r.status \in {"NEW", "PARTIALLY_FILLED"} /\ WithinLimit(r, price)

CanFill_SameCheckForSell(r, qty, price) ==
    /\ r.status \in {"NEW", "PARTIALLY_FILLED"}
    /\ qty <= Remaining(r)
    /\ r.limit # Unlimited => price <= r.limit

CanFill(r, qty, price) ==
    /\ r.status \in {"NEW", "PARTIALLY_FILLED"}
    /\ qty <= Remaining(r)
    /\ WithinLimit(r, price)

FillStatus_OffByOne(r, qty) ==
    IF r.filled + qty > r.quantity THEN "FILLED" ELSE "PARTIALLY_FILLED"

FillStatus(r, qty) ==
    IF r.filled + qty >= r.quantity THEN "FILLED" ELSE "PARTIALLY_FILLED"

(* fill_order books the fill before it asks for the transition, and keeps  *)
(* it when the transition is refused.                                      *)
Booked_WrongSign(r, qty, price) ==
    Moved([r EXCEPT !.filled = @ - qty, !.value = @ + qty * price],
          FillStatus(r, qty), qty)

Booked(r, qty, price) ==
    Moved([r EXCEPT !.filled = @ + qty, !.value = @ + qty * price],
          FillStatus(r, qty), qty)

With(f, o, r) == [x \in DOMAIN f \cup {o} |-> IF x = o THEN r ELSE f[x]]

-----------------------------------------------------------------------------
Init ==
    /\ orders = [o \in {} |-> NewOrder("BUY", 0, Unlimited, FALSE)]
    /\ active = {}
    /\ submitting = {}
    /\ due = {}

(* create_order also asks for a transition to CREATED, which no status     *)
(* allows: it is refused.                                                  *)
CreateOrder(o, side, quantity, limit, expires) ==
    /\ o \notin DOMAIN orders
    /\ orders' = With(orders, o, Moved(NewOrder(side, quantity, limit, expires), "CREATED", 0))
    /\ UNCHANGED <<active, submitting, due>>

SubmitOrder_NoTask(o) ==
    /\ CanMove(orders[o], "PENDING_NEW")
    /\ orders' = [orders EXCEPT ![o] = Moved(@, "PENDING_NEW", 0)]
    /\ UNCHANGED <<active, submitting, due>>

SubmitOrder(o) ==
    /\ CanMove(orders[o], "PENDING_NEW")
    /\ orders' = [orders EXCEPT ![o] = Moved(@, "PENDING_NEW", 0)]
    /\ submitting' = submitting \cup {o}
    /\ UNCHANGED <<active, due>>

(* The two outcomes of _async_submit; the 5% draw is a free choice.        *)
Reject(o) ==
    /\ o \in submitting
    /\ orders' = [orders EXCEPT ![o] = Moved(@, "REJECTED", 0)]
    /\ submitting' = submitting \ {o}
    /\ UNCHANGED <<active, due>>

Accept(o) ==
    /\ o \in submitting
    /\ orders' = [orders EXCEPT ![o] = Moved(@, "NEW", 0)]
    /\ active' = active \cup {o}
    /\ submitting' = submitting \ {o}
    /\ UNCHANGED due

FillOrder_StaysInBook(o, qty, price) ==
    /\ CanFill(orders[o], qty, price)
    /\ orders' = [orders EXCEPT ![o] = Booked(@, qty, price)]
    /\ UNCHANGED <<active, submitting, due>>

FillOrder(o, qty, price) ==
    /\ CanFill(orders[o], qty, price)
    /\ orders' = [orders EXCEPT ![o] = Booked(@, qty, price)]
    /\ active' = IF FillStatus(orders[o], qty) = "FILLED" THEN active \ {o} ELSE active
    /\ UNCHANGED <<submitting, due>>

CancelOrder(o) ==
    /\ IsActive(orders[o])
    /\ orders' = [orders EXCEPT ![o] = Moved(@, "PENDING_CANCEL", 0)]
    /\ UNCHANGED <<active, submitting, due>>

(* The clock passes expires_at.                                            *)
ComeDue(o) ==
    /\ orders[o].expires
    /\ due' = due \cup {o}
    /\ UNCHANGED <<orders, active, submitting>>

(* expire_orders: every tracked order that is due is asked to expire and   *)
(* is dropped from active_orders whether or not it did.                    *)
ExpireOrders ==
    /\ active \cap due # {}
    /\ orders' = [o \in DOMAIN orders |->
           IF o \in active \cap due THEN Moved(orders[o], "EXPIRED", 0) ELSE orders[o]]
    /\ active' = active \ due
    /\ UNCHANGED <<submitting, due>>

Create ==
    \E o \in Orders, side \in {"BUY", "SELL"}, quantity \in Quantities,
       limit \in Prices \cup {Unlimited}, expires \in BOOLEAN :
        CreateOrder(o, side, quantity, limit, expires)

Fill(o) ==
    \E qty \in Quantities, price \in Prices : FillOrder(o, qty, price)

Next ==
    \/ Create
    \/ \E o \in DOMAIN orders :
        \/ SubmitOrder(o)
        \/ Reject(o)
        \/ Accept(o)
        \/ Fill(o)
        \/ CancelOrder(o)
        \/ ComeDue(o)
    \/ ExpireOrders

Spec == Init /\ [][Next]_vars

(* asyncio finishes the submission tasks and the owner of the manager      *)
(* keeps sweeping; nobody is obliged to create, fill or cancel.            *)
Fairness ==
    /\ \A o \in Orders : WF_vars(o \in DOMAIN orders /\ (Reject(o) \/ Accept(o)))
    /\ WF_vars(ExpireOrders)

FairSpec == Spec /\ Fairness

-----------------------------------------------------------------------------
(* The fields and the three sets keep the shape the class declares.        *)
TypeOK ==
    /\ DOMAIN orders \subseteq Orders
    /\ \A o \in DOMAIN orders : orders[o] \in Order
    /\ active \subseteq DOMAIN orders
    /\ submitting \subseteq DOMAIN orders
    /\ due \subseteq DOMAIN orders

(* Fills never add up to more than the order asked for, and an order is    *)
(* FILLED exactly when they add up to it: fill_order can book a fill whose *)
(* transition is then refused, and this says that it is never the last.    *)
FilledMeansComplete ==
    \A o \in DOMAIN orders :
        /\ orders[o].filled <= orders[o].quantity
        /\ orders[o].status = "FILLED" <=> orders[o].filled = orders[o].quantity

(* However many fills were averaged, the average price of a limit order is *)
(* no worse than its limit.                                                *)
AverageWithinLimit ==
    \A o \in DOMAIN orders : orders[o].limit # Unlimited =>
        IF orders[o].side = "BUY"
        THEN orders[o].value <= orders[o].limit * orders[o].filled
        ELSE orders[o].value >= orders[o].limit * orders[o].filled

(* active_orders, from which get_order_book builds the book, has every     *)
(* order that is NEW and none whose life is over or not begun, whatever    *)
(* order answers, fills, cancels and sweeps come in.                       *)
BookMatchesStatus ==
    \A o \in DOMAIN orders :
        /\ orders[o].status = "NEW" => o \in active
        /\ o \in active =>
               orders[o].status \in {"NEW", "PARTIALLY_FILLED", "PENDING_CANCEL"}

(* A submission is answered once: the task runs exactly while its order is *)
(* PENDING_NEW, so no late answer revives an order that moved on.          *)
AnswerPending ==
    \A o \in DOMAIN orders : o \in submitting <=> orders[o].status = "PENDING_NEW"

(* An order that ended keeps its status and its fills: no late fill,       *)
(* answer, cancel or sweep changes it.                                     *)
EndedStaysPut ==
    [][\A o \in DOMAIN orders : orders[o].status \in Terminal => orders'[o] = orders[o]]_vars

(* After a cancel request is accepted the order takes no further fill.     *)
NoFillAfterCancel ==
    [][\A o \in DOMAIN orders : orders[o].status = "PENDING_CANCEL" =>
            orders'[o].filled = orders[o].filled]_vars

StatusOf(o) == IF o \in DOMAIN orders THEN orders[o].status ELSE "ABSENT"

(* A submitted order is accepted or rejected.                              *)
SubmissionAnswered ==
    \A o \in Orders : StatusOf(o) = "PENDING_NEW" ~> StatusOf(o) # "PENDING_NEW"

(* A NEW order whose time is over leaves that status.                      *)
NewOrderExpires ==
    \A o \in Orders : (o \in due /\ StatusOf(o) = "NEW") ~> StatusOf(o) # "NEW"

-----------------------------------------------------------------------------
(* The phase of OrderPromise that the strategy sees is a function of the   *)
(* nine statuses.                                                          *)

PhaseOf(status) ==
    CASE status \in {"CREATED", "PENDING_NEW"}      -> "idle"
      [] status \in {"NEW", "PARTIALLY_FILLED"}     -> "working"
      [] OTHER                                      -> "closed"

SeenPhase  == [o \in Orders |-> IF o \in DOMAIN orders THEN PhaseOf(orders[o].status) ELSE "absent"]
SeenWanted == [o \in Orders |-> IF o \in DOMAIN orders THEN orders[o].quantity ELSE 0]
SeenGot    == [o \in Orders |-> IF o \in DOMAIN orders THEN orders[o].filled ELSE 0]

Promise == INSTANCE OrderPromise WITH phase <- SeenPhase, wanted <- SeenWanted, got <- SeenGot

(* Every behaviour of the manager is one the promise allows: a refused     *)
(* transition, a fill after the sweep or an answer that crosses a cancel   *)
(* never shows the strategy a step it was promised not to see.             *)
KeepsPromise == Promise!Spec

-----------------------------------------------------------------------------
(* What the comments promise and the code does not do.                     *)

FillsIn(log) == LET Total[i \in 0..Len(log)] ==
                        IF i = 0 THEN 0 ELSE Total[i - 1] + log[i].fill
                IN  Total[Len(log)]

(* The class "Ensures valid state transitions and audit logging": the      *)
(* fills in the history add up to the filled quantity.                     *)
AuditComplete ==
    \A o \in DOMAIN orders : FillsIn(orders[o].log) = orders[o].filled

(* expire_orders is to "Expire GTD and DAY orders": an order it took out   *)
(* of the book takes no fill any more.                                     *)
NoFillAfterSweep ==
    [][\A o \in DOMAIN orders : (o \in due \ active /\ o \notin submitting
            /\ orders[o].status # "CREATED") => orders'[o].filled = orders[o].filled]_vars

(* PENDING_CANCEL leads to CANCELLED or FILLED in the table: a requested   *)
(* cancellation is completed.                                              *)
CancelCompletes ==
    \A o \in Orders : StatusOf(o) = "PENDING_CANCEL" ~> StatusOf(o) \in Terminal
=============================================================================
