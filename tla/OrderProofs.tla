------------------------------ MODULE OrderProofs ------------------------------
(***************************************************************************)
(* Proofs about the orders of execution/oms.py, for every set of orders,   *)
(* quantities and prices. First OrderLifecycle: its safety properties,     *)
(* whose conjunction is inductive (that a late answer finds its order      *)
(* PENDING_NEW, AnswerPending, is what makes Accept keep the book and the  *)
(* statuses together), and, from that invariant, that it implements        *)
(* OrderPromise. Then ComplexOrders, the groups tied by callbacks.         *)
(***************************************************************************)
EXTENDS ComplexOrders, FiniteSetTheorems, TLAPS

-----------------------------------------------------------------------------
IInv == TypeOK /\ FilledMeansComplete /\ AverageWithinLimit /\ BookMatchesStatus /\ AnswerPending

-----------------------------------------------------------------------------
(* Lemmas about the operators on one order. *)

\* A transition, granted or refused, gives an order and touches only its status and log.
LEMMA MovedOrder ==
    ASSUME NEW r \in Order, NEW new \in Status, NEW fill \in Nat
    PROVE  /\ Moved(r, new, fill) \in Order
           /\ Moved(r, new, fill).status = IF CanMove(r, new) THEN new ELSE r.status
           /\ Moved(r, new, fill).quantity = r.quantity
           /\ Moved(r, new, fill).filled = r.filled
           /\ Moved(r, new, fill).value = r.value
           /\ Moved(r, new, fill).limit = r.limit
           /\ Moved(r, new, fill).side = r.side
<1>1. CASE CanMove(r, new)
  <2> DEFINE e == [from |-> r.status, to |-> new, fill |-> fill]
  <2>1. e \in Event
    BY DEF Event, Order
  <2>2. Append(r.log, e) \in Seq(Event)
    BY <2>1 DEF Order
  <2> QED
    BY <1>1, <2>2 DEF Moved, Order
<1>2. CASE ~CanMove(r, new)
  BY <1>2 DEF Moved
<1> QED
  BY <1>1, <1>2

\* A booked fill gives an order with the fill added, FILLED if and only if it is complete.
LEMMA BookedOrder ==
    ASSUME NEW r \in Order, NEW qty \in Quantities, NEW price \in Prices,
           CanFill(r, qty, price)
    PROVE  /\ Booked(r, qty, price) \in Order
           /\ Booked(r, qty, price).status = FillStatus(r, qty)
           /\ Booked(r, qty, price).quantity = r.quantity
           /\ Booked(r, qty, price).filled = r.filled + qty
           /\ Booked(r, qty, price).value = r.value + qty * price
           /\ Booked(r, qty, price).limit = r.limit
           /\ Booked(r, qty, price).side = r.side
<1> DEFINE cost == qty * price
           c == [r EXCEPT !.filled = @ + qty]
           b == [r EXCEPT !.filled = @ + qty, !.value = @ + qty * price]
<1>1. qty \in Nat /\ price \in Nat /\ cost \in Nat
  <2>1. qty \in Nat /\ price \in Nat
    BY QuantitiesAssumption, PricesAssumption
  <2> QED
    BY <2>1
<1>0. /\ c \in Order /\ c.status = r.status /\ c.quantity = r.quantity
      /\ c.filled = r.filled + qty /\ c.value = r.value /\ c.limit = r.limit
      /\ c.side = r.side /\ b = [c EXCEPT !.value = @ + cost]
  BY <1>1 DEF Order
<1> HIDE DEF b, c, cost
<1>2. b \in Order
  <2> DEFINE v == c.value + cost
  <2>1. v \in Nat
    BY <1>0, <1>1 DEF Order
  <2>2. b = [c EXCEPT !.value = v]
    BY <1>0
  <2> HIDE DEF v
  <2> QED
    BY <1>0, <2>1, <2>2 DEF Order
<1>7. /\ b.status = r.status /\ b.quantity = r.quantity /\ b.filled = r.filled + qty
      /\ b.value = r.value + cost /\ b.limit = r.limit /\ b.side = r.side
  BY <1>0, <1>1 DEF Order
<1>3. FillStatus(r, qty) \in Status
  BY DEF FillStatus, Status
<1>4. Booked(r, qty, price) = Moved(b, FillStatus(r, qty), qty)
  BY DEF Booked, b
<1>5. CanMove(b, FillStatus(r, qty)) \/ FillStatus(r, qty) = r.status
  BY <1>7 DEF CanFill, CanMove, FillStatus, ValidTransitions
<1>6. Moved(b, FillStatus(r, qty), qty).status = FillStatus(r, qty)
  BY <1>1, <1>2, <1>3, <1>5, <1>7, MovedOrder
<1> QED
  BY <1>1, <1>2, <1>3, <1>4, <1>6, <1>7, MovedOrder DEF cost

\* A fill at a price within the limit keeps the average within it.
LEMMA AverageStep ==
    ASSUME NEW r \in Order, NEW qty \in Quantities, NEW price \in Prices,
           CanFill(r, qty, price), r.limit # Unlimited
    PROVE  /\ r.side = "BUY" /\ r.value <= r.limit * r.filled
                => r.value + qty * price <= r.limit * (r.filled + qty)
           /\ r.side # "BUY" /\ r.value >= r.limit * r.filled
                => r.value + qty * price >= r.limit * (r.filled + qty)
<1>1. /\ qty \in Nat /\ price \in Nat /\ r.limit \in Nat
      /\ r.filled \in Nat /\ r.value \in Nat
  BY QuantitiesAssumption, PricesAssumption DEF Order
<1>2. r.limit * (r.filled + qty) = r.limit * r.filled + r.limit * qty
  BY <1>1
<1>3. r.side = "BUY" => qty * price <= r.limit * qty
  BY <1>1 DEF CanFill, WithinLimit
<1>4. r.side # "BUY" => qty * price >= r.limit * qty
  BY <1>1 DEF CanFill, WithinLimit
<1>5. qty * price \in Nat /\ r.limit * qty \in Nat /\ r.limit * r.filled \in Nat
  BY <1>1
<1> DEFINE a == qty * price  bq == r.limit * qty  c == r.limit * r.filled
<1> HIDE DEF a, bq, c
<1>6. /\ r.side = "BUY" /\ r.value <= c => r.value + a <= c + bq
      /\ r.side # "BUY" /\ r.value >= c => r.value + a >= c + bq
  BY <1>1, <1>3, <1>4, <1>5 DEF a, bq, c
<1> QED
  BY <1>2, <1>6 DEF a, bq, c
-----------------------------------------------------------------------------
(* The invariant, order by order. *)

GoodOrder(o, r, book, flight) ==
    /\ r \in Order
    /\ r.filled <= r.quantity
    /\ r.status = "FILLED" <=> r.filled = r.quantity
    /\ r.limit # Unlimited => IF r.side = "BUY" THEN r.value <= r.limit * r.filled
                                               ELSE r.value >= r.limit * r.filled
    /\ r.status = "NEW" => o \in book
    /\ o \in book => r.status \in {"NEW", "PARTIALLY_FILLED", "PENDING_CANCEL"}
    /\ o \in flight <=> r.status = "PENDING_NEW"

Sets ==
    /\ DOMAIN orders \subseteq Orders
    /\ active \subseteq DOMAIN orders
    /\ submitting \subseteq DOMAIN orders
    /\ due \subseteq DOMAIN orders

AllGood == \A o \in DOMAIN orders : GoodOrder(o, orders[o], active, submitting)

\* The invariant is the same condition on every order and the shape of the sets, now and next.
LEMMA OrderByOrder ==
    /\ IInv <=> Sets /\ AllGood
    /\ IInv' <=> Sets' /\ AllGood'
BY DEF IInv, TypeOK, FilledMeansComplete, AverageWithinLimit, BookMatchesStatus,
       AnswerPending, Sets, AllGood, GoodOrder

\* A transition that is not to FILLED keeps an order good, wherever it is tracked next.
LEMMA MovedGood ==
    ASSUME NEW o, NEW r, NEW book, NEW flight, GoodOrder(o, r, book, flight),
           NEW new \in Status \ {"FILLED"}, NEW bookNext, NEW flightNext,
           LET s == IF CanMove(r, new) THEN new ELSE r.status IN
           /\ s = "NEW" => o \in bookNext
           /\ o \in bookNext => s \in {"NEW", "PARTIALLY_FILLED", "PENDING_CANCEL"}
           /\ o \in flightNext <=> s = "PENDING_NEW"
    PROVE  GoodOrder(o, Moved(r, new, 0), bookNext, flightNext)
<1> DEFINE m == Moved(r, new, 0)
<1>1. r \in Order /\ new \in Status
  BY DEF GoodOrder
<1>2. /\ m \in Order
      /\ m.status = IF CanMove(r, new) THEN new ELSE r.status
      /\ m.quantity = r.quantity /\ m.filled = r.filled /\ m.value = r.value
      /\ m.limit = r.limit /\ m.side = r.side
  BY <1>1, MovedOrder
<1>3. CanMove(r, new) => r.status # "FILLED"
  BY DEF CanMove, ValidTransitions
<1> HIDE DEF m
<1>4. GoodOrder(o, m, bookNext, flightNext)
  BY <1>2, <1>3 DEF GoodOrder
<1> QED
  BY <1>4 DEF m

-----------------------------------------------------------------------------
(* One lemma per action. *)

\* A created order is good: its transition to CREATED is refused.
LEMMA CreateStep == ASSUME IInv, Create PROVE IInv'
<1>1. PICK o \in Orders, side \in {"BUY", "SELL"}, quantity \in Quantities,
           limit \in Prices \cup {Unlimited}, expires \in BOOLEAN :
        CreateOrder(o, side, quantity, limit, expires)
  BY DEF Create
<1> DEFINE r == NewOrder(side, quantity, limit, expires)
<1>2. Sets /\ AllGood
  BY OrderByOrder
<1>3. quantity \in Nat \ {0} /\ (limit # Unlimited => limit \in Nat)
  BY QuantitiesAssumption, PricesAssumption
<1>4. r \in Order
  BY <1>3 DEF NewOrder, Order, Status
<1>5. o \notin active /\ o \notin submitting
  BY <1>1, <1>2 DEF CreateOrder, Sets
<1>6. GoodOrder(o, r, active, submitting)
  BY <1>3, <1>4, <1>5 DEF NewOrder, GoodOrder
<1>7. Moved(r, "CREATED", 0) = r
  BY DEF Moved, CanMove, ValidTransitions, NewOrder
<1> HIDE DEF r
<1>8. /\ DOMAIN orders' = DOMAIN orders \cup {o} /\ orders'[o] = r
      /\ \A x \in DOMAIN orders : orders'[x] = orders[x]
      /\ UNCHANGED <<active, submitting, due>>
  BY <1>1, <1>7 DEF CreateOrder, With, r
<1>9. AllGood'
  BY <1>2, <1>6, <1>8 DEF AllGood
<1>10. Sets'
  BY <1>2, <1>8 DEF Sets
<1> QED
  BY <1>9, <1>10, OrderByOrder

\* The shape of a step that gives one order a new record.
LEMMA OneOrderStep ==
    ASSUME IInv, NEW o \in DOMAIN orders, NEW r,
           orders' = [orders EXCEPT ![o] = r],
           GoodOrder(o, r, active', submitting'),
           active' \subseteq DOMAIN orders, submitting' \subseteq DOMAIN orders,
           due' \subseteq DOMAIN orders,
           active' \ {o} = active \ {o}, submitting' \ {o} = submitting \ {o}
    PROVE  IInv'
<1>1. Sets /\ AllGood
  BY OrderByOrder
<1>2. DOMAIN orders' = DOMAIN orders /\ orders'[o] = r
  OBVIOUS
<1>3. ASSUME NEW x \in DOMAIN orders, x # o
      PROVE  GoodOrder(x, orders'[x], active', submitting')
  <2>1. /\ orders'[x] = orders[x]
        /\ x \in active' <=> x \in active
        /\ x \in submitting' <=> x \in submitting
    BY <1>3
  <2> QED
    BY <1>1, <2>1 DEF AllGood, GoodOrder
<1>4. AllGood'
  BY <1>2, <1>3 DEF AllGood
<1>5. Sets'
  BY <1>1, <1>2 DEF Sets
<1> QED
  BY <1>4, <1>5, OrderByOrder

\* Submission makes the order PENDING_NEW and starts the task.
LEMMA SubmitStep == ASSUME IInv, NEW o \in DOMAIN orders, SubmitOrder(o) PROVE IInv'
<1>1. Sets /\ GoodOrder(o, orders[o], active, submitting)
  BY OrderByOrder DEF AllGood
<1>2. orders[o].status = "CREATED"
  BY DEF SubmitOrder, CanMove, ValidTransitions
<1>3. o \notin active /\ o \in submitting' /\ active' = active
  BY <1>1, <1>2 DEF GoodOrder, SubmitOrder
<1>4. GoodOrder(o, Moved(orders[o], "PENDING_NEW", 0), active', submitting')
  BY <1>1, <1>2, <1>3, MovedGood DEF Status, CanMove, ValidTransitions
<1> QED
  BY <1>1, <1>4, OneOrderStep DEF SubmitOrder, Sets

\* A rejection meets its order PENDING_NEW and ends it.
LEMMA RejectStep == ASSUME IInv, NEW o \in DOMAIN orders, Reject(o) PROVE IInv'
<1>1. Sets /\ GoodOrder(o, orders[o], active, submitting)
  BY OrderByOrder DEF AllGood
<1>2. orders[o].status = "PENDING_NEW" /\ o \notin active
  BY <1>1 DEF Reject, GoodOrder
<1>3. o \notin submitting' /\ active' = active
  BY DEF Reject
<1>4. GoodOrder(o, Moved(orders[o], "REJECTED", 0), active', submitting')
  BY <1>1, <1>2, <1>3, MovedGood DEF Status, CanMove, ValidTransitions
<1> QED
  BY <1>1, <1>3, <1>4, OneOrderStep DEF Reject, Sets

\* An acceptance meets its order PENDING_NEW, so it becomes NEW as it enters the book.
LEMMA AcceptStep == ASSUME IInv, NEW o \in DOMAIN orders, Accept(o) PROVE IInv'
<1>1. Sets /\ GoodOrder(o, orders[o], active, submitting)
  BY OrderByOrder DEF AllGood
<1>2. orders[o].status = "PENDING_NEW"
  BY <1>1 DEF Accept, GoodOrder
<1>3. o \notin submitting' /\ o \in active'
  BY DEF Accept
<1>4. GoodOrder(o, Moved(orders[o], "NEW", 0), active', submitting')
  BY <1>1, <1>2, <1>3, MovedGood DEF Status, CanMove, ValidTransitions
<1> QED
  BY <1>1, <1>3, <1>4, OneOrderStep DEF Accept, Sets

\* A cancel request leaves the order tracked, in flight or refused as it was.
LEMMA CancelStep == ASSUME IInv, NEW o \in DOMAIN orders, CancelOrder(o) PROVE IInv'
<1>1. Sets /\ GoodOrder(o, orders[o], active, submitting)
  BY OrderByOrder DEF AllGood
<1>2. active' = active /\ submitting' = submitting
  BY DEF CancelOrder
<1> DEFINE s == IF CanMove(orders[o], "PENDING_CANCEL") THEN "PENDING_CANCEL" ELSE orders[o].status
<1>3. /\ s = "NEW" => o \in active
      /\ o \in active => s \in {"NEW", "PARTIALLY_FILLED", "PENDING_CANCEL"}
      /\ o \in submitting <=> s = "PENDING_NEW"
  BY <1>1 DEF GoodOrder, CanMove, ValidTransitions
<1>4. GoodOrder(o, Moved(orders[o], "PENDING_CANCEL", 0), active', submitting')
  BY <1>1, <1>2, <1>3, MovedGood DEF Status
<1> QED
  BY <1>1, <1>4, OneOrderStep DEF CancelOrder, Sets
\* A fill the order can take is booked within its quantity, at a price within its limit,
\* and takes it out of the book with the last one.
LEMMA FillStep ==
    ASSUME IInv, NEW o \in DOMAIN orders, NEW qty \in Quantities, NEW price \in Prices,
           FillOrder(o, qty, price)
    PROVE  IInv'
<1> DEFINE r == orders[o]  b == Booked(r, qty, price)
<1>1. Sets /\ GoodOrder(o, r, active, submitting)
  BY OrderByOrder DEF AllGood
<1>2. CanFill(r, qty, price) /\ r \in Order /\ qty \in Nat \ {0}
  BY <1>1, QuantitiesAssumption DEF FillOrder, GoodOrder
<1>3. /\ b \in Order
      /\ b.status = FillStatus(r, qty)
      /\ b.quantity = r.quantity /\ b.filled = r.filled + qty
      /\ b.value = r.value + qty * price /\ b.limit = r.limit /\ b.side = r.side
  BY <1>2, BookedOrder
<1>4. r.quantity \in Nat /\ r.filled \in Nat /\ r.filled + qty <= r.quantity
  <2>1. r.quantity \in Nat /\ r.filled \in Nat
    BY <1>2, QuantitiesAssumption DEF Order
  <2>2. qty <= r.quantity - r.filled
    BY <1>2 DEF CanFill, Remaining
  <2> QED
    BY <1>2, <2>1, <2>2
<1>5. b.filled <= b.quantity /\ (b.status = "FILLED" <=> b.filled = b.quantity)
  BY <1>2, <1>3, <1>4 DEF FillStatus
<1>6. b.limit # Unlimited => IF b.side = "BUY" THEN b.value <= b.limit * b.filled
                                                ELSE b.value >= b.limit * b.filled
  BY <1>1, <1>2, <1>3, AverageStep DEF GoodOrder
<1>7. /\ active' = IF FillStatus(r, qty) = "FILLED" THEN active \ {o} ELSE active
      /\ submitting' = submitting /\ due' = due
  BY DEF FillOrder
<1>8. r.status \in {"NEW", "PARTIALLY_FILLED"} /\ FillStatus(r, qty) \in {"FILLED", "PARTIALLY_FILLED"}
  BY <1>2 DEF CanFill, FillStatus
<1>9. o \notin submitting
  BY <1>1, <1>8 DEF GoodOrder
<1> HIDE DEF b
<1>10. GoodOrder(o, b, active', submitting')
  BY <1>3, <1>5, <1>6, <1>7, <1>8, <1>9 DEF GoodOrder
<1>11. orders' = [orders EXCEPT ![o] = b]
  BY DEF FillOrder, b
<1> QED
  BY <1>1, <1>7, <1>10, <1>11, OneOrderStep DEF Sets

\* The clock only adds to the orders that are due.
LEMMA DueStep == ASSUME IInv, NEW o \in DOMAIN orders, ComeDue(o) PROVE IInv'
BY DEF IInv, TypeOK, FilledMeansComplete, AverageWithinLimit, BookMatchesStatus, AnswerPending,
       ComeDue

\* The sweep drops from the book what it asks to expire; a NEW order it drops did expire.
LEMMA ExpireStep == ASSUME IInv, ExpireOrders PROVE IInv'
<1>1. Sets /\ AllGood
  BY OrderByOrder
<1>2. /\ DOMAIN orders' = DOMAIN orders /\ active' = active \ due
      /\ submitting' = submitting /\ due' = due
  BY DEF ExpireOrders
<1>3. ASSUME NEW x \in DOMAIN orders
      PROVE  GoodOrder(x, orders'[x], active', submitting')
  <2>1. GoodOrder(x, orders[x], active, submitting)
    BY <1>1 DEF AllGood
  <2>2. CASE x \in active \cap due
    <3>1. /\ orders'[x] = Moved(orders[x], "EXPIRED", 0) /\ x \notin active'
          /\ x \notin submitting'
      BY <1>2, <2>1, <2>2 DEF ExpireOrders, GoodOrder
    <3>2. orders[x].status \in {"NEW", "PARTIALLY_FILLED", "PENDING_CANCEL"}
      BY <2>1, <2>2 DEF GoodOrder
    <3> QED
      BY <2>1, <3>1, <3>2, MovedGood DEF Status, CanMove, ValidTransitions
  <2>3. CASE x \notin active \cap due
    <3>1. orders'[x] = orders[x] /\ (x \in active' <=> x \in active) /\ submitting' = submitting
      BY <1>2, <2>3 DEF ExpireOrders
    <3> QED
      BY <2>1, <3>1 DEF GoodOrder
  <2> QED
    BY <2>2, <2>3
<1>4. AllGood'
  BY <1>2, <1>3 DEF AllGood
<1>5. Sets'
  BY <1>1, <1>2 DEF Sets
<1> QED
  BY <1>4, <1>5, OrderByOrder

-----------------------------------------------------------------------------
(* The invariance theorem and what follows from it. *)

\* The table of orders is empty at first.
LEMMA Initially == Init => IInv
BY DEF Init, IInv, TypeOK, FilledMeansComplete, AverageWithinLimit, BookMatchesStatus, AnswerPending

\* No step of the manager breaks the invariant.
LEMMA EveryStep == IInv /\ [Next]_vars => IInv'
<1> SUFFICES ASSUME IInv, [Next]_vars PROVE IInv'
  OBVIOUS
<1>1. CASE Create
  BY <1>1, CreateStep
<1>2. ASSUME NEW o \in DOMAIN orders, SubmitOrder(o) PROVE IInv'
  BY <1>2, SubmitStep
<1>3. ASSUME NEW o \in DOMAIN orders, Reject(o) PROVE IInv'
  BY <1>3, RejectStep
<1>4. ASSUME NEW o \in DOMAIN orders, Accept(o) PROVE IInv'
  BY <1>4, AcceptStep
<1>5. ASSUME NEW o \in DOMAIN orders, Fill(o) PROVE IInv'
  BY <1>5, FillStep DEF Fill
<1>6. ASSUME NEW o \in DOMAIN orders, CancelOrder(o) PROVE IInv'
  BY <1>6, CancelStep
<1>7. ASSUME NEW o \in DOMAIN orders, ComeDue(o) PROVE IInv'
  BY <1>7, DueStep
<1>8. CASE ExpireOrders
  BY <1>8, ExpireStep
<1>9. CASE UNCHANGED vars
  BY <1>9 DEF vars, IInv, TypeOK, FilledMeansComplete, AverageWithinLimit, BookMatchesStatus,
       AnswerPending
<1> QED
  BY <1>1, <1>2, <1>3, <1>4, <1>5, <1>6, <1>7, <1>8, <1>9 DEF Next

\* The inductive invariant holds in every reachable state.
THEOREM Invariance == Spec => []IInv
BY Initially, EveryStep, PTL DEF Spec

\* The fields and sets of the manager keep their types.
THEOREM TypeCorrect == Spec => []TypeOK
BY Invariance, PTL DEF IInv

\* Fills never exceed the quantity, and an order is FILLED exactly when they reach it.
THEOREM FillsAddUp == Spec => []FilledMeansComplete
BY Invariance, PTL DEF IInv

\* The average price of a limit order is never worse than its limit.
THEOREM AverageNeverWorse == Spec => []AverageWithinLimit
BY Invariance, PTL DEF IInv

\* The order book has every NEW order and no order that ended or is not accepted yet.
THEOREM BookIsRight == Spec => []BookMatchesStatus
BY Invariance, PTL DEF IInv

\* A submission task runs exactly while its order waits for the answer.
THEOREM AnswersMeetPending == Spec => []AnswerPending
BY Invariance, PTL DEF IInv
-----------------------------------------------------------------------------
(* Action properties. *)

\* No transition leads out of a final status, granted or refused it changes nothing.
LEMMA EndedNotMoved ==
    ASSUME NEW r, NEW new, NEW fill, r.status \in Terminal
    PROVE  Moved(r, new, fill) = r
BY DEF Moved, CanMove, ValidTransitions, Terminal

(* What a step can do to one order: nothing, one request for a transition, *)
(* or one fill.                                                            *)
OneRequest(o) ==
    \/ orders'[o] = orders[o]
    \/ \E new \in Status \ {"FILLED"} : orders'[o] = Moved(orders[o], new, 0)
    \/ \E qty \in Quantities, price \in Prices :
          CanFill(orders[o], qty, price) /\ orders'[o] = Booked(orders[o], qty, price)

\* Every step does one of these to every order, the sweep of many orders included.
LEMMA StepKinds ==
    ASSUME TypeOK, [Next]_vars, NEW o \in DOMAIN orders
    PROVE  OneRequest(o)
<1>1. CASE Create
  BY <1>1 DEF Create, CreateOrder, With, OneRequest
<1>2. ASSUME NEW x \in DOMAIN orders, NEW new \in Status \ {"FILLED"},
             orders' = [orders EXCEPT ![x] = Moved(@, new, 0)]
      PROVE  OneRequest(o)
  <2>1. CASE x = o
    BY <1>2, <2>1 DEF OneRequest
  <2>2. CASE x # o
    BY <1>2, <2>2 DEF OneRequest
  <2> QED
    BY <2>1, <2>2
<1>3. ASSUME NEW x \in DOMAIN orders, SubmitOrder(x) \/ Reject(x) \/ Accept(x) \/ CancelOrder(x)
      PROVE  OneRequest(o)
  <2>1. /\ "PENDING_NEW" \in Status \ {"FILLED"} /\ "REJECTED" \in Status \ {"FILLED"}
        /\ "NEW" \in Status \ {"FILLED"} /\ "PENDING_CANCEL" \in Status \ {"FILLED"}
    BY DEF Status
  <2> QED
    BY <1>2, <1>3, <2>1 DEF SubmitOrder, Reject, Accept, CancelOrder
<1>4. ASSUME NEW x \in DOMAIN orders, NEW qty \in Quantities, NEW price \in Prices,
             FillOrder(x, qty, price)
      PROVE  OneRequest(o)
  <2>1. CASE x = o
    BY <1>4, <2>1 DEF FillOrder, OneRequest
  <2>2. CASE x # o
    BY <1>4, <2>2 DEF FillOrder, OneRequest
  <2> QED
    BY <2>1, <2>2
<1>5. ASSUME NEW x \in DOMAIN orders, ComeDue(x) PROVE OneRequest(o)
  BY <1>5 DEF ComeDue, OneRequest
<1>6. CASE ExpireOrders
  <2>1. "EXPIRED" \in Status \ {"FILLED"}
    BY DEF Status
  <2> QED
    BY <1>6, <2>1 DEF ExpireOrders, OneRequest
<1>7. CASE UNCHANGED vars
  BY <1>7 DEF vars, OneRequest
<1>8. ASSUME NEW x \in DOMAIN orders, Fill(x) PROVE OneRequest(o)
  BY <1>4, <1>8 DEF Fill
<1> QED
  BY <1>1, <1>3, <1>5, <1>6, <1>7, <1>8 DEF Next

\* An order that ended keeps its status, its fills and its history for ever.
THEOREM EndedOrdersStayPut == Spec => EndedStaysPut
<1>1. TypeOK /\ [Next]_vars =>
        [\A o \in DOMAIN orders : orders[o].status \in Terminal => orders'[o] = orders[o]]_vars
  <2> SUFFICES ASSUME TypeOK, [Next]_vars, NEW o \in DOMAIN orders, orders[o].status \in Terminal
               PROVE  orders'[o] = orders[o]
    OBVIOUS
  <2>1. \A qty \in Quantities, price \in Prices : ~CanFill(orders[o], qty, price)
    BY DEF CanFill, Terminal
  <2> QED
    BY <2>1, StepKinds, EndedNotMoved DEF OneRequest
<1> QED
  BY <1>1, TypeCorrect, PTL DEF Spec, EndedStaysPut

\* Once its cancellation is requested an order takes no fill.
THEOREM CancelledOrdersTakeNoFill == Spec => NoFillAfterCancel
<1>1. TypeOK /\ [Next]_vars =>
        [\A o \in DOMAIN orders : orders[o].status = "PENDING_CANCEL" =>
            orders'[o].filled = orders[o].filled]_vars
  <2> SUFFICES ASSUME TypeOK, [Next]_vars, NEW o \in DOMAIN orders,
                      orders[o].status = "PENDING_CANCEL"
               PROVE  orders'[o].filled = orders[o].filled
    OBVIOUS
  <2>1. \A qty \in Quantities, price \in Prices : ~CanFill(orders[o], qty, price)
    BY DEF CanFill
  <2>2. orders[o] \in Order /\ 0 \in Nat
    BY DEF TypeOK
  <2> QED
    BY <2>1, <2>2, StepKinds, MovedOrder DEF OneRequest
<1> QED
  BY <1>1, TypeCorrect, PTL DEF Spec, NoFillAfterCancel

-----------------------------------------------------------------------------
(***************************************************************************)
(* The order manager keeps its promise: OrderLifecycle implements          *)
(* OrderPromise for every set of orders, quantities and prices. Each       *)
(* method shows as one step of the promise or as none; the invariant       *)
(* above says which status it finds its order in.                          *)
(***************************************************************************)
promiseVars == <<SeenPhase, SeenWanted, SeenGot>>

\* When one order gets a record that asks for as much and has got as much,
\* only its phase can be seen to change.
LEMMA PhaseStep ==
    ASSUME TypeOK, NEW o \in DOMAIN orders, NEW r,
           orders' = [orders EXCEPT ![o] = r],
           r.quantity = orders[o].quantity, r.filled = orders[o].filled,
           NEW seen, PhaseOf(r.status) = seen
    PROVE  /\ SeenPhase' = [SeenPhase EXCEPT ![o] = seen]
           /\ UNCHANGED <<SeenWanted, SeenGot>>
<1>1. o \in Orders /\ DOMAIN orders' = DOMAIN orders /\ orders'[o] = r
  BY DEF TypeOK
<1>2. \A x \in DOMAIN orders : x # o => orders'[x] = orders[x]
  OBVIOUS
<1>3. SeenPhase' = [SeenPhase EXCEPT ![o] = seen]
  BY <1>1, <1>2 DEF SeenPhase
<1>4. SeenWanted' = SeenWanted /\ SeenGot' = SeenGot
  BY <1>1, <1>2 DEF SeenWanted, SeenGot
<1> QED
  BY <1>3, <1>4

\* A request that is refused, or that does not change the phase, is not seen.
LEMMA UnseenRequest ==
    ASSUME TypeOK, NEW o \in DOMAIN orders, NEW new \in Status,
           orders' = [orders EXCEPT ![o] = Moved(@, new, 0)],
           CanMove(orders[o], new) => PhaseOf(new) = PhaseOf(orders[o].status)
    PROVE  UNCHANGED promiseVars
<1> DEFINE r == Moved(orders[o], new, 0)
<1>1. orders[o] \in Order /\ o \in Orders
  BY DEF TypeOK
<1>2. /\ r.quantity = orders[o].quantity /\ r.filled = orders[o].filled
      /\ PhaseOf(r.status) = PhaseOf(orders[o].status)
  BY <1>1, MovedOrder
<1> HIDE DEF r
<1>3. orders' = [orders EXCEPT ![o] = r]
  BY DEF r
<1>4. SeenPhase' = [SeenPhase EXCEPT ![o] = PhaseOf(orders[o].status)] /\ UNCHANGED <<SeenWanted, SeenGot>>
  BY <1>2, <1>3, PhaseStep
<1>5. SeenPhase' = SeenPhase
  BY <1>1, <1>4 DEF SeenPhase
<1> QED
  BY <1>4, <1>5 DEF promiseVars

\* A granted request that ends an open order shows as its closing.
LEMMA SeenClosing ==
    ASSUME TypeOK, NEW o \in DOMAIN orders, NEW new \in {"PENDING_CANCEL", "REJECTED"},
           orders' = [orders EXCEPT ![o] = Moved(@, new, 0)],
           CanMove(orders[o], new)
    PROVE  Promise!Next
<1> DEFINE r == Moved(orders[o], new, 0)
<1>1. orders[o] \in Order /\ o \in Orders /\ new \in Status
  BY DEF TypeOK, Status
<1>2. /\ r.quantity = orders[o].quantity /\ r.filled = orders[o].filled
      /\ PhaseOf(r.status) = PhaseOf(new)
  BY <1>1, MovedOrder
<1> HIDE DEF r
<1>3. orders' = [orders EXCEPT ![o] = r]
  BY DEF r
<1>4. SeenPhase' = [SeenPhase EXCEPT ![o] = PhaseOf(new)] /\ UNCHANGED <<SeenWanted, SeenGot>>
  BY <1>2, <1>3, PhaseStep
<1>5. orders[o].status \in {"PENDING_NEW", "NEW", "PARTIALLY_FILLED"} /\ PhaseOf(new) = "closed"
  BY DEF CanMove, ValidTransitions, PhaseOf
<1>6. SeenPhase[o] \in {"idle", "working"}
  BY <1>1, <1>5 DEF SeenPhase, PhaseOf
<1>7. SeenPhase' = [x \in Orders |-> IF x \in {o} THEN "closed" ELSE SeenPhase[x]]
  BY <1>1, <1>4, <1>5 DEF SeenPhase
<1>8. Promise!Close({o})
  BY <1>4, <1>6, <1>7 DEF Promise!Close
<1> QED
  BY <1>1, <1>8 DEF Promise!Next

-----------------------------------------------------------------------------
\* A created order shows as opened.
LEMMA CreateOpens == ASSUME IInv, Create PROVE Promise!Next
<1>1. PICK o \in Orders, side \in {"BUY", "SELL"}, quantity \in Quantities,
           limit \in Prices \cup {Unlimited}, expires \in BOOLEAN :
        CreateOrder(o, side, quantity, limit, expires)
  BY DEF Create
<1> DEFINE r == NewOrder(side, quantity, limit, expires)
<1>2. Moved(r, "CREATED", 0) = r
  BY DEF Moved, CanMove, ValidTransitions, NewOrder
<1>3. r.status = "CREATED" /\ r.quantity = quantity /\ r.filled = 0
  BY DEF NewOrder
<1> HIDE DEF r
<1>4. /\ o \notin DOMAIN orders
      /\ DOMAIN orders' = DOMAIN orders \cup {o} /\ orders'[o] = r
      /\ \A x \in DOMAIN orders : orders'[x] = orders[x]
  BY <1>1, <1>2 DEF CreateOrder, With, r
<1>5. SeenPhase' = [SeenPhase EXCEPT ![o] = "idle"]
  BY <1>3, <1>4 DEF SeenPhase, PhaseOf
<1>6. SeenWanted' = [SeenWanted EXCEPT ![o] = quantity] /\ SeenGot' = SeenGot
  BY <1>3, <1>4 DEF SeenWanted, SeenGot
<1>7. SeenPhase[o] = "absent"
  BY <1>4 DEF SeenPhase
<1>8. Promise!Open(o, quantity)
  BY <1>5, <1>6, <1>7 DEF Promise!Open
<1> QED
  BY <1>8 DEF Promise!Next

\* Submission is not seen: the order is as idle as before.
LEMMA SubmitUnseen ==
    ASSUME IInv, NEW o \in DOMAIN orders, SubmitOrder(o) PROVE UNCHANGED promiseVars
<1>1. orders[o].status = "CREATED"
  BY DEF SubmitOrder, CanMove, ValidTransitions
<1>2. PhaseOf("PENDING_NEW") = PhaseOf(orders[o].status) /\ "PENDING_NEW" \in Status
  BY <1>1 DEF PhaseOf, Status
<1> QED
  BY <1>2, UnseenRequest DEF SubmitOrder, IInv

\* A rejection closes the order it finds PENDING_NEW.
LEMMA RejectCloses == ASSUME IInv, NEW o \in DOMAIN orders, Reject(o) PROVE Promise!Next
<1>1. orders[o].status = "PENDING_NEW"
  BY DEF IInv, AnswerPending, Reject
<1>2. CanMove(orders[o], "REJECTED")
  BY <1>1 DEF CanMove, ValidTransitions
<1> QED
  BY <1>2, SeenClosing DEF Reject, IInv

\* An acceptance makes the order it finds PENDING_NEW work.
LEMMA AcceptWorks == ASSUME IInv, NEW o \in DOMAIN orders, Accept(o) PROVE Promise!Next
<1> DEFINE r == Moved(orders[o], "NEW", 0)
<1>1. orders[o].status = "PENDING_NEW" /\ orders[o] \in Order /\ o \in Orders
  BY DEF IInv, TypeOK, AnswerPending, Accept
<1>2. CanMove(orders[o], "NEW") /\ "NEW" \in Status
  BY <1>1 DEF CanMove, ValidTransitions, Status
<1>3. r.quantity = orders[o].quantity /\ r.filled = orders[o].filled /\ r.status = "NEW"
  BY <1>1, <1>2, MovedOrder
<1> HIDE DEF r
<1>4. orders' = [orders EXCEPT ![o] = r]
  BY DEF Accept, r
<1>5. SeenPhase' = [SeenPhase EXCEPT ![o] = PhaseOf("NEW")] /\ UNCHANGED <<SeenWanted, SeenGot>>
  BY <1>3, <1>4, PhaseStep DEF IInv
<1>6. PhaseOf("NEW") = "working" /\ SeenPhase[o] = "idle"
  BY <1>1 DEF PhaseOf, SeenPhase
<1>7. Promise!Work(o)
  BY <1>5, <1>6 DEF Promise!Work
<1> QED
  BY <1>1, <1>7 DEF Promise!Next

\* A fill shows as taken, and closes the order with the last one.
LEMMA FillTakes ==
    ASSUME IInv, NEW o \in DOMAIN orders, NEW qty \in Quantities, NEW price \in Prices,
           FillOrder(o, qty, price)
    PROVE  Promise!Next
<1> DEFINE r == orders[o]  b == Booked(r, qty, price)
<1>1. r \in Order /\ o \in Orders /\ qty \in Nat \ {0} /\ CanFill(r, qty, price)
  BY QuantitiesAssumption DEF IInv, TypeOK, FillOrder
<1>2. /\ b.status = FillStatus(r, qty) /\ b.quantity = r.quantity /\ b.filled = r.filled + qty
  BY <1>1, BookedOrder
<1>3. r.quantity \in Nat /\ r.filled \in Nat
  BY <1>1, QuantitiesAssumption DEF Order
<1>4. qty <= r.quantity - r.filled /\ PhaseOf(r.status) = "working"
  BY <1>1 DEF CanFill, Remaining, PhaseOf
<1>5. PhaseOf(b.status) = IF r.filled + qty = r.quantity THEN "closed" ELSE "working"
  BY <1>1, <1>2, <1>3, <1>4 DEF FillStatus, PhaseOf
<1> HIDE DEF b
<1>6. /\ DOMAIN orders' = DOMAIN orders /\ orders'[o] = b
      /\ \A x \in DOMAIN orders : x # o => orders'[x] = orders[x]
  BY DEF FillOrder, b
<1>7. SeenGot' = [SeenGot EXCEPT ![o] = @ + qty] /\ SeenWanted' = SeenWanted
  BY <1>1, <1>2, <1>6 DEF SeenGot, SeenWanted
<1>8. SeenPhase[o] = "working" /\ SeenGot[o] = r.filled /\ SeenWanted[o] = r.quantity
  BY <1>1, <1>4 DEF SeenPhase, SeenGot, SeenWanted
<1>9. SeenPhase' = [SeenPhase EXCEPT ![o] = PhaseOf(b.status)]
  BY <1>1, <1>6 DEF SeenPhase
<1>10. SeenPhase' = IF SeenGot[o] + qty = SeenWanted[o]
                    THEN [SeenPhase EXCEPT ![o] = "closed"] ELSE SeenPhase
  BY <1>1, <1>5, <1>8, <1>9 DEF SeenPhase
<1>11. SeenGot[o] + qty <= SeenWanted[o]
  BY <1>1, <1>3, <1>4, <1>8
<1>12. Promise!Take(o, qty)
  BY <1>7, <1>8, <1>10, <1>11 DEF Promise!Take
<1> QED
  BY <1>1, <1>12 DEF Promise!Next

\* A cancel request closes a working order and is not seen of any other.
LEMMA CancelCloses ==
    ASSUME IInv, NEW o \in DOMAIN orders, CancelOrder(o)
    PROVE  Promise!Next \/ UNCHANGED promiseVars
<1>1. "PENDING_CANCEL" \in Status
  BY DEF Status
<1>2. CASE CanMove(orders[o], "PENDING_CANCEL")
  BY <1>2, SeenClosing DEF CancelOrder, IInv
<1>3. CASE ~CanMove(orders[o], "PENDING_CANCEL")
  BY <1>1, <1>3, UnseenRequest DEF CancelOrder, IInv
<1> QED
  BY <1>2, <1>3

\* The sweep closes, at once, the NEW orders among those that are due.
LEMMA SweepCloses == ASSUME IInv, ExpireOrders PROVE Promise!Next
<1> DEFINE closing == {o \in active \cap due : orders[o].status = "NEW"}
<1>1. TypeOK
  BY DEF IInv
<1>2. closing \subseteq Orders /\ \A o \in closing : o \in DOMAIN orders
  BY <1>1 DEF TypeOK
<1>3. \A o \in closing : SeenPhase[o] = "working"
  BY <1>2 DEF SeenPhase, PhaseOf
<1>4. ASSUME NEW o \in DOMAIN orders
      PROVE  /\ orders'[o].quantity = orders[o].quantity /\ orders'[o].filled = orders[o].filled
             /\ orders'[o].status = IF o \in closing THEN "EXPIRED" ELSE orders[o].status
  <2>1. CASE o \notin active \cap due
    BY <2>1 DEF ExpireOrders
  <2>2. CASE o \in active \cap due
    <3>1. orders'[o] = Moved(orders[o], "EXPIRED", 0)
      BY <2>2 DEF ExpireOrders
    <3>2. CanMove(orders[o], "EXPIRED") <=> orders[o].status = "NEW"
      BY DEF CanMove, ValidTransitions
    <3>3. orders[o] \in Order /\ "EXPIRED" \in Status
      BY <1>1 DEF TypeOK, Status
    <3> QED
      BY <2>2, <3>1, <3>2, <3>3, MovedOrder
  <2> QED
    BY <2>1, <2>2
<1>5. DOMAIN orders' = DOMAIN orders
  BY DEF ExpireOrders
<1> HIDE DEF closing
<1>6. SeenWanted' = SeenWanted /\ SeenGot' = SeenGot
  BY <1>4, <1>5 DEF SeenWanted, SeenGot
<1>7. SeenPhase' = [o \in Orders |-> IF o \in closing THEN "closed" ELSE SeenPhase[o]]
  BY <1>2, <1>4, <1>5 DEF SeenPhase, PhaseOf
<1>8. Promise!Close(closing)
  BY <1>3, <1>6, <1>7 DEF Promise!Close
<1> QED
  BY <1>2, <1>8 DEF Promise!Next

-----------------------------------------------------------------------------
\* Nothing is seen of a manager without orders.
LEMMA PromiseInit == Init => Promise!Init
BY DEF Init, Promise!Init, SeenPhase, SeenWanted, SeenGot

\* Every step is one the promise allows, or is not seen.
LEMMA PromiseStep == IInv /\ [Next]_vars => [Promise!Next]_promiseVars
<1> SUFFICES ASSUME IInv, [Next]_vars PROVE Promise!Next \/ UNCHANGED promiseVars
  OBVIOUS
<1>1. CASE Create
  BY <1>1, CreateOpens
<1>2. ASSUME NEW o \in DOMAIN orders, SubmitOrder(o) PROVE UNCHANGED promiseVars
  BY <1>2, SubmitUnseen
<1>3. ASSUME NEW o \in DOMAIN orders, Reject(o) PROVE Promise!Next
  BY <1>3, RejectCloses
<1>4. ASSUME NEW o \in DOMAIN orders, Accept(o) PROVE Promise!Next
  BY <1>4, AcceptWorks
<1>5. ASSUME NEW o \in DOMAIN orders, Fill(o) PROVE Promise!Next
  BY <1>5, FillTakes DEF Fill
<1>6. ASSUME NEW o \in DOMAIN orders, CancelOrder(o) PROVE Promise!Next \/ UNCHANGED promiseVars
  BY <1>6, CancelCloses
<1>7. ASSUME NEW o \in DOMAIN orders, ComeDue(o) PROVE UNCHANGED promiseVars
  BY <1>7 DEF ComeDue, promiseVars, SeenPhase, SeenWanted, SeenGot
<1>8. CASE ExpireOrders
  BY <1>8, SweepCloses
<1>9. CASE UNCHANGED vars
  BY <1>9 DEF vars, promiseVars, SeenPhase, SeenWanted, SeenGot
<1> QED
  BY <1>1, <1>2, <1>3, <1>4, <1>5, <1>6, <1>7, <1>8, <1>9 DEF Next

\* The manager implements the promise.
THEOREM PromiseIsKept == Spec => KeepsPromise
<1>1. IInv /\ [Next]_vars => [Promise!Next]_(Promise!vars)
  BY PromiseStep DEF promiseVars, Promise!vars
<1> QED
  BY PromiseInit, <1>1, Invariance, PTL DEF Spec, KeepsPromise, Promise!Spec
-----------------------------------------------------------------------------
(***************************************************************************)
(* The groups of ComplexOrders. Every step leaves the sides and the sizes  *)
(* of the orders alone and may append orders to the tables, in groups of   *)
(* their own. The inductive invariant adds to the properties what they     *)
(* rest on: a bracket has its callback before its entry can fill, orders   *)
(* that share a group were created by a method that hooked the siblings,   *)
(* and a parent has the one slice its creation revealed (a slice that is   *)
(* full is FILLED, and the callback that would reveal the next one waits   *)
(* for PARTIALLY_FILLED).                                                  *)
(***************************************************************************)
OneSliceEach ==
    /\ \A p \in DOMAIN orders : role[p] = "PARENT" =>
        /\ p + 1 \in DOMAIN orders /\ role[p + 1] = "SLICE" /\ group[p + 1] = p
        /\ revealed[p] = orders[p + 1].quantity
        /\ revealed[p] <= orders[p].quantity /\ revealed[p] <= DisplaySize
    /\ \A x \in DOMAIN orders : role[x] = "SLICE" => group[x] = x - 1

ComplexIInv ==
    /\ ComplexTypeOK
    /\ \A e \in DOMAIN orders : role[e] = "ENTRY" => brackets > 0
    /\ FilledEntryIsProtected
    /\ \A x, y \in DOMAIN orders : (x # y /\ group[x] = group[y] /\ group[x] # NoGroup) => ocoHooked
    /\ OneSliceEach

\* How every step changes the tables: old rows keep their group, role and what was
\* revealed, an order keeps its side and size, and new rows are appended.
Grown(table, records, groups, roles, reveals) ==
    /\ orders' = table \o records
    /\ group' = group \o groups
    /\ role' = role \o roles
    /\ revealed' = revealed \o reveals

SameShape(table) ==
    /\ table \in Seq(Order) /\ Len(table) = Len(orders)
    /\ \A x \in DOMAIN orders : table[x].side = orders[x].side /\ table[x].quantity = orders[x].quantity

NewRows(records, groups, roles, reveals) ==
    /\ records \in Seq(Order) /\ groups \in Seq(Nat) /\ roles \in Seq(Roles) /\ reveals \in Seq(Nat)
    /\ Len(groups) = Len(records) /\ Len(roles) = Len(records) /\ Len(reveals) = Len(records)
    /\ Len(orders) + Len(records) <= MaxOrders
    /\ \A i \in 1..Len(records) : groups[i] <= Len(orders) + Len(records)

\* The tables after a step, row by row.
LEMMA RowByRow ==
    ASSUME ComplexTypeOK, NEW table, NEW records, NEW groups, NEW roles, NEW reveals,
           SameShape(table), NewRows(records, groups, roles, reveals),
           Grown(table, records, groups, roles, reveals)
    PROVE  /\ orders' \in Seq(Order) /\ group' \in Seq(Nat) /\ role' \in Seq(Roles) /\ revealed' \in Seq(Nat)
           /\ Len(orders') = Len(orders) + Len(records)
           /\ Len(group') = Len(orders') /\ Len(role') = Len(orders') /\ Len(revealed') = Len(orders')
           /\ Len(orders) \in Nat /\ Len(records) \in Nat
           /\ DOMAIN orders = 1..Len(orders) /\ DOMAIN orders' = 1..Len(orders')
           /\ \A x \in 1..Len(orders) :
                 /\ orders'[x] = table[x] /\ group'[x] = group[x]
                 /\ role'[x] = role[x] /\ revealed'[x] = revealed[x]
           /\ \A i \in 1..Len(records) :
                 /\ orders'[Len(orders) + i] = records[i] /\ group'[Len(orders) + i] = groups[i]
                 /\ role'[Len(orders) + i] = roles[i] /\ revealed'[Len(orders) + i] = reveals[i]
           /\ \A x \in 1..Len(orders') : x \notin 1..Len(orders) =>
                 \E i \in 1..Len(records) : x = Len(orders) + i
<1>1. /\ orders \in Seq(Order) /\ group \in Seq(Nat) /\ role \in Seq(Roles) /\ revealed \in Seq(Nat)
      /\ Len(group) = Len(orders) /\ Len(role) = Len(orders) /\ Len(revealed) = Len(orders)
  BY DEF ComplexTypeOK
<1>2. table \in Seq(Order) /\ Len(table) = Len(orders)
  BY DEF SameShape
<1>3. /\ records \in Seq(Order) /\ groups \in Seq(Nat) /\ roles \in Seq(Roles) /\ reveals \in Seq(Nat)
      /\ Len(groups) = Len(records) /\ Len(roles) = Len(records) /\ Len(reveals) = Len(records)
  BY DEF NewRows
<1>4. Len(orders) \in Nat /\ Len(records) \in Nat /\ DOMAIN orders = 1..Len(orders)
  BY <1>1, <1>3
<1>5. /\ orders' \in Seq(Order) /\ Len(orders') = Len(orders) + Len(records)
      /\ DOMAIN orders' = 1..Len(orders')
      /\ \A x \in 1..Len(orders) : orders'[x] = table[x]
      /\ \A i \in 1..Len(records) : orders'[Len(orders) + i] = records[i]
  <2> DEFINE t == table \o records
  <2>1. /\ t \in Seq(Order) /\ Len(t) = Len(table) + Len(records)
        /\ DOMAIN t = 1..(Len(table) + Len(records))
        /\ \A x \in 1..Len(table) : t[x] = table[x]
        /\ \A i \in 1..Len(records) : t[Len(table) + i] = records[i]
    <3>1. table \in Seq(Order) /\ records \in Seq(Order)
      BY <1>2, <1>3
    <3> QED
      BY ONLY <3>1
  <2>2. orders' = t
    BY DEF Grown
  <2> HIDE DEF t
  <2> QED
    BY <1>2, <2>1, <2>2
<1>6. /\ group' \in Seq(Nat) /\ Len(group') = Len(orders')
      /\ \A x \in 1..Len(orders) : group'[x] = group[x]
      /\ \A i \in 1..Len(records) : group'[Len(orders) + i] = groups[i]
  <2> DEFINE t == group \o groups
  <2>1. /\ t \in Seq(Nat) /\ Len(t) = Len(group) + Len(groups)
        /\ \A x \in 1..Len(group) : t[x] = group[x]
        /\ \A i \in 1..Len(groups) : t[Len(group) + i] = groups[i]
    <3>1. group \in Seq(Nat) /\ groups \in Seq(Nat)
      BY <1>1, <1>3
    <3> QED
      BY ONLY <3>1
  <2>2. group' = t
    BY DEF Grown
  <2> HIDE DEF t
  <2> QED
    BY <1>1, <1>3, <1>5, <2>1, <2>2
<1>7. /\ role' \in Seq(Roles) /\ Len(role') = Len(orders')
      /\ \A x \in 1..Len(orders) : role'[x] = role[x]
      /\ \A i \in 1..Len(records) : role'[Len(orders) + i] = roles[i]
  <2> DEFINE t == role \o roles
  <2>1. /\ t \in Seq(Roles) /\ Len(t) = Len(role) + Len(roles)
        /\ \A x \in 1..Len(role) : t[x] = role[x]
        /\ \A i \in 1..Len(roles) : t[Len(role) + i] = roles[i]
    <3>1. role \in Seq(Roles) /\ roles \in Seq(Roles)
      BY <1>1, <1>3
    <3> QED
      BY ONLY <3>1
  <2>2. role' = t
    BY DEF Grown
  <2> HIDE DEF t
  <2> QED
    BY <1>1, <1>3, <1>5, <2>1, <2>2
<1>8. /\ revealed' \in Seq(Nat) /\ Len(revealed') = Len(orders')
      /\ \A x \in 1..Len(orders) : revealed'[x] = revealed[x]
      /\ \A i \in 1..Len(records) : revealed'[Len(orders) + i] = reveals[i]
  <2> DEFINE t == revealed \o reveals
  <2>1. /\ t \in Seq(Nat) /\ Len(t) = Len(revealed) + Len(reveals)
        /\ \A x \in 1..Len(revealed) : t[x] = revealed[x]
        /\ \A i \in 1..Len(reveals) : t[Len(revealed) + i] = reveals[i]
    <3>1. revealed \in Seq(Nat) /\ reveals \in Seq(Nat)
      BY <1>1, <1>3
    <3> QED
      BY ONLY <3>1
  <2>2. revealed' = t
    BY DEF Grown
  <2> HIDE DEF t
  <2> QED
    BY <1>1, <1>3, <1>5, <2>1, <2>2
<1>9. \A x \in 1..Len(orders') : x \notin 1..Len(orders) =>
          x - Len(orders) \in 1..Len(records) /\ x = Len(orders) + (x - Len(orders))
  BY <1>4, <1>5
<1> QED
  BY <1>4, <1>5, <1>6, <1>7, <1>8, <1>9

\* The new rows of a step: an entry has its callback, a group has a number of its own
\* and hooks when several rows are in it, and a parent comes with its first slice.
FreshRows(records, groups, roles, reveals) ==
    /\ \A i \in 1..Len(records) :
          /\ roles[i] = "ENTRY" => brackets' > 0 /\ records[i].status # "FILLED"
          /\ groups[i] # NoGroup => groups[i] > Len(orders)
          /\ roles[i] = "PARENT" =>
                /\ i + 1 \in 1..Len(records) /\ roles[i + 1] = "SLICE"
                /\ groups[i + 1] = Len(orders) + i /\ reveals[i] = records[i + 1].quantity
                /\ reveals[i] <= records[i].quantity /\ reveals[i] <= DisplaySize
          /\ roles[i] = "SLICE" => groups[i] = (Len(orders) + i) - 1
    /\ \A i, j \in 1..Len(records) :
          (i # j /\ groups[i] = groups[j] /\ groups[i] # NoGroup) => ocoHooked'

(* A step fills one entry at most, which gets exits among the new rows.    *)
FillsAreProtected(table, records, groups, roles) ==
    \A e \in DOMAIN orders :
        (role[e] = "ENTRY" /\ table[e].status = "FILLED" /\ orders[e].status # "FILLED") =>
            /\ \A d \in DOMAIN orders : (table[d].status = "FILLED" /\ orders[d].status # "FILLED") => d = e
            /\ \E i, j \in 1..Len(records) :
                /\ roles[i] = "TP" /\ roles[j] = "SL" /\ groups[i] = groups[j]
                /\ records[i].quantity = orders[e].quantity /\ records[j].quantity = orders[e].quantity
                /\ records[i].side = Opposite(orders[e].side) /\ records[j].side = Opposite(orders[e].side)

\* A step of that shape keeps the invariant.
LEMMA GrownKeeps ==
    ASSUME ComplexIInv, NEW table, NEW records, NEW groups, NEW roles, NEW reveals,
           SameShape(table), NewRows(records, groups, roles, reveals),
           Grown(table, records, groups, roles, reveals),
           active' \subseteq DOMAIN orders', submitting' \subseteq DOMAIN orders',
           due' \subseteq DOMAIN orders',
           brackets' \in Nat, brackets' >= brackets,
           ocoHooked' \in BOOLEAN, ocoHooked => ocoHooked',
           FreshRows(records, groups, roles, reveals),
           FillsAreProtected(table, records, groups, roles)
    PROVE  ComplexIInv'
<1> DEFINE n == Len(orders)  k == Len(records)
<1>1. ComplexTypeOK
  BY DEF ComplexIInv
<1>2. /\ orders' \in Seq(Order) /\ group' \in Seq(Nat) /\ role' \in Seq(Roles) /\ revealed' \in Seq(Nat)
      /\ Len(orders') = n + k
      /\ Len(group') = Len(orders') /\ Len(role') = Len(orders') /\ Len(revealed') = Len(orders')
      /\ n \in Nat /\ k \in Nat
      /\ DOMAIN orders = 1..n /\ DOMAIN orders' = 1..(n + k)
  BY <1>1, RowByRow
<1>3. \A x \in 1..n :
         /\ orders'[x] = table[x] /\ group'[x] = group[x]
         /\ role'[x] = role[x] /\ revealed'[x] = revealed[x]
         /\ x \in 1..(n + k)
  BY <1>1, <1>2, RowByRow
<1>4. \A i \in 1..k :
         /\ orders'[n + i] = records[i] /\ group'[n + i] = groups[i]
         /\ role'[n + i] = roles[i] /\ revealed'[n + i] = reveals[i]
         /\ n + i \in 1..(n + k)
  BY <1>1, <1>2, RowByRow
<1>5. \A x \in 1..(n + k) : x \notin 1..n => \E i \in 1..k : x = n + i
  BY <1>1, <1>2, RowByRow
<1>6. /\ \A x \in 1..n : group[x] <= n /\ group[x] \in Nat
      /\ \A x \in 1..n : table[x].side = orders[x].side /\ table[x].quantity = orders[x].quantity
      /\ \A i \in 1..k : groups[i] <= n + k /\ groups[i] \in Nat
      /\ n + k <= MaxOrders
  <2>1. \A x \in 1..n : group[x] <= n /\ group[x] \in Nat
    <3>1. group \in Seq(Nat) /\ Len(group) = n /\ \A x \in DOMAIN orders : group[x] <= n
      BY <1>1 DEF ComplexTypeOK
    <3>2. \A x \in 1..Len(group) : group[x] \in Nat
      BY <3>1
    <3> HIDE DEF n
    <3> QED
      BY <1>2, <3>1, <3>2
  <2>2. \A x \in 1..n : table[x].side = orders[x].side /\ table[x].quantity = orders[x].quantity
    BY <1>2 DEF SameShape
  <2>3. \A i \in 1..k : groups[i] <= n + k /\ groups[i] \in Nat
    <3>1. groups \in Seq(Nat) /\ Len(groups) = k /\ \A i \in 1..k : groups[i] <= n + k
      BY DEF NewRows
    <3>2. \A i \in 1..Len(groups) : groups[i] \in Nat
      BY <3>1
    <3> HIDE DEF n, k
    <3> QED
      BY <3>1, <3>2
  <2>4. n + k <= MaxOrders
    BY DEF NewRows
  <2> QED
    BY <2>1, <2>2, <2>3, <2>4
<1> DEFINE old == 1..n  new == 1..k  all == 1..(n + k)
<1>7. ComplexTypeOK'
  <2>1. DOMAIN orders' \subseteq Orders
    BY <1>2, <1>6, OrdersAssumption
  <2>2. \A x \in DOMAIN orders' : orders'[x] \in Order
    BY <1>2
  <2>3. ASSUME NEW x \in all PROVE group'[x] <= n + k
    <3>0. n \in Nat /\ k \in Nat
      BY <1>2
    <3>1. CASE x \in old
      <4>1. group'[x] = group[x] /\ group[x] <= n /\ group[x] \in Nat
        BY <1>3, <1>6, <3>1
      <4> HIDE DEF n, k
      <4> QED
        BY <3>0, <4>1
    <3>2. CASE x \notin old
      BY <1>4, <1>5, <1>6, <3>2
    <3> QED
      BY <3>1, <3>2
  <2> QED
    BY <1>2, <2>1, <2>2, <2>3 DEF ComplexTypeOK, TypeOK
<1>0. /\ \A i \in new : roles[i] = "ENTRY" => brackets' > 0 /\ records[i].status # "FILLED"
      /\ \A i, j \in new :
            (i # j /\ groups[i] = groups[j] /\ groups[i] # NoGroup) => ocoHooked'
  BY DEF FreshRows
<1>a. /\ \A e \in old : role[e] = "ENTRY" => brackets > 0
      /\ \A x, y \in old : (x # y /\ group[x] = group[y] /\ group[x] # NoGroup) => ocoHooked
  BY <1>2 DEF ComplexIInv
<1> HIDE DEF n, k
<1>8. (\A e \in DOMAIN orders : role[e] = "ENTRY" => brackets > 0)'
  <2> SUFFICES ASSUME NEW e \in all, role'[e] = "ENTRY" PROVE brackets' > 0
    BY <1>2
  <2>1. brackets \in Nat
    BY <1>1 DEF ComplexTypeOK
  <2>2. CASE e \in old
    <3>1. role[e] = "ENTRY"
      BY <1>3, <2>2
    <3>2. brackets > 0
      BY <1>a, <2>2, <3>1
    <3> QED
      BY <2>1, <3>2
  <2>3. CASE e \notin old
    <3>1. PICK i \in new : e = n + i
      BY <1>5, <2>3
    <3>2. roles[i] = "ENTRY"
      BY <1>4, <3>1
    <3> QED
      BY <1>0, <3>2
  <2> QED
    BY <2>2, <2>3
<1>9. FilledEntryIsProtected'
  <2> DEFINE was == FilledEntries
  <2>0. /\ was \subseteq old /\ \A e \in was : role[e] = "ENTRY" /\ orders[e].status = "FILLED"
        /\ was' \subseteq all
        /\ \A e \in all : e \in was' <=> role'[e] = "ENTRY" /\ orders'[e].status = "FILLED"
    BY <1>2 DEF FilledEntries
  <2>1. ASSUME NEW e \in was'
        PROVE  /\ e \in old /\ role[e] = "ENTRY" /\ table[e].status = "FILLED"
               /\ orders'[e].quantity = orders[e].quantity /\ orders'[e].side = orders[e].side
    <3>1. e \in old
      <4> SUFFICES ASSUME e \notin old PROVE FALSE
        OBVIOUS
      <4>1. PICK i \in new : e = n + i
        BY <1>5, <2>0, <2>1
      <4>2. roles[i] = "ENTRY" /\ records[i].status = "FILLED"
        BY <1>4, <2>0, <2>1, <4>1
      <4> QED
        BY <1>0, <4>2
    <3> QED
      BY <1>3, <1>6, <2>0, <2>1, <3>1
  <2>2. PICK exit \in Injection(was, old) : \A e \in was :
            /\ role[exit[e]] = "TP" /\ Protects(exit[e], e)
            /\ \E sl \in old : role[sl] = "SL" /\ group[sl] = group[exit[e]] /\ Protects(sl, e)
    BY <1>2 DEF ComplexIInv, FilledEntryIsProtected
  <2>3. exit \in [was -> old] /\ \A d, e \in was : exit[d] = exit[e] => d = e
    BY <2>2 DEF Injection, IsInjective
  <2> HIDE DEF was
  <2>4. ASSUME NEW e \in was', e \in was
        PROVE  /\ exit[e] \in all /\ role'[exit[e]] = "TP" /\ Protects(exit[e], e)'
               /\ \E sl \in all : role'[sl] = "SL" /\ group'[sl] = group'[exit[e]] /\ Protects(sl, e)'
    <3>1. PICK sl \in old : role[sl] = "SL" /\ group[sl] = group[exit[e]] /\ Protects(sl, e)
      BY <2>2, <2>4
    <3>2. exit[e] \in old /\ role[exit[e]] = "TP" /\ Protects(exit[e], e)
      BY <2>2, <2>3, <2>4
    <3> HIDE DEF old, all
    <3>3. /\ orders'[exit[e]] = table[exit[e]] /\ orders'[sl] = table[sl]
          /\ role'[exit[e]] = "TP" /\ role'[sl] = "SL" /\ group'[sl] = group'[exit[e]]
          /\ exit[e] \in all /\ sl \in all
      BY <1>3, <3>1, <3>2 DEF old, all
    <3>4. /\ table[exit[e]].side = orders[exit[e]].side /\ table[exit[e]].quantity = orders[exit[e]].quantity
          /\ table[sl].side = orders[sl].side /\ table[sl].quantity = orders[sl].quantity
      BY <1>6, <3>1, <3>2 DEF old
    <3>5. orders'[e].quantity = orders[e].quantity /\ orders'[e].side = orders[e].side
      BY <2>1
    <3>6. Protects(exit[e], e)' /\ Protects(sl, e)'
      BY <3>1, <3>2, <3>3, <3>4, <3>5 DEF Protects
    <3> QED
      BY <3>3, <3>6
  <2>5. CASE \A e \in was' : e \in was
    <3>1. PICK next \in [was' -> all] : \A e \in was' : next[e] = exit[e]
      <4> DEFINE w == [e \in was' |-> exit[e]]
      <4>1. w \in [was' -> all] /\ \A e \in was' : w[e] = exit[e]
        BY <2>4, <2>5
      <4> QED
        BY <4>1
    <3>2. next \in Injection(was', all)
      BY <2>3, <2>5, <3>1 DEF Injection, IsInjective
    <3>3. \A e \in was' :
            /\ role'[next[e]] = "TP" /\ Protects(next[e], e)'
            /\ \E sl \in all : role'[sl] = "SL" /\ group'[sl] = group'[next[e]] /\ Protects(sl, e)'
      BY <2>4, <2>5, <3>1
    <3> QED
      BY <1>2, <3>2, <3>3 DEF FilledEntryIsProtected, was, all
  <2>6. CASE \E e \in was' : e \notin was
    <3>1. PICK f \in was' : f \notin was
      BY <2>6
    <3>2. f \in old /\ role[f] = "ENTRY" /\ table[f].status = "FILLED" /\ orders[f].status # "FILLED"
      BY <1>2, <2>1, <3>1 DEF was, FilledEntries
    <3>3. /\ \A d \in old : (table[d].status = "FILLED" /\ orders[d].status # "FILLED") => d = f
          /\ \E i, j \in new :
                /\ roles[i] = "TP" /\ roles[j] = "SL" /\ groups[i] = groups[j]
                /\ records[i].quantity = orders[f].quantity /\ records[j].quantity = orders[f].quantity
                /\ records[i].side = Opposite(orders[f].side) /\ records[j].side = Opposite(orders[f].side)
      BY <1>2, <3>2 DEF FillsAreProtected, k
    <3>4. \A e \in was' : e # f => e \in was
      <4> SUFFICES ASSUME NEW e \in was', e \notin was PROVE e = f
        OBVIOUS
      <4>1. e \in old /\ table[e].status = "FILLED" /\ orders[e].status # "FILLED"
        BY <1>2, <2>1 DEF was, FilledEntries
      <4> QED
        BY <3>3, <4>1
    <3>5. PICK i \in new, j \in new :
            /\ roles[i] = "TP" /\ roles[j] = "SL" /\ groups[i] = groups[j]
            /\ records[i].quantity = orders[f].quantity /\ records[j].quantity = orders[f].quantity
            /\ records[i].side = Opposite(orders[f].side) /\ records[j].side = Opposite(orders[f].side)
      BY <3>3
    <3>0. PICK tp \in all, sl \in all : tp = n + i /\ sl = n + j
      BY <1>4
    <3>6. /\ tp \notin old
          /\ role'[tp] = "TP" /\ role'[sl] = "SL" /\ group'[tp] = group'[sl]
          /\ Protects(tp, f)' /\ Protects(sl, f)'
      <4>1. tp \notin old
        BY <1>2, <3>0
      <4>2. /\ orders'[tp] = records[i] /\ orders'[sl] = records[j]
            /\ role'[tp] = "TP" /\ role'[sl] = "SL" /\ group'[tp] = group'[sl]
        BY <1>4, <3>0, <3>5
      <4>3. orders'[f].quantity = orders[f].quantity /\ orders'[f].side = orders[f].side
        BY <2>1, <3>1
      <4>4. Protects(tp, f)' /\ Protects(sl, f)'
        BY <3>5, <4>2, <4>3 DEF Protects
      <4> QED
        BY <4>1, <4>2, <4>4
    <3> HIDE DEF old, all, new
    <3>7. PICK next \in [was' -> all] :
             \A e \in was' : next[e] = IF e = f THEN tp ELSE exit[e]
      <4> DEFINE w == [e \in was' |-> IF e = f THEN tp ELSE exit[e]]
      <4>1. w \in [was' -> all] /\ \A e \in was' : w[e] = IF e = f THEN tp ELSE exit[e]
        BY <2>4, <3>4, <3>6
      <4> QED
        BY <4>1
    <3>8. next[f] = tp /\ \A e \in was' : e # f => next[e] = exit[e] /\ exit[e] \in old /\ e \in was
      BY <2>3, <3>1, <3>4, <3>7
    <3>9. next \in Injection(was', all)
      <4>1. ASSUME NEW d \in was', NEW e \in was', next[d] = next[e] PROVE d = e
        <5>1. CASE d = f
          BY <3>6, <3>8, <4>1, <5>1
        <5>2. CASE e = f
          BY <3>6, <3>8, <4>1, <5>2
        <5>3. CASE d # f /\ e # f
          BY <2>3, <3>8, <4>1, <5>3
        <5> QED
          BY <5>1, <5>2, <5>3
      <4> QED
        BY <3>7, <4>1 DEF Injection, IsInjective
    <3>10. ASSUME NEW e \in was'
           PROVE  /\ role'[next[e]] = "TP" /\ Protects(next[e], e)'
                  /\ \E q \in all : role'[q] = "SL" /\ group'[q] = group'[next[e]] /\ Protects(q, e)'
      <4>1. CASE e = f
        <5>1. next[e] = tp
          BY <3>8, <4>1
        <5> QED
          BY <3>6, <4>1, <5>1
      <4>2. CASE e # f
        <5>1. next[e] = exit[e] /\ e \in was
          BY <3>8, <4>2
        <5> QED
          BY <2>4, <5>1
      <4> QED
        BY <4>1, <4>2
    <3> QED
      BY <1>2, <3>9, <3>10 DEF FilledEntryIsProtected, was, all
  <2> QED
    BY <2>5, <2>6
<1>10. (\A x, y \in DOMAIN orders : (x # y /\ group[x] = group[y] /\ group[x] # NoGroup) => ocoHooked)'
  <2> SUFFICES ASSUME NEW x \in all, NEW y \in all, x # y, group'[x] = group'[y], group'[x] # NoGroup
               PROVE  ocoHooked'
    BY <1>2
  <2>1. CASE x \in old /\ y \in old
    <3>1. group[x] = group[y] /\ group[x] # NoGroup
      BY <1>3, <2>1
    <3>2. ocoHooked
      BY <1>a, <2>1, <3>1
    <3> QED
      BY <3>2
  <2>2. \A i \in new : groups[i] # NoGroup => groups[i] > n
    BY DEF FreshRows, n, k
  <2>3. CASE x \notin old /\ y \notin old
    <3>1. PICK i \in new, j \in new : x = n + i /\ y = n + j
      BY <1>5, <2>3
    <3>2. i # j /\ groups[i] = groups[j] /\ groups[i] # NoGroup
      BY <1>4, <3>1
    <3> QED
      BY <1>0, <3>2
  <2>4. CASE x \in old /\ y \notin old
    <3>1. PICK j \in new : y = n + j
      BY <1>5, <2>4
    <3>2. group'[y] = groups[j] /\ group'[x] = group[x]
      BY <1>3, <1>4, <2>4, <3>1
    <3>3. groups[j] > n /\ group[x] <= n /\ group[x] \in Nat /\ groups[j] \in Nat
      BY <1>6, <2>2, <2>4, <3>2
    <3>4. groups[j] = group[x] /\ n \in Nat
      BY <1>2, <3>2
    <3> HIDE DEF new, old, all
    <3> QED
      BY <3>3, <3>4
  <2>5. CASE x \notin old /\ y \in old
    <3>1. PICK j \in new : x = n + j
      BY <1>5, <2>5
    <3>2. group'[x] = groups[j] /\ group'[y] = group[y]
      BY <1>3, <1>4, <2>5, <3>1
    <3>3. groups[j] > n /\ group[y] <= n /\ group[y] \in Nat /\ groups[j] \in Nat
      BY <1>6, <2>2, <2>5, <3>2
    <3>4. groups[j] = group[y] /\ n \in Nat
      BY <1>2, <3>2
    <3> HIDE DEF new, old, all
    <3> QED
      BY <3>3, <3>4
  <2> QED
    BY <2>1, <2>3, <2>4, <2>5
<1>11. OneSliceEach'
  <2>1. ASSUME NEW p \in all, role'[p] = "PARENT"
        PROVE  /\ p + 1 \in all /\ role'[p + 1] = "SLICE" /\ group'[p + 1] = p
               /\ revealed'[p] = orders'[p + 1].quantity
               /\ revealed'[p] <= orders'[p].quantity /\ revealed'[p] <= DisplaySize
    <3>1. CASE p \in old
      <4>1. /\ p + 1 \in old /\ role[p + 1] = "SLICE" /\ group[p + 1] = p
            /\ revealed[p] = orders[p + 1].quantity
            /\ revealed[p] <= orders[p].quantity /\ revealed[p] <= DisplaySize
        <5>1. role[p] = "PARENT" /\ p \in DOMAIN orders
          BY <1>2, <1>3, <2>1, <3>1
        <5>2. OneSliceEach
          BY DEF ComplexIInv
        <5> QED
          BY <1>2, <5>1, <5>2 DEF OneSliceEach
      <4>2. /\ p + 1 \in all /\ role'[p + 1] = role[p + 1] /\ group'[p + 1] = group[p + 1]
            /\ revealed'[p] = revealed[p]
        BY <1>3, <3>1, <4>1
      <4>3. orders'[p + 1].quantity = orders[p + 1].quantity /\ orders'[p].quantity = orders[p].quantity
        BY <1>3, <1>6, <3>1, <4>1
      <4> HIDE DEF old, all
      <4> QED
        BY <4>1, <4>2, <4>3
    <3>2. CASE p \notin old
      <4>1. PICK i \in new : p = n + i
        BY <1>5, <3>2
      <4>2. roles[i] = "PARENT"
        BY <1>4, <2>1, <4>1
      <4>3. /\ i + 1 \in new /\ roles[i + 1] = "SLICE"
            /\ groups[i + 1] = n + i /\ reveals[i] = records[i + 1].quantity
            /\ reveals[i] <= records[i].quantity /\ reveals[i] <= DisplaySize
        BY <4>2 DEF FreshRows, n, k
      <4>4. p + 1 = n + (i + 1)
        BY <1>2, <4>1
      <4>5. /\ p + 1 \in all /\ role'[p + 1] = roles[i + 1] /\ group'[p + 1] = groups[i + 1]
            /\ orders'[p + 1] = records[i + 1]
        BY <1>4, <4>3, <4>4
      <4>6. revealed'[p] = reveals[i] /\ orders'[p] = records[i]
        BY <1>4, <4>1
      <4> HIDE DEF new, all
      <4> QED
        BY <4>1, <4>3, <4>5, <4>6
    <3> QED
      BY <3>1, <3>2
  <2>2. ASSUME NEW x \in all, role'[x] = "SLICE"
        PROVE  group'[x] = x - 1
    <3>1. CASE x \in old
      BY <1>2, <1>3, <2>2, <3>1 DEF ComplexIInv, OneSliceEach
    <3>2. CASE x \notin old
      <4>1. PICK i \in new : x = n + i
        BY <1>5, <3>2
      <4>2. roles[i] = "SLICE" /\ group'[x] = groups[i]
        BY <1>4, <2>2, <4>1
      <4>3. groups[i] = (n + i) - 1
        BY <4>2 DEF FreshRows, n, k
      <4> QED
        BY <4>1, <4>2, <4>3
    <3> QED
      BY <3>1, <3>2
  <2> QED
    BY <1>2, <2>1, <2>2 DEF OneSliceEach
<1> QED
  BY <1>7, <1>8, <1>9, <1>10, <1>11 DEF ComplexIInv

-----------------------------------------------------------------------------
(* One lemma per action. *)

\* No row is appended: what is left to say of a step.
LEMMA NothingAppended ==
    ASSUME ComplexTypeOK, UNCHANGED complexVars, orders' \in Seq(Order)
    PROVE  /\ Grown(orders', << >>, << >>, << >>, << >>)
           /\ NewRows(<< >>, << >>, << >>, << >>)
           /\ FreshRows(<< >>, << >>, << >>, << >>)
<1>1. /\ orders \in Seq(Order) /\ group \in Seq(Nat) /\ role \in Seq(Roles) /\ revealed \in Seq(Nat)
  BY DEF ComplexTypeOK
<1>2. group' = group /\ role' = role /\ revealed' = revealed
  BY DEF complexVars
<1>3. Grown(orders', << >>, << >>, << >>, << >>)
  BY <1>1, <1>2 DEF Grown
<1>4. Len(orders) \in Nat /\ Len(orders) <= MaxOrders
  <2>1. Len(orders) \in Nat /\ DOMAIN orders = 1..Len(orders)
    BY <1>1
  <2>2. 1..Len(orders) \subseteq 1..MaxOrders
    BY <2>1, OrdersAssumption DEF ComplexTypeOK, TypeOK
  <2> QED
    BY <2>1, <2>2, OrdersAssumption
<1>5. NewRows(<< >>, << >>, << >>, << >>)
  BY <1>4, OrdersAssumption DEF NewRows
<1>6. FreshRows(<< >>, << >>, << >>, << >>)
  BY DEF FreshRows
<1> QED
  BY <1>3, <1>5, <1>6

\* A step that only moves one order, to anything but FILLED, keeps the invariant.
LEMMA OneMoved ==
    ASSUME ComplexIInv, UNCHANGED complexVars, NEW o \in DOMAIN orders, NEW r \in Order,
           orders' = [orders EXCEPT ![o] = r],
           r.side = orders[o].side, r.quantity = orders[o].quantity,
           r.status = "FILLED" => orders[o].status = "FILLED",
           active' \subseteq DOMAIN orders, submitting' \subseteq DOMAIN orders, due' = due
    PROVE  ComplexIInv'
<1>1. ComplexTypeOK
  BY DEF ComplexIInv
<1>2. orders \in Seq(Order) /\ due \subseteq DOMAIN orders /\ brackets \in Nat /\ ocoHooked \in BOOLEAN
  BY <1>1 DEF ComplexTypeOK, TypeOK
<1>3. /\ orders' \in Seq(Order) /\ Len(orders') = Len(orders) /\ DOMAIN orders' = DOMAIN orders
      /\ orders'[o] = r /\ \A x \in DOMAIN orders : x # o => orders'[x] = orders[x]
  BY <1>2
<1>4. SameShape(orders')
  BY <1>3 DEF SameShape
<1>5. /\ Grown(orders', << >>, << >>, << >>, << >>)
      /\ NewRows(<< >>, << >>, << >>, << >>)
      /\ FreshRows(<< >>, << >>, << >>, << >>)
  BY <1>1, <1>3, NothingAppended
<1>6. FillsAreProtected(orders', << >>, << >>, << >>)
  BY <1>3 DEF FillsAreProtected
<1>7. brackets' = brackets /\ ocoHooked' = ocoHooked
  BY DEF complexVars
<1>8. brackets' \in Nat /\ brackets' >= brackets /\ ocoHooked' \in BOOLEAN /\ (ocoHooked => ocoHooked')
  BY <1>2, <1>7
<1> QED
  BY <1>2, <1>3, <1>4, <1>5, <1>6, <1>8, GrownKeeps

\* A request for a status other than FILLED keeps the invariant.
LEMMA RequestKeeps ==
    ASSUME ComplexIInv, UNCHANGED complexVars, NEW o \in DOMAIN orders, NEW new \in Status \ {"FILLED"},
           orders' = [orders EXCEPT ![o] = Moved(@, new, 0)],
           active' \subseteq DOMAIN orders, submitting' \subseteq DOMAIN orders, due' = due
    PROVE  ComplexIInv'
<1> DEFINE r == Moved(orders[o], new, 0)
<1>1. orders[o] \in Order
  BY DEF ComplexIInv, ComplexTypeOK, TypeOK
<1>2. /\ r \in Order /\ r.side = orders[o].side /\ r.quantity = orders[o].quantity
      /\ r.status = "FILLED" => orders[o].status = "FILLED"
  BY <1>1, MovedOrder
<1>3. orders' = [orders EXCEPT ![o] = r]
  OBVIOUS
<1> HIDE DEF r
<1> QED
  BY <1>2, <1>3, OneMoved

\* Submissions, answers and cancel requests append nothing and fill nothing.
LEMMA LifecycleKeeps ==
    ASSUME ComplexIInv, NEW o \in DOMAIN orders, UNCHANGED complexVars,
           SubmitOrder(o) \/ Reject(o) \/ Accept(o) \/ CancelOrder(o)
    PROVE  ComplexIInv'
<1>1. active \subseteq DOMAIN orders /\ submitting \subseteq DOMAIN orders
  BY DEF ComplexIInv, ComplexTypeOK, TypeOK
<1>2. /\ "PENDING_NEW" \in Status \ {"FILLED"} /\ "REJECTED" \in Status \ {"FILLED"}
      /\ "NEW" \in Status \ {"FILLED"} /\ "PENDING_CANCEL" \in Status \ {"FILLED"}
  BY DEF Status
<1>3. CASE SubmitOrder(o)
  BY <1>1, <1>2, <1>3, RequestKeeps DEF SubmitOrder
<1>4. CASE Reject(o)
  BY <1>1, <1>2, <1>4, RequestKeeps DEF Reject
<1>5. CASE Accept(o)
  BY <1>1, <1>2, <1>5, RequestKeeps DEF Accept
<1>6. CASE CancelOrder(o)
  BY <1>1, <1>2, <1>6, RequestKeeps DEF CancelOrder
<1> QED
  BY <1>3, <1>4, <1>5, <1>6

LEMMA NewOrderIsOrder ==
    ASSUME NEW side \in {"BUY", "SELL"}, NEW quantity \in Nat \ {0}, NEW limit \in Prices \cup {Unlimited}
    PROVE  LET r == NewOrder(side, quantity, limit, FALSE)
           IN  r \in Order /\ r.side = side /\ r.quantity = quantity /\ r.status = "CREATED"
BY DEF NewOrder, Order, Status

\* Rows appended to the tables as they are.
LEMMA RowsAppended ==
    ASSUME ComplexIInv, NEW records, NEW groups, NEW roles, NEW reveals,
           Appended(orders, records, groups, roles), revealed' = revealed \o reveals,
           records \in Seq(Order), groups \in Seq(Nat), roles \in Seq(Roles), reveals \in Seq(Nat),
           Len(groups) = Len(records), Len(roles) = Len(records), Len(reveals) = Len(records),
           \A i \in 1..Len(records) : groups[i] <= Len(orders) + Len(records),
           active' = active, due' = due,
           submitting' \subseteq submitting \cup {Len(orders) + i : i \in 1..Len(records)},
           brackets' \in Nat, brackets' >= brackets,
           ocoHooked' \in BOOLEAN, ocoHooked => ocoHooked',
           FreshRows(records, groups, roles, reveals)
    PROVE  ComplexIInv'
<1>1. ComplexTypeOK
  BY DEF ComplexIInv
<1>2. SameShape(orders)
  BY <1>1 DEF ComplexTypeOK, SameShape
<1>3. NewRows(records, groups, roles, reveals)
  BY DEF NewRows, Appended
<1>4. Grown(orders, records, groups, roles, reveals)
  BY DEF Grown, Appended
<1>5. FillsAreProtected(orders, records, groups, roles)
  BY DEF FillsAreProtected
<1>6. /\ Len(orders') = Len(orders) + Len(records)
      /\ Len(orders) \in Nat /\ Len(records) \in Nat
      /\ DOMAIN orders = 1..Len(orders) /\ DOMAIN orders' = 1..Len(orders')
  BY <1>1, <1>2, <1>3, <1>4, RowByRow
<1>7. /\ DOMAIN orders \subseteq DOMAIN orders'
      /\ \A i \in 1..Len(records) : Len(orders) + i \in DOMAIN orders'
  BY <1>6
<1>8. active \subseteq DOMAIN orders /\ submitting \subseteq DOMAIN orders /\ due \subseteq DOMAIN orders
  BY <1>1 DEF ComplexTypeOK, TypeOK
<1>9. active' \subseteq DOMAIN orders' /\ submitting' \subseteq DOMAIN orders' /\ due' \subseteq DOMAIN orders'
  BY <1>7, <1>8
<1> QED
  BY <1>2, <1>3, <1>4, <1>5, <1>9, GrownKeeps

LEMMA ZerosSeq ==
    ASSUME NEW n \in Nat
    PROVE  Zeros(n) \in Seq(Nat) /\ Len(Zeros(n)) = n /\ \A i \in 1..n : Zeros(n)[i] = 0
BY DEF Zeros

LEMMA LimitIsPrice == Limit \in Prices
BY LimitAssumption DEF Limit

\* The two legs of an OCO pair hook the siblings of their group.
LEMMA CreateOcoKeeps ==
    ASSUME ComplexIInv, NEW side \in Sides, NEW quantity \in Quantities, CreateOco(side, quantity)
    PROVE  ComplexIInv'
<1> DEFINE g == Len(orders) + 1  leg == NewOrder(side, quantity, Limit, FALSE)
           records == <<leg, leg>>  groups == <<g, g>>  roles == <<"OCO", "OCO">>
<1>1. Len(orders) \in Nat /\ g \in Nat /\ brackets \in Nat
  BY DEF ComplexIInv, ComplexTypeOK
<1>2. leg \in Order
  BY LimitIsPrice, NewOrderIsOrder, SidesAssumption, QuantitiesAssumption
<1>3. Zeros(2) \in Seq(Nat) /\ Len(Zeros(2)) = 2
  BY ZerosSeq
<1>4. /\ Appended(orders, records, groups, roles) /\ ocoHooked' = TRUE
      /\ revealed' = revealed \o Zeros(2)
      /\ UNCHANGED <<active, submitting, due, brackets>>
  BY DEF CreateOco
<1> HIDE DEF leg
<1>5. records \in Seq(Order) /\ roles \in Seq(Roles) /\ Len(records) = 2 /\ Len(roles) = 2
      /\ roles[1] = "OCO" /\ roles[2] = "OCO"
  BY <1>2 DEF Roles
<1> HIDE DEF records, roles
<1>6. groups \in Seq(Nat) /\ Len(groups) = 2 /\ groups[1] = g /\ groups[2] = g
  BY <1>1
<1> HIDE DEF groups
<1>7. \A i \in 1..Len(records) : i \in {1, 2}
  BY <1>5
<1>8. FreshRows(records, groups, roles, Zeros(2))
  BY <1>1, <1>4, <1>5, <1>6, <1>7 DEF FreshRows
<1>9. \A i \in 1..Len(records) : groups[i] <= Len(orders) + Len(records)
  BY <1>1, <1>5, <1>6, <1>7
<1>10. submitting' \subseteq submitting \cup {Len(orders) + i : i \in 1..Len(records)}
  BY <1>4
<1>11. /\ Len(groups) = Len(records) /\ Len(roles) = Len(records) /\ Len(Zeros(2)) = Len(records)
      /\ brackets' \in Nat /\ brackets' >= brackets /\ ocoHooked' \in BOOLEAN /\ (ocoHooked => ocoHooked')
      /\ active' = active /\ due' = due
  BY <1>1, <1>3, <1>4, <1>5, <1>6
<1> HIDE DEF g
<1> QED
  BY <1>3, <1>4, <1>5, <1>6, <1>8, <1>9, <1>10, <1>11, RowsAppended

\* The entry of a bracket waits with its callback registered.
LEMMA CreateBracketKeeps ==
    ASSUME ComplexIInv, NEW side \in Sides, NEW quantity \in Quantities, CreateBracket(side, quantity)
    PROVE  ComplexIInv'
<1> DEFINE g == Len(orders) + 1  entry == NewOrder(side, quantity, Limit, FALSE)
           records == <<entry>>  groups == <<g>>  roles == <<"ENTRY">>
<1>1. Len(orders) \in Nat /\ g \in Nat /\ brackets \in Nat /\ ocoHooked \in BOOLEAN
  BY DEF ComplexIInv, ComplexTypeOK
<1>2. entry \in Order /\ entry.status # "FILLED"
  BY LimitIsPrice, NewOrderIsOrder, SidesAssumption, QuantitiesAssumption
<1>3. Zeros(1) \in Seq(Nat) /\ Len(Zeros(1)) = 1
  BY ZerosSeq
<1>4. /\ Appended(orders, records, groups, roles) /\ brackets' = brackets + 1
      /\ revealed' = revealed \o Zeros(1)
      /\ UNCHANGED <<active, submitting, due, ocoHooked>>
  BY DEF CreateBracket
<1> HIDE DEF entry
<1>5. records \in Seq(Order) /\ roles \in Seq(Roles) /\ Len(records) = 1 /\ Len(roles) = 1
      /\ roles[1] = "ENTRY" /\ records[1] = entry
  BY <1>2 DEF Roles
<1> HIDE DEF records, roles
<1>6. groups \in Seq(Nat) /\ Len(groups) = 1 /\ groups[1] = g
  BY <1>1
<1> HIDE DEF groups
<1>7. \A i \in 1..Len(records) : i = 1
  BY <1>5
<1>8. FreshRows(records, groups, roles, Zeros(1))
  BY <1>1, <1>2, <1>4, <1>5, <1>6, <1>7 DEF FreshRows
<1>9. \A i \in 1..Len(records) : groups[i] <= Len(orders) + Len(records)
  BY <1>1, <1>5, <1>6, <1>7
<1>10. submitting' \subseteq submitting \cup {Len(orders) + i : i \in 1..Len(records)}
  BY <1>4
<1>11. /\ Len(groups) = Len(records) /\ Len(roles) = Len(records) /\ Len(Zeros(1)) = Len(records)
      /\ brackets' \in Nat /\ brackets' >= brackets /\ ocoHooked' \in BOOLEAN /\ (ocoHooked => ocoHooked')
      /\ active' = active /\ due' = due
  BY <1>1, <1>3, <1>4, <1>5, <1>6
<1> HIDE DEF g
<1> QED
  BY <1>3, <1>4, <1>5, <1>6, <1>8, <1>9, <1>10, <1>11, RowsAppended

\* An iceberg shows its first slice, no larger than it or than the display size.
LEMMA CreateIcebergKeeps ==
    ASSUME ComplexIInv, NEW side \in Sides, NEW quantity \in Quantities, CreateIceberg(side, quantity)
    PROVE  ComplexIInv'
<1> DEFINE p == Len(orders) + 1  parent == NewOrder(side, quantity, Limit, FALSE)
           size == SliceSize(quantity, 0)  slice == Slice(parent, size)
           records == <<parent, slice>>  groups == <<NoGroup, p>>  roles == <<"PARENT", "SLICE">>
           reveals == <<size, 0>>
<1>1. Len(orders) \in Nat /\ p \in Nat /\ brackets \in Nat /\ ocoHooked \in BOOLEAN
  BY DEF ComplexIInv, ComplexTypeOK
<1>2. parent \in Order /\ parent.quantity = quantity /\ parent.side = side /\ quantity \in Nat \ {0}
      /\ parent.limit = Limit
  BY LimitIsPrice, NewOrderIsOrder, SidesAssumption, QuantitiesAssumption DEF NewOrder
<1>3. size \in Nat \ {0} /\ size <= quantity /\ size <= DisplaySize
  BY <1>2, DisplayAssumption DEF SliceSize, Smaller
<1>4. /\ Appended(orders, records, groups, roles) /\ revealed' = revealed \o reveals
      /\ submitting' = submitting \cup {p + 1}
      /\ UNCHANGED <<active, due, ocoHooked, brackets>>
  BY DEF CreateIceberg
<1> HIDE DEF parent, size
<1>5. slice \in Order /\ slice.quantity = size
  <2> DEFINE fresh == NewOrder(parent.side, size, parent.limit, FALSE)
  <2>1. fresh \in Order /\ fresh.quantity = size
    <3> DEFINE made == NewOrder(side, size, Limit, FALSE)
    <3>1. side \in {"BUY", "SELL"} /\ Limit \in Prices \cup {Unlimited}
      BY LimitIsPrice, SidesAssumption
    <3>2. made \in Order /\ made.quantity = size
      BY <1>3, <3>1 DEF NewOrder, Order, Status
    <3>3. fresh = made
      BY <1>2
    <3> HIDE DEF fresh, made
    <3> QED
      BY <3>2, <3>3
  <2>2. slice = Moved(fresh, "PENDING_NEW", 0) /\ "PENDING_NEW" \in Status
    BY DEF Slice, Status
  <2> HIDE DEF fresh, slice
  <2> QED
    BY <2>1, <2>2, MovedOrder
<1> HIDE DEF slice
<1>6. records \in Seq(Order) /\ roles \in Seq(Roles) /\ Len(records) = 2 /\ Len(roles) = 2
      /\ roles[1] = "PARENT" /\ roles[2] = "SLICE" /\ records[1] = parent /\ records[2] = slice
  BY <1>2, <1>5 DEF Roles
<1> HIDE DEF records, roles
<1>7. groups \in Seq(Nat) /\ Len(groups) = 2 /\ groups[1] = NoGroup /\ groups[2] = p
  BY <1>1 DEF NoGroup
<1>8. reveals \in Seq(Nat) /\ Len(reveals) = 2 /\ reveals[1] = size
  BY <1>3
<1> HIDE DEF groups, reveals
<1>9. \A i \in 1..Len(records) : i \in {1, 2}
  BY <1>6
<1>10. FreshRows(records, groups, roles, reveals)
  <2>1. \A i, j \in 1..Len(records) : ~(i # j /\ groups[i] = groups[j] /\ groups[i] # NoGroup)
    BY <1>7, <1>9
  <2>2. 1 \in 1..Len(records) /\ 2 \in 1..Len(records)
    BY <1>6
  <2>3. p = (Len(orders) + 2) - 1 /\ p > Len(orders)
    BY <1>1
  <2> QED
    BY <1>2, <1>3, <1>5, <1>6, <1>7, <1>8, <1>9, <2>1, <2>2, <2>3 DEF FreshRows
<1>11. \A i \in 1..Len(records) : groups[i] <= Len(orders) + Len(records)
  BY <1>1, <1>6, <1>7, <1>9 DEF NoGroup
<1>12. submitting' \subseteq submitting \cup {Len(orders) + i : i \in 1..Len(records)}
  BY <1>1, <1>4, <1>6
<1>13. /\ Len(groups) = Len(records) /\ Len(roles) = Len(records) /\ Len(reveals) = Len(records)
      /\ brackets' \in Nat /\ brackets' >= brackets /\ ocoHooked' \in BOOLEAN /\ (ocoHooked => ocoHooked')
      /\ active' = active /\ due' = due
  BY <1>1, <1>4, <1>6, <1>7, <1>8
<1> HIDE DEF p
<1> QED
  BY <1>4, <1>6, <1>7, <1>8, <1>10, <1>11, <1>12, <1>13, RowsAppended

-----------------------------------------------------------------------------
(* Fills and the callbacks they run. *)

\* What a fill leaves of its order: as much was filled as the exits will ask for.
LEMMA FilledOrder ==
    ASSUME ComplexTypeOK, NEW o \in DOMAIN orders, NEW qty \in Quantities, CanFill(orders[o], qty, Limit)
    PROVE  LET b == Booked(orders[o], qty, Limit)
           IN  /\ b \in Order /\ b.status = FillStatus(orders[o], qty)
               /\ b.side = orders[o].side /\ b.quantity = orders[o].quantity
               /\ b.status \in {"FILLED", "PARTIALLY_FILLED"}
               /\ b.filled \in Nat \ {0}
               /\ b.status = "FILLED" <=> b.filled = b.quantity
               /\ b.filled <= b.quantity
               /\ orders[o].status \notin {"FILLED", "PENDING_NEW"}
<1> DEFINE r == orders[o]  b == Booked(r, qty, Limit)
<1>1. r \in Order /\ Limit \in Prices /\ qty \in Nat \ {0}
  BY LimitIsPrice, QuantitiesAssumption DEF ComplexTypeOK, TypeOK
<1>2. /\ b \in Order /\ b.status = FillStatus(r, qty)
      /\ b.side = r.side /\ b.quantity = r.quantity /\ b.filled = r.filled + qty
  BY <1>1, BookedOrder
<1>3. r.filled \in Nat /\ r.quantity \in Nat /\ qty <= r.quantity - r.filled
      /\ r.status \in {"NEW", "PARTIALLY_FILLED"}
  BY <1>1 DEF Order, CanFill, Remaining
<1>4. FillStatus(r, qty) \in {"FILLED", "PARTIALLY_FILLED"}
      /\ (FillStatus(r, qty) = "FILLED" <=> r.filled + qty = r.quantity)
  BY <1>1, <1>3 DEF FillStatus
<1> HIDE DEF b
<1>5. b.filled \in Nat \ {0} /\ b.filled <= b.quantity
  BY <1>1, <1>2, <1>3
<1>6. r.status \notin {"FILLED", "PENDING_NEW"}
  BY <1>3
<1> QED
  BY <1>2, <1>4, <1>5, <1>6 DEF b

\* A fill that does not complete its order runs no callback that changes anything: the
\* one of the slices would reveal the next only if the slice were full.
LEMMA PartialFillKeeps ==
    ASSUME ComplexIInv, NEW o \in DOMAIN orders, NEW qty \in Quantities, FillComplex(o, qty),
           FillStatus(orders[o], qty) # "FILLED"
    PROVE  /\ orders' = [orders EXCEPT ![o] = Booked(@, qty, Limit)]
           /\ UNCHANGED <<active, due, submitting, complexVars>>
           /\ ComplexIInv'
<1> DEFINE b == Booked(orders[o], qty, Limit)  table == [orders EXCEPT ![o] = b]
<1>1. ComplexTypeOK /\ CanFill(orders[o], qty, Limit)
  BY DEF ComplexIInv, FillComplex
<1>2. /\ b \in Order /\ b.status = FillStatus(orders[o], qty)
      /\ b.side = orders[o].side /\ b.quantity = orders[o].quantity
      /\ b.status = "FILLED" <=> b.filled = b.quantity
      /\ b.filled <= b.quantity /\ b.filled \in Nat /\ b.quantity \in Nat
  <2>1. b.quantity = orders[o].quantity /\ orders[o] \in Order
    BY <1>1, FilledOrder DEF ComplexTypeOK, TypeOK
  <2>2. orders[o].quantity \in Nat
    BY <2>1 DEF Order
  <2> HIDE DEF b
  <2> QED
    BY <1>1, <2>1, <2>2, FilledOrder DEF b
<1>3. table[o] = b
  OBVIOUS
<1>4. ~(table[o].filled >= table[o].quantity)
  <2> HIDE DEF b, table
  <2> QED
    BY <1>2, <1>3
<1>5. active' = active /\ due' = due /\ orders' = table /\ UNCHANGED <<submitting, complexVars>>
  BY <1>4 DEF FillComplex, PartialCallbacks
<1>6. active \subseteq DOMAIN orders /\ submitting \subseteq DOMAIN orders
  BY <1>1 DEF ComplexTypeOK, TypeOK
<1> HIDE DEF b
<1>7. ComplexIInv'
  BY <1>2, <1>5, <1>6, OneMoved DEF complexVars
<1> QED
  BY <1>5, <1>7 DEF b

\* Cancelling the siblings keeps the shape of the table and fills nothing.
LEMMA CancelledSiblings ==
    ASSUME ComplexTypeOK, NEW table, SameShape(table), NEW o \in DOMAIN orders
    PROVE  LET c == SiblingsCancelled(table, o)
           IN  /\ SameShape(c)
               /\ \A x \in DOMAIN orders : c[x].status = "FILLED" => table[x].status = "FILLED"
               /\ \A x \in DOMAIN orders : x \notin Siblings(o) => c[x] = table[x]
               /\ \A x \in Siblings(o) : x \in DOMAIN orders
                                      /\ c[x].status \notin {"NEW", "PARTIALLY_FILLED"}
<1> DEFINE c == SiblingsCancelled(table, o)  n == Len(orders)
           Next1(x) == IF x \in Siblings(o) /\ IsActive(table[x])
                       THEN Moved(table[x], "PENDING_CANCEL", 0) ELSE table[x]
<1>1. n \in Nat /\ DOMAIN orders = 1..n /\ DOMAIN table = 1..n /\ table \in Seq(Order)
      /\ \A x \in 1..n : table[x].side = orders[x].side /\ table[x].quantity = orders[x].quantity
  <2>1. orders \in Seq(Order) /\ table \in Seq(Order) /\ Len(table) = Len(orders)
    BY DEF ComplexTypeOK, SameShape
  <2>2. n \in Nat /\ DOMAIN orders = 1..n /\ DOMAIN table = 1..n
    BY <2>1
  <2> QED
    BY <2>1, <2>2 DEF SameShape
<1>2. c = [x \in 1..n |-> Next1(x)]
  BY <1>1 DEF SiblingsCancelled
<1>3. ASSUME NEW x \in 1..n
      PROVE  /\ Next1(x) \in Order
             /\ Next1(x).side = orders[x].side /\ Next1(x).quantity = orders[x].quantity
             /\ Next1(x).status = "FILLED" => table[x].status = "FILLED"
             /\ x \notin Siblings(o) => Next1(x) = table[x]
             /\ x \in Siblings(o) => Next1(x).status \notin {"NEW", "PARTIALLY_FILLED"}
  <2>1. table[x] \in Order /\ "PENDING_CANCEL" \in Status
    BY <1>1 DEF Status
  <2>2. table[x].side = orders[x].side /\ table[x].quantity = orders[x].quantity
    BY <1>1
  <2> DEFINE m == Moved(table[x], "PENDING_CANCEL", 0)
  <2>3. /\ m \in Order /\ m.side = table[x].side /\ m.quantity = table[x].quantity
        /\ m.status = IF CanMove(table[x], "PENDING_CANCEL") THEN "PENDING_CANCEL" ELSE table[x].status
    BY <2>1, MovedOrder
  <2>4. table[x].status \in {"NEW", "PARTIALLY_FILLED"} =>
            IsActive(table[x]) /\ CanMove(table[x], "PENDING_CANCEL")
    BY DEF IsActive, CanMove, ValidTransitions
  <2> HIDE DEF m
  <2>5. Next1(x) = IF x \in Siblings(o) /\ IsActive(table[x]) THEN m ELSE table[x]
    BY DEF m
  <2> HIDE DEF Next1
  <2>6. CASE x \in Siblings(o) /\ IsActive(table[x])
    <3>1. Next1(x) = m
      BY <2>5, <2>6
    <3> QED
      BY <2>2, <2>3, <2>4, <2>6, <3>1
  <2>7. CASE ~(x \in Siblings(o) /\ IsActive(table[x]))
    <3>1. Next1(x) = table[x]
      BY <2>5, <2>7
    <3> QED
      BY <2>1, <2>2, <2>4, <2>7, <3>1
  <2> QED
    BY <2>6, <2>7
<1> HIDE DEF Next1, n, c
<1>4. /\ c \in Seq(Order) /\ Len(c) = n /\ \A x \in 1..n : c[x] = Next1(x)
  BY <1>1, <1>2, <1>3
<1>5. Siblings(o) \subseteq DOMAIN orders
  BY DEF Siblings
<1>6. SameShape(c)
  BY <1>1, <1>3, <1>4 DEF SameShape, n
<1>7. /\ \A x \in DOMAIN orders : c[x].status = "FILLED" => table[x].status = "FILLED"
      /\ \A x \in DOMAIN orders : x \notin Siblings(o) => c[x] = table[x]
      /\ \A x \in Siblings(o) : x \in DOMAIN orders
                               /\ c[x].status \notin {"NEW", "PARTIALLY_FILLED"}
  BY <1>1, <1>3, <1>4, <1>5
<1> QED
  BY <1>6, <1>7 DEF c

\* The pairs that the exits are made of, place by place.
LEMMA PairsAre ==
    ASSUME NEW n \in Nat, NEW first, NEW second
    PROVE  /\ InPairs(n, first, second) = [i \in 1..2 * n |-> InPairs(n, first, second)[i]]
           /\ \A i \in 1..2 * n : InPairs(n, first, second)[i] = first \/ InPairs(n, first, second)[i] = second
           /\ n > 0 => InPairs(n, first, second)[1] = first /\ InPairs(n, first, second)[2] = second
<1>1. 2 * n \in Nat /\ (n > 0 => 1 \in 1..2 * n /\ 2 \in 1..2 * n)
  OBVIOUS
<1>2. 1 % 2 = 1 /\ 2 % 2 = 0
  OBVIOUS
<1> DEFINE k == 2 * n
<1> HIDE DEF k
<1>3. InPairs(n, first, second) = [i \in 1..k |-> IF i % 2 = 1 THEN first ELSE second]
  BY DEF InPairs, k
<1> QED
  BY <1>1, <1>2, <1>3 DEF k

\* The fill that completes an order cancels its siblings and gives an entry its exits.
LEMMA CompleteFillKeeps ==
    ASSUME ComplexIInv, NEW o \in DOMAIN orders, NEW qty \in Quantities, FillComplex(o, qty),
           FillStatus(orders[o], qty) = "FILLED"
    PROVE  /\ ComplexIInv'
           /\ \A x \in DOMAIN orders : orders'[x].status = "FILLED" => x = o \/ orders[x].status = "FILLED"
           /\ \A x \in Siblings(o) : orders'[x].status \notin {"NEW", "PARTIALLY_FILLED"}
<1> DEFINE b == Booked(orders[o], qty, Limit)
           table == [orders EXCEPT ![o] = b]
           c == IF ocoHooked THEN SiblingsCancelled(table, o) ELSE table
           n == Len(orders)  k == ExitPairs(o)
           tp == Exit(table[o], Limit)  sl == Exit(table[o], Unlimited)
           records == InPairs(k, tp, sl)
           groups == [i \in 1..2 * k |-> IF i % 2 = 1 THEN n + i ELSE n + i - 1]
           roles == InPairs(k, "TP", "SL")
<1>1. ComplexTypeOK /\ CanFill(orders[o], qty, Limit)
  BY DEF ComplexIInv, FillComplex
<1>2. /\ orders \in Seq(Order) /\ n \in Nat /\ DOMAIN orders = 1..n
      /\ brackets \in Nat /\ ocoHooked \in BOOLEAN
  BY <1>1 DEF ComplexTypeOK
<1>3. /\ b \in Order /\ b.status = "FILLED" /\ b.side = orders[o].side
      /\ b.quantity = orders[o].quantity /\ b.filled = b.quantity /\ b.filled \in Nat \ {0}
  <2>1. /\ b \in Order /\ b.status = "FILLED" /\ b.side = orders[o].side
        /\ b.quantity = orders[o].quantity /\ b.filled \in Nat \ {0}
        /\ b.status = "FILLED" <=> b.filled = b.quantity
    BY <1>1, FilledOrder
  <2> HIDE DEF b
  <2> QED
    BY <2>1
<1> HIDE DEF b
<1>4. table[o] = b /\ \A x \in DOMAIN orders : x # o => table[x] = orders[x]
  OBVIOUS
<1>5. table \in Seq(Order) /\ Len(table) = n
  BY <1>2, <1>3
<1>6. SameShape(table)
  BY <1>3, <1>4, <1>5 DEF SameShape
<1> HIDE DEF table
<1>7. /\ SameShape(c)
      /\ \A x \in DOMAIN orders : c[x].status = "FILLED" => table[x].status = "FILLED"
      /\ \A x \in Siblings(o) : c[x].status \notin {"NEW", "PARTIALLY_FILLED"} /\ x \in DOMAIN orders
  <2>1. CASE ocoHooked
    <3>1. c = SiblingsCancelled(table, o)
      BY <2>1
    <3> HIDE DEF c
    <3> QED
      BY <1>1, <1>6, <3>1, CancelledSiblings
  <2>2. CASE ~ocoHooked
    <3>1. c = table
      BY <2>2
    <3>2. Siblings(o) = {}
      <4>1. \A x, y \in DOMAIN orders : (x # y /\ group[x] = group[y] /\ group[x] # NoGroup) => ocoHooked
        BY DEF ComplexIInv
      <4> QED
        BY <2>2, <4>1 DEF Siblings
    <3> HIDE DEF c
    <3> QED
      BY <1>6, <3>1, <3>2
  <2> QED
    BY <2>1, <2>2
<1>8. k \in Nat /\ 2 * k \in Nat /\ (role[o] = "ENTRY" => k > 0)
  BY <1>2 DEF ExitPairs, ComplexIInv
<1>9. \A exit \in {tp, sl} : /\ exit \in Order /\ exit.quantity = orders[o].quantity
                             /\ exit.side = Opposite(orders[o].side)
  <2>1. Opposite(b.side) \in {"BUY", "SELL"}
    BY DEF Opposite
  <2>2. tp = NewOrder(Opposite(b.side), b.filled, Limit, FALSE)
        /\ sl = NewOrder(Opposite(b.side), b.filled, Unlimited, FALSE)
    BY <1>4 DEF Exit
  <2>3. Limit \in Prices
    BY LimitIsPrice
  <2> DEFINE side == Opposite(b.side)
  <2> HIDE DEF tp, sl, side
  <2>4. side \in {"BUY", "SELL"} /\ side = Opposite(orders[o].side) /\ b.filled = orders[o].quantity
        /\ b.filled \in Nat \ {0}
    BY <1>3, <2>1 DEF side
  <2>5. tp = NewOrder(side, b.filled, Limit, FALSE) /\ sl = NewOrder(side, b.filled, Unlimited, FALSE)
    BY <2>2 DEF side
  <2>6. tp \in Order /\ tp.quantity = b.filled /\ tp.side = side
    BY <2>3, <2>4, <2>5 DEF NewOrder, Order, Status
  <2>7. sl \in Order /\ sl.quantity = b.filled /\ sl.side = side
    BY <2>4, <2>5 DEF NewOrder, Order, Status
  <2> QED
    BY <2>4, <2>6, <2>7
<1>10. /\ Appended(c, records, groups, roles) /\ ocoHooked' = (ocoHooked \/ k > 0)
       /\ revealed' = revealed \o Zeros(2 * k) /\ UNCHANGED <<brackets, submitting, due>>
       /\ active' = active \ {o}
  <2>1. FilledCallbacks(table, o) /\ active' = active \ {o} /\ due' = due
    BY DEF FillComplex, table, b
  <2>2. Len(table) = n
    BY <1>5
  <2> QED
    BY <2>1, <2>2 DEF FilledCallbacks
<1> HIDE DEF c, tp, sl, k
<1>11. /\ records \in Seq(Order) /\ Len(records) = 2 * k
       /\ \A i \in 1..2 * k : records[i] \in {tp, sl}
       /\ k > 0 => records[1] = tp /\ records[2] = sl
  <2> DEFINE m == 2 * k
  <2>1. /\ records = [i \in 1..m |-> records[i]]
        /\ \A i \in 1..m : records[i] = tp \/ records[i] = sl
        /\ k > 0 => records[1] = tp /\ records[2] = sl
    BY <1>8, PairsAre
  <2>2. tp \in Order /\ sl \in Order /\ m \in Nat
    BY <1>8, <1>9
  <2> HIDE DEF records, m
  <2>3. \A i \in 1..m : records[i] \in Order
    BY <2>1, <2>2
  <2>4. records \in Seq(Order) /\ Len(records) = m
    BY <2>1, <2>2, <2>3
  <2> QED
    BY <2>1, <2>4 DEF m
<1>12. /\ roles \in Seq(Roles) /\ Len(roles) = 2 * k
       /\ \A i \in 1..2 * k : roles[i] \in {"TP", "SL"}
       /\ k > 0 => roles[1] = "TP" /\ roles[2] = "SL"
  <2> DEFINE m == 2 * k
  <2>1. /\ roles = [i \in 1..m |-> roles[i]]
        /\ \A i \in 1..m : roles[i] = "TP" \/ roles[i] = "SL"
        /\ k > 0 => roles[1] = "TP" /\ roles[2] = "SL"
    BY <1>8, PairsAre
  <2>2. "TP" \in Roles /\ "SL" \in Roles /\ m \in Nat
    BY <1>8 DEF Roles
  <2> HIDE DEF roles, m
  <2>3. \A i \in 1..m : roles[i] \in Roles
    BY <2>1, <2>2
  <2>4. roles \in Seq(Roles) /\ Len(roles) = m
    BY <2>1, <2>2, <2>3
  <2> QED
    BY <2>1, <2>4 DEF m
<1>13. /\ groups \in Seq(Nat) /\ Len(groups) = 2 * k
       /\ \A i \in 1..2 * k : groups[i] > n /\ groups[i] <= n + 2 * k
       /\ k > 0 => groups[1] = groups[2]
  <2> DEFINE m == 2 * k
             G(i) == IF i % 2 = 1 THEN n + i ELSE n + i - 1
  <2>1. m \in Nat /\ (k > 0 => 1 \in 1..m /\ 2 \in 1..m)
    BY <1>8
  <2>2. 1 % 2 = 1 /\ 2 % 2 = 0 /\ G(1) = G(2)
    BY <1>2
  <2>3. ASSUME NEW i \in 1..m PROVE G(i) \in Nat /\ G(i) > n /\ G(i) <= n + m
    <3>1. CASE i % 2 = 1
      BY <1>2, <2>1, <3>1
    <3>2. CASE i % 2 # 1
      <4>1. i # 1
        BY <2>2, <3>2
      <4> QED
        BY <1>2, <2>1, <3>2, <4>1
    <3> QED
      BY <3>1, <3>2
  <2>4. groups = [i \in 1..m |-> G(i)]
    OBVIOUS
  <2> HIDE DEF G, groups
  <2>5. groups \in Seq(Nat) /\ Len(groups) = m /\ \A i \in 1..m : groups[i] = G(i)
    BY <2>1, <2>3, <2>4
  <2> QED
    BY <2>1, <2>2, <2>3, <2>5
<1> HIDE DEF records, groups, roles
<1>14. Zeros(2 * k) \in Seq(Nat) /\ Len(Zeros(2 * k)) = 2 * k
  BY <1>8, ZerosSeq
<1>15. /\ Len(c) = n /\ NewRows(records, groups, roles, Zeros(2 * k))
       /\ Grown(c, records, groups, roles, Zeros(2 * k))
  <2>1. Len(c) = n
    BY <1>7 DEF SameShape
  <2>2. n + Len(records) <= MaxOrders /\ orders' = c \o records /\ group' = group \o groups /\ role' = role \o roles
    BY <1>10, <2>1 DEF Appended
  <2>3. NewRows(records, groups, roles, Zeros(2 * k))
    BY <1>11, <1>12, <1>13, <1>14, <2>2 DEF NewRows
  <2>4. Grown(c, records, groups, roles, Zeros(2 * k))
    BY <1>10, <2>2 DEF Grown
  <2> QED
    BY <2>1, <2>3, <2>4
<1>16. FreshRows(records, groups, roles, Zeros(2 * k))
  <2>1. k > 0 \/ 2 * k = 0
    BY <1>8
  <2>2. ASSUME NEW i \in 1..Len(records)
        PROVE  roles[i] \notin {"ENTRY", "PARENT", "SLICE"} /\ groups[i] > n /\ k > 0
    BY <1>11, <1>12, <1>13, <2>1
  <2>3. k > 0 => ocoHooked' = TRUE
    BY <1>10
  <2> QED
    BY <2>2, <2>3 DEF FreshRows
<1>17. FillsAreProtected(c, records, groups, roles)
  <2> SUFFICES ASSUME NEW e \in DOMAIN orders, role[e] = "ENTRY",
                      c[e].status = "FILLED", orders[e].status # "FILLED"
               PROVE  /\ \A d \in DOMAIN orders :
                            (c[d].status = "FILLED" /\ orders[d].status # "FILLED") => d = e
                      /\ \E i, j \in 1..Len(records) :
                         /\ roles[i] = "TP" /\ roles[j] = "SL" /\ groups[i] = groups[j]
                         /\ records[i].quantity = orders[e].quantity /\ records[j].quantity = orders[e].quantity
                         /\ records[i].side = Opposite(orders[e].side) /\ records[j].side = Opposite(orders[e].side)
    BY DEF FillsAreProtected
  <2>1. \A d \in DOMAIN orders : (c[d].status = "FILLED" /\ orders[d].status # "FILLED") => d = o
    BY <1>4, <1>7
  <2>2. k > 0 /\ 1 \in 1..Len(records) /\ 2 \in 1..Len(records)
    BY <1>8, <1>11, <2>1
  <2>3. roles[1] = "TP" /\ roles[2] = "SL" /\ groups[1] = groups[2] /\ records[1] = tp /\ records[2] = sl
    BY <1>11, <1>12, <1>13, <2>2
  <2> QED
    BY <1>9, <2>1, <2>2, <2>3
<1>18. /\ Len(orders') = n + Len(records) /\ Len(records) \in Nat
       /\ DOMAIN orders' = 1..Len(orders') /\ \A x \in 1..n : orders'[x] = c[x]
  BY <1>1, <1>7, <1>15, RowByRow
<1>19. DOMAIN orders \subseteq DOMAIN orders'
  BY <1>2, <1>18
<1>20. active \subseteq DOMAIN orders /\ submitting \subseteq DOMAIN orders /\ due \subseteq DOMAIN orders
  BY <1>1 DEF ComplexTypeOK, TypeOK
<1>21. active' \subseteq DOMAIN orders' /\ submitting' \subseteq DOMAIN orders' /\ due' \subseteq DOMAIN orders'
  BY <1>10, <1>19, <1>20
<1>22. brackets' \in Nat /\ brackets' >= brackets /\ ocoHooked' \in BOOLEAN /\ (ocoHooked => ocoHooked')
  BY <1>2, <1>10
<1> HIDE DEF n
<1>23. ComplexIInv'
  BY <1>7, <1>15, <1>16, <1>17, <1>21, <1>22, GrownKeeps
<1>24. \A x \in DOMAIN orders : orders'[x].status = "FILLED" => x = o \/ orders[x].status = "FILLED"
  BY <1>2, <1>4, <1>7, <1>18
<1>25. \A x \in Siblings(o) : orders'[x].status \notin {"NEW", "PARTIALLY_FILLED"}
  BY <1>2, <1>7, <1>18
<1> QED
  BY <1>23, <1>24, <1>25

-----------------------------------------------------------------------------
(* The theorems. *)

LEMMA ComplexInitially == ComplexInit => ComplexIInv
<1> SUFFICES ASSUME ComplexInit PROVE ComplexIInv
  OBVIOUS
<1>1. /\ DOMAIN orders = {} /\ active = {} /\ submitting = {} /\ due = {}
      /\ group = << >> /\ role = << >> /\ revealed = << >> /\ ocoHooked = FALSE /\ brackets = 0
  BY DEF ComplexInit, Init
<1>2. orders = << >>
  BY DEF ComplexInit, Init
<1>3. ComplexTypeOK
  <2>1. << >> \in Seq(Order) /\ << >> \in Seq(Nat) /\ << >> \in Seq(Roles) /\ Len(<< >>) = 0
    OBVIOUS
  <2>2. TypeOK
    BY <1>1 DEF TypeOK
  <2>3. brackets \in Nat /\ ocoHooked \in BOOLEAN
    BY <1>1
  <2> QED
    BY <1>1, <1>2, <2>1, <2>2, <2>3 DEF ComplexTypeOK
<1> QED
  <2>1. FilledEntries = {}
    BY <1>1 DEF FilledEntries
  <2>2. [e \in {} |-> e] \in Injection({}, DOMAIN orders)
    BY DEF Injection, IsInjective
  <2>3. FilledEntryIsProtected
    BY <2>1, <2>2 DEF FilledEntryIsProtected
  <2> QED
    BY <1>1, <1>3, <2>3 DEF ComplexIInv, OneSliceEach

\* Every step keeps the invariant, and only the fill of an order, which cancels the
\* siblings of the order, makes it FILLED.
LEMMA ComplexStep ==
    ASSUME ComplexIInv, [ComplexNext]_allVars
    PROVE  /\ ComplexIInv'
           /\ \A o \in DOMAIN orders : (orders[o].status # "FILLED" /\ orders'[o].status = "FILLED") =>
                 \A x \in Siblings(o) : orders'[x].status \notin {"NEW", "PARTIALLY_FILLED"}
<1> DEFINE Quiet == \A o \in DOMAIN orders : orders'[o].status = "FILLED" => orders[o].status = "FILLED"
           Works == \A o \in DOMAIN orders : (orders[o].status # "FILLED" /\ orders'[o].status = "FILLED") =>
                       \A x \in Siblings(o) : orders'[x].status \notin {"NEW", "PARTIALLY_FILLED"}
<1>0. ComplexTypeOK
  BY DEF ComplexIInv
<1>1. ASSUME CreateSome PROVE ComplexIInv' /\ Quiet
  <2>1. PICK side \in Sides, quantity \in Quantities :
            CreateOco(side, quantity) \/ CreateBracket(side, quantity) \/ CreateIceberg(side, quantity)
    BY <1>1, RequestsAssumption DEF CreateSome
  <2>2. ComplexIInv'
    BY <2>1, CreateOcoKeeps, CreateBracketKeeps, CreateIcebergKeeps
  <2>3. PICK a, b : orders' = orders \o <<a, b>> \/ orders' = orders \o <<a>>
    BY <2>1, Zenon DEF CreateOco, CreateBracket, CreateIceberg, Appended
  <2>4. orders \in Seq(Order)
    BY <1>0 DEF ComplexTypeOK
  <2>5. \A o \in DOMAIN orders : orders'[o] = orders[o]
    BY <2>3, <2>4
  <2> QED
    BY <2>2, <2>5
<1>2. ASSUME NEW o \in DOMAIN orders, FillSome(o) PROVE ComplexIInv' /\ Works
  <2>1. PICK qty \in Quantities : FillComplex(o, qty)
    BY <1>2 DEF FillSome
  <2>2. CASE FillStatus(orders[o], qty) = "FILLED"
    BY <2>1, <2>2, CompleteFillKeeps
  <2>3. CASE FillStatus(orders[o], qty) # "FILLED"
    <3>1. orders' = [orders EXCEPT ![o] = Booked(@, qty, Limit)] /\ ComplexIInv'
      BY <2>1, <2>3, PartialFillKeeps
    <3>2. CanFill(orders[o], qty, Limit)
      BY <2>1 DEF FillComplex
    <3>3. Booked(orders[o], qty, Limit).status = FillStatus(orders[o], qty)
      BY <1>0, <3>2, FilledOrder
    <3>4. Quiet
      BY <2>3, <3>1, <3>3
    <3> QED
      BY <3>1, <3>4
  <2> QED
    BY <2>2, <2>3
<1>3. ASSUME NEW o \in DOMAIN orders, UNCHANGED complexVars,
             SubmitOrder(o) \/ Reject(o) \/ Accept(o) \/ CancelOrder(o)
      PROVE  ComplexIInv' /\ Quiet
  <2>1. ComplexIInv'
    BY <1>3, LifecycleKeeps
  <2>2. PICK new \in Status \ {"FILLED"} : orders' = [orders EXCEPT ![o] = Moved(@, new, 0)]
    <3>1. /\ "PENDING_NEW" \in Status \ {"FILLED"} /\ "REJECTED" \in Status \ {"FILLED"}
          /\ "NEW" \in Status \ {"FILLED"} /\ "PENDING_CANCEL" \in Status \ {"FILLED"}
      BY DEF Status
    <3> QED
      BY <1>3, <3>1 DEF SubmitOrder, Reject, Accept, CancelOrder
  <2>3. orders[o] \in Order
    BY <1>0 DEF ComplexTypeOK, TypeOK
  <2>4. Moved(orders[o], new, 0).status = "FILLED" => orders[o].status = "FILLED"
    BY <2>3, MovedOrder
  <2> QED
    BY <2>1, <2>2, <2>4
<1>4. ASSUME UNCHANGED allVars PROVE ComplexIInv' /\ Quiet
  <2>1. orders' = orders /\ UNCHANGED <<active, submitting, due, group, role, ocoHooked, brackets, revealed>>
    BY <1>4 DEF allVars, vars, complexVars
  <2>2. FilledEntries' = FilledEntries /\ \A x, e \in DOMAIN orders : Protects(x, e)' = Protects(x, e)
    BY <2>1 DEF FilledEntries, Protects
  <2>3. FilledEntryIsProtected'
    <3>1. PICK exit \in Injection(FilledEntries, DOMAIN orders) : \A e \in FilledEntries :
            /\ role[exit[e]] = "TP" /\ Protects(exit[e], e)
            /\ \E sl \in DOMAIN orders :
                  role[sl] = "SL" /\ group[sl] = group[exit[e]] /\ Protects(sl, e)
      BY DEF ComplexIInv, FilledEntryIsProtected
    <3>2. exit \in Injection(FilledEntries', DOMAIN orders')
      BY <2>1, <2>2, <3>1
    <3>3. \A e \in FilledEntries' :
            /\ role'[exit[e]] = "TP" /\ Protects(exit[e], e)'
            /\ \E sl \in DOMAIN orders' :
                  role'[sl] = "SL" /\ group'[sl] = group'[exit[e]] /\ Protects(sl, e)'
      BY <2>1, <2>2, <3>1 DEF Protects
    <3> QED
      BY <3>2, <3>3 DEF FilledEntryIsProtected
  <2>4. ComplexIInv'
    BY <2>1, <2>3 DEF ComplexIInv, ComplexTypeOK, TypeOK, OneSliceEach
  <2> QED
    BY <2>1, <2>4
<1>5. Quiet => Works
  OBVIOUS
<1> HIDE DEF Quiet, Works
<1>6. ComplexIInv' /\ Works
  BY <1>1, <1>2, <1>3, <1>4, <1>5 DEF ComplexNext
<1> QED
  BY <1>6 DEF Works

THEOREM ComplexInvariance == ComplexSpec => []ComplexIInv
<1>1. ComplexIInv /\ [ComplexNext]_allVars => ComplexIInv'
  BY ComplexStep
<1> QED
  BY ComplexInitially, <1>1, PTL DEF ComplexSpec

\* The tables of the complex orders keep their types and grow together.
THEOREM ComplexTypeCorrect == ComplexSpec => []ComplexTypeOK
<1>1. ComplexIInv => ComplexTypeOK
  BY DEF ComplexIInv
<1> QED
  BY <1>1, ComplexInvariance, PTL

\* Every entry that filled has a take-profit and a stop for itself, of its size and on
\* the other side.
THEOREM FilledEntriesAreProtected == ComplexSpec => []FilledEntryIsProtected
<1>1. ComplexIInv => FilledEntryIsProtected
  BY DEF ComplexIInv
<1> QED
  BY <1>1, ComplexInvariance, PTL

\* When an order fills, no order of its group is left working.
THEOREM SiblingsStopWorking == ComplexSpec => NoSiblingWorksAfterFill
<1>1. ComplexIInv /\ [ComplexNext]_allVars =>
        [\A o \in DOMAIN orders :
            (orders[o].status # "FILLED" /\ orders'[o].status = "FILLED") =>
                \A x \in Siblings(o) : orders'[x].status \notin {"NEW", "PARTIALLY_FILLED"}]_allVars
  BY ComplexStep
<1> QED
  BY <1>1, ComplexInvariance, PTL DEF ComplexSpec, NoSiblingWorksAfterFill
=============================================================================
