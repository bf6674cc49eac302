------------------------------- MODULE NestedOms -------------------------------
(***************************************************************************)
(* OMS of src/execution/oms.py with the PaperBroker of                     *)
(* src/execution/brokers/paper.py: submissions are queued, the processing  *)
(* loop places them one by one, and cancellations come in beside it.       *)
(*                                                                         *)
(* The OMS and the broker hold the same Order object, so that a status has *)
(* one value. _lock is never held over an await that suspends with this    *)
(* broker, and is left out. Fill prices and positions follow from which    *)
(* orders were filled.                                                     *)
(***************************************************************************)
EXTENDS Integers, Sequences

CONSTANTS
    Orders,    \* ids of orders
    Loops      \* names for the loops that start() creates

VARIABLES
    running,      \* _running
    connecting,   \* start() awaits broker.connect()
    loop,         \* where each _process_loop is
    taken,        \* the order a loop executes, or None
    queue,        \* _pending
    known,        \* _orders
    orderStatus,  \* Order.status
    placed,       \* the broker's _orders
    brokerFills,  \* orders the broker filled
    fills         \* how many fills OrderState.fills has of an order

None == "none"

OmsConstants == None \notin Orders

omsVars == <<running, connecting, loop, taken, queue, known, orderStatus, placed, brokerFills, fills>>

Init ==
    /\ running = FALSE /\ connecting = FALSE
    /\ loop = [l \in Loops |-> "new"]
    /\ taken = [l \in Loops |-> None]
    /\ queue = <<>>
    /\ known = {} /\ placed = {} /\ brokerFills = {}
    /\ orderStatus = [o \in Orders |-> "PENDING"]
    /\ fills = [o \in Orders |-> 0]

Elsewhere == UNCHANGED <<queue, known, orderStatus, placed, brokerFills, fills>>

-----------------------------------------------------------------------------
(* start, stop and the callers *)

Start ==
    /\ ~connecting /\ \E l \in Loops : loop[l] = "new"
    /\ running' = TRUE /\ connecting' = TRUE
    /\ UNCHANGED <<loop, taken>> /\ Elsewhere

(* A loop that has not noticed a stop yet goes on beside the new one.      *)
Connected ==
    /\ connecting /\ connecting' = FALSE
    /\ \E l \in Loops : loop[l] = "new" /\ loop' = [loop EXCEPT ![l] = "head"]
    /\ UNCHANGED <<running, taken>> /\ Elsewhere

Stop ==
    /\ running /\ running' = FALSE
    /\ UNCHANGED <<connecting, loop, taken>> /\ Elsewhere

Submitted(o) == o \in known \/ \E i \in DOMAIN queue : queue[i] = o

SubmitOrder(o) ==
    /\ ~Submitted(o) /\ \A l \in Loops : taken[l] # o
    /\ queue' = Append(queue, o)
    /\ UNCHANGED <<running, connecting, loop, taken, known, orderStatus, placed, brokerFills, fills>>

(* The broker cancels whatever it knows, filled orders included; before it *)
(* knows the order cancel returns False and nothing changes.               *)
Cancel(o) ==
    /\ o \in known /\ o \in placed
    /\ orderStatus' = [orderStatus EXCEPT ![o] = "CANCELLED"]
    /\ UNCHANGED <<running, connecting, loop, taken, queue, known, placed, brokerFills, fills>>

-----------------------------------------------------------------------------
(* _process_loop and _execute_order *)

Goes(l, there) == loop' = [loop EXCEPT ![l] = there]

LoopHead(l) ==
    /\ loop[l] = "head"
    /\ Goes(l, IF running THEN "waiting" ELSE "ended")
    /\ UNCHANGED <<running, connecting, taken>> /\ Elsewhere

(* One second without an order. *)
TimesOut(l) ==
    /\ loop[l] = "waiting" /\ queue = <<>>
    /\ Goes(l, "head")
    /\ UNCHANGED <<running, connecting, taken>> /\ Elsewhere

(* The order is taken out of the queue and registered. *)
Removed_LeftInQueue == queue

Removed == Tail(queue)

Take(l) ==
    /\ loop[l] = "waiting" /\ queue # <<>>
    /\ taken' = [taken EXCEPT ![l] = Head(queue)]
    /\ queue' = Removed
    /\ known' = known \cup {Head(queue)}
    /\ Goes(l, "placing")
    /\ UNCHANGED <<running, connecting, orderStatus, placed, brokerFills, fills>>

(* place_order after its latency; the OMS stores the answer. *)
Placed(l) ==
    LET o == taken[l] IN
    /\ loop[l] = "placing"
    /\ \/ /\ orderStatus' = [orderStatus EXCEPT ![o] = "FILLED"]
          /\ brokerFills' = brokerFills \cup {o}
       \/ /\ orderStatus' = [orderStatus EXCEPT ![o] = "REJECTED"]
          /\ UNCHANGED brokerFills
    /\ placed' = placed \cup {o}
    /\ Goes(l, "publishing")
    /\ UNCHANGED <<running, connecting, taken, queue, known, fills>>

PlacementFails(l) ==
    /\ loop[l] = "placing"
    /\ orderStatus' = [orderStatus EXCEPT ![taken[l]] = "REJECTED"]
    /\ taken' = [taken EXCEPT ![l] = None]
    /\ Goes(l, "head")
    /\ UNCHANGED <<running, connecting, queue, known, placed, brokerFills, fills>>

(* The status is read after the event was published, which may suspend.    *)
StatusRead_NeverFilled(o) == FALSE

StatusRead(o) == orderStatus[o] = "FILLED"

HandleFill(l) ==
    LET o == taken[l] IN
    /\ loop[l] = "publishing"
    /\ fills' = IF StatusRead(o) THEN [fills EXCEPT ![o] = @ + 1] ELSE fills
    /\ taken' = [taken EXCEPT ![l] = None]
    /\ Goes(l, "head")
    /\ UNCHANGED <<running, connecting, queue, known, orderStatus, placed, brokerFills>>

Step(l) ==
    LoopHead(l) \/ TimesOut(l) \/ Take(l) \/ Placed(l) \/ PlacementFails(l) \/ HandleFill(l)

Next ==
    \/ Start \/ Connected \/ Stop
    \/ \E o \in Orders : SubmitOrder(o) \/ Cancel(o)
    \/ \E l \in Loops : Step(l)

Fairness == WF_omsVars(Connected) /\ \A l \in Loops : WF_omsVars(Step(l))

Spec == Init /\ [][Next]_omsVars /\ Fairness

-----------------------------------------------------------------------------
TypeOK ==
    /\ running \in BOOLEAN /\ connecting \in BOOLEAN
    /\ loop \in [Loops -> {"new", "head", "waiting", "placing", "publishing", "ended"}]
    /\ taken \in [Loops -> Orders \cup {None}]
    /\ queue \in Seq(Orders)
    /\ known \subseteq Orders /\ placed \subseteq known /\ brokerFills \subseteq placed
    /\ orderStatus \in [Orders -> {"PENDING", "FILLED", "REJECTED", "CANCELLED"}]
    /\ fills \in [Orders -> Nat]

(* A restart may leave two loops running; an order is still placed by one  *)
(* of them only, and the books have its fill at most once, and never one   *)
(* the broker does not have.                                               *)
PlacedByOne ==
    /\ \A k, l \in Loops : k # l /\ taken[k] # None => taken[k] # taken[l]
    /\ \A o \in Orders : fills[o] <= IF o \in brokerFills THEN 1 ELSE 0

(* Inductive: an order is in the queue once, then known and with one loop   *)
(* at most, which places it before its fill is booked.                     *)
LoopInv(l) ==
    /\ taken[l] # None <=> loop[l] \in {"placing", "publishing"}
    /\ taken[l] # None => taken[l] \in known /\ fills[taken[l]] = 0
    /\ loop[l] = "placing" => taken[l] \notin placed

IInv ==
    /\ TypeOK /\ PlacedByOne
    /\ \A i \in DOMAIN queue : queue[i] \notin known
    /\ \A i, j \in DOMAIN queue : queue[i] = queue[j] => i = j
    /\ \A l \in Loops : LoopInv(l)
    /\ \A o \in Orders : orderStatus[o] = "FILLED" => o \in brokerFills

(* While the OMS runs, every submission is placed or refused at last; and  *)
(* a fill of the broker reaches the books, even through a stop, unless the *)
(* order is cancelled before it is booked.                                 *)
SubmissionsSettle ==
    \A o \in Orders :
        /\ Submitted(o) /\ running ~> (o \in known /\ orderStatus[o] # "PENDING") \/ ~running
        /\ o \in brokerFills ~> fills[o] = 1 \/ orderStatus[o] = "CANCELLED"

(* What the code does not do: a cancelled order took no fill.              *)
CancelledIsNotFilled ==
    \A o \in Orders : orderStatus[o] = "CANCELLED" => o \notin brokerFills
=============================================================================
