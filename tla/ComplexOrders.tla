----------------------------- MODULE ComplexOrders -----------------------------
(***************************************************************************)
(* ComplexOrderManager of execution/oms.py on top of OrderLifecycle:       *)
(* one-cancels-other groups, brackets and icebergs, built from callbacks   *)
(* that OrderLifecycleManager._transition runs inside the step that        *)
(* changes a status. A callback is registered for every order of the       *)
(* manager, so each group's callback sees the fills of all the others.     *)
(*                                                                         *)
(* Order ids are 1, 2, ... in the order of creation: orders is a sequence. *)
(* No order here has an expires_at, and parent_order_id is the id of the   *)
(* first order of a group (a fresh uuid4 in the code).                     *)
(***************************************************************************)
EXTENDS OrderLifecycle, Functions

CONSTANTS
    MaxOrders,   \* bound: orders ever created
    MaxRequests, \* bound: groups and icebergs callers ask for
    Lots,        \* quantities callers ask for
    DisplaySize, \* display_size of the icebergs
    Sides        \* sides a caller asks for

ASSUME OrdersAssumption == MaxOrders \in Nat /\ Orders = 1..MaxOrders
ASSUME RequestsAssumption == MaxRequests \in Nat /\ Lots \subseteq Quantities
ASSUME DisplayAssumption == DisplaySize \in Nat \ {0}
ASSUME SidesAssumption == Sides \subseteq {"BUY", "SELL"}
ASSUME LimitAssumption == Prices # {}

VARIABLES
    group,     \* parent_order_id of every order, NoGroup for None
    role,      \* what tags say of every order
    ocoHooked, \* some create_oco has registered its FILLED callback
    brackets,  \* FILLED callbacks registered by create_bracket
    revealed   \* metadata['revealed'] of every iceberg parent, 0 for other orders

complexVars == <<group, role, ocoHooked, brackets, revealed>>
allVars == <<vars, complexVars>>

NoGroup == 0
Roles == {"OCO", "ENTRY", "TP", "SL", "PARENT", "SLICE"}

\* The limit price of every order: prices do not matter to the groups.
Limit == CHOOSE p \in Prices : TRUE

Opposite(side) == IF side = "BUY" THEN "SELL" ELSE "BUY"

ComplexInit ==
    /\ Init
    /\ group = << >>
    /\ role = << >>
    /\ ocoHooked = FALSE
    /\ brackets = 0
    /\ revealed = << >>

(* The orders of one method, appended to the tables.                       *)
Appended(table, records, groups, roles) ==
    /\ Len(table) + Len(records) <= MaxOrders
    /\ orders' = table \o records
    /\ group' = group \o groups
    /\ role' = role \o roles

Zeros(n) == [i \in 1..n |-> 0]

-----------------------------------------------------------------------------
(* create_oco: two orders in one group. *)
CreateOco(side, quantity) ==
    LET g == Len(orders) + 1
        leg == NewOrder(side, quantity, Limit, FALSE)
    IN  /\ Appended(orders, <<leg, leg>>, <<g, g>>, <<"OCO", "OCO">>)
        /\ ocoHooked' = TRUE
        /\ revealed' = revealed \o Zeros(2)
        /\ UNCHANGED <<active, submitting, due, brackets>>

(* create_bracket: only the entry is created; a callback waits for it.     *)
CreateBracket(side, quantity) ==
    LET g == Len(orders) + 1
    IN  /\ Appended(orders, <<NewOrder(side, quantity, Limit, FALSE)>>, <<g>>, <<"ENTRY">>)
        /\ brackets' = brackets + 1
        /\ revealed' = revealed \o Zeros(1)
        /\ UNCHANGED <<active, submitting, due, ocoHooked>>

Smaller(a, b) == IF a <= b THEN a ELSE b

(* _reveal_slice: what the next slice of an iceberg shows.                 *)
SliceSize(total, shown) == Smaller(DisplaySize, total - shown)

(* A slice as _reveal_slice leaves it: created and submitted at once.      *)
Slice(parent, size) ==
    Moved(NewOrder(parent.side, size, parent.limit, FALSE), "PENDING_NEW", 0)

(* create_iceberg: the parent is never submitted by the manager, its first *)
(* slice is.                                                               *)
CreateIceberg(side, quantity) ==
    LET p == Len(orders) + 1
        parent == NewOrder(side, quantity, Limit, FALSE)
        size == SliceSize(quantity, 0)
    IN  /\ Appended(orders, <<parent, Slice(parent, size)>>, <<NoGroup, p>>, <<"PARENT", "SLICE">>)
        /\ revealed' = revealed \o <<size, 0>>
        /\ submitting' = submitting \cup {p + 1}
        /\ UNCHANGED <<active, due, ocoHooked, brackets>>

-----------------------------------------------------------------------------
(* The callbacks, as functions of the table after the fill of o. *)

Siblings(o) == {x \in DOMAIN orders : group[x] = group[o] /\ group[o] # NoGroup /\ x # o}

SiblingsCancelled_UnfilledOnly(table, o) ==
    [x \in DOMAIN table |-> IF x \in Siblings(o) /\ table[x].status = "NEW"
                            THEN Moved(table[x], "PENDING_CANCEL", 0) ELSE table[x]]

(* _cancel_siblings: cancel_order on every active sibling; the transition  *)
(* is refused for one whose submission is still in flight.                 *)
SiblingsCancelled(table, o) ==
    [x \in DOMAIN table |-> IF x \in Siblings(o) /\ IsActive(table[x])
                            THEN Moved(table[x], "PENDING_CANCEL", 0) ELSE table[x]]

Exit_SameSide(entry, limit) == NewOrder(entry.side, entry.filled, limit, FALSE)

Exit_SizeOfRemainder(entry, limit) ==
    NewOrder(Opposite(entry.side), Remaining(entry), limit, FALSE)

(* An order of _place_bracket_exits: created, and not submitted.           *)
Exit(entry, limit) == NewOrder(Opposite(entry.side), entry.filled, limit, FALSE)

(* Every bracket's callback runs for the fill of every entry.              *)
ExitPairs(o) == IF role[o] = "ENTRY" THEN brackets ELSE 0

InPairs(n, first, second) == [i \in 1..2 * n |-> IF i % 2 = 1 THEN first ELSE second]

FilledCallbacks(table, o) ==
    LET n == ExitPairs(o)
        cancelled == IF ocoHooked THEN SiblingsCancelled(table, o) ELSE table
        base == Len(table)
    IN  /\ Appended(cancelled,
               InPairs(n, Exit(table[o], Limit), Exit(table[o], Unlimited)),
               [i \in 1..2 * n |-> IF i % 2 = 1 THEN base + i ELSE base + i - 1],
               InPairs(n, "TP", "SL"))
        /\ ocoHooked' = (ocoHooked \/ n > 0)
        /\ revealed' = revealed \o Zeros(2 * n)
        /\ UNCHANGED <<brackets, submitting>>

(* _check_reveal_next runs when a slice becomes PARTIALLY_FILLED and       *)
(* reveals the next one if the slice is full.                              *)
PartialCallbacks(table, o) ==
    LET p == group[o]
        parent == table[p]
        size == SliceSize(parent.quantity, revealed[p])
    IN  IF role[o] = "SLICE" /\ table[o].filled >= table[o].quantity /\ size > 0
        THEN /\ Appended(table, <<Slice(parent, size)>>, <<p>>, <<"SLICE">>)
             /\ revealed' = Append([revealed EXCEPT ![p] = @ + size], 0)
             /\ submitting' = submitting \cup {Len(table) + 1}
             /\ UNCHANGED <<ocoHooked, brackets>>
        ELSE orders' = table /\ UNCHANGED <<submitting, complexVars>>

(* fill_order with the callbacks its transition runs: a second partial     *)
(* fill is booked, its transition refused, and no callback runs.           *)
FillComplex(o, qty) ==
    LET new == FillStatus(orders[o], qty)
        table == [orders EXCEPT ![o] = Booked(@, qty, Limit)]
    IN  /\ CanFill(orders[o], qty, Limit)
        /\ active' = IF new = "FILLED" THEN active \ {o} ELSE active
        /\ UNCHANGED due
        /\ IF new = "FILLED" THEN FilledCallbacks(table, o)
           ELSE IF new # orders[o].status THEN PartialCallbacks(table, o)
           ELSE orders' = table /\ UNCHANGED <<submitting, complexVars>>

FillSome(o) == \E qty \in Quantities : FillComplex(o, qty)

-----------------------------------------------------------------------------
\* The first orders of what callers asked for; exits have groups of their own.
Requests ==
    {x \in DOMAIN orders : role[x] = "PARENT" \/ (role[x] \in {"OCO", "ENTRY"} /\ group[x] = x)}

CreateSome ==
    /\ Cardinality(Requests) < MaxRequests
    /\ \E side \in Sides, quantity \in Lots :
        \/ CreateOco(side, quantity)
        \/ CreateBracket(side, quantity)
        \/ CreateIceberg(side, quantity)

ComplexNext ==
    \/ CreateSome
    \/ \E o \in DOMAIN orders :
        \/ FillSome(o)
        \/ (SubmitOrder(o) \/ Reject(o) \/ Accept(o) \/ CancelOrder(o)) /\ UNCHANGED complexVars

ComplexSpec == ComplexInit /\ [][ComplexNext]_allVars

(* The submission tasks end; the market may leave any order unfilled.      *)
ComplexFairSpec ==
    ComplexSpec /\ \A o \in Orders :
        WF_allVars(o \in DOMAIN orders /\ (Reject(o) \/ Accept(o)) /\ UNCHANGED complexVars)

-----------------------------------------------------------------------------
(* The tables grow together, one row per order.                            *)
ComplexTypeOK ==
    /\ TypeOK
    /\ orders \in Seq(Order) /\ group \in Seq(Nat) /\ role \in Seq(Roles) /\ revealed \in Seq(Nat)
    /\ Len(group) = Len(orders) /\ Len(role) = Len(orders) /\ Len(revealed) = Len(orders)
    /\ \A x \in DOMAIN orders : group[x] <= Len(orders)
    /\ brackets \in Nat /\ ocoHooked \in BOOLEAN

(* The step that fills a leg leaves no sibling that a fill could still     *)
(* reach: a sibling that works in the market is on its way out.            *)
NoSiblingWorksAfterFill ==
    [][\A o \in DOMAIN orders :
            (orders[o].status # "FILLED" /\ orders'[o].status = "FILLED") =>
                \A x \in Siblings(o) : orders'[x].status \notin {"NEW", "PARTIALLY_FILLED"}]_allVars

Protects(x, e) == orders[x].quantity = orders[e].quantity /\ orders[x].side = Opposite(orders[e].side)

FilledEntries == {e \in DOMAIN orders : role[e] = "ENTRY" /\ orders[e].status = "FILLED"}

(* A filled entry never lacks its protection, and shares it with no other: *)
(* each has a take-profit and a stop of one group for itself, both of its  *)
(* size and on the other side, however often the callbacks of the brackets *)
(* ran and whatever the fills of other orders cancelled.                   *)
FilledEntryIsProtected ==
    \E exit \in Injection(FilledEntries, DOMAIN orders) : \A e \in FilledEntries :
        /\ role[exit[e]] = "TP" /\ Protects(exit[e], e)
        /\ \E sl \in DOMAIN orders :
              role[sl] = "SL" /\ group[sl] = group[exit[e]] /\ Protects(sl, e)

Slices(p) == {x \in DOMAIN orders : role[x] = "SLICE" /\ group[x] = p}

-----------------------------------------------------------------------------
(* What the docstrings promise and the code does not do.                   *)

(* create_oco: "When one fills, others are automatically cancelled."       *)
OneOfTheGroupFills ==
    \A o, x \in DOMAIN orders :
        (role[o] = "OCO" /\ x \in Siblings(o)) =>
            ~(orders[o].status = "FILLED" /\ orders[x].status = "FILLED")

(* create_bracket: "When entry fills, TP and SL are placed as OCO."; one   *)
(* pair of exits for each entry that filled.                               *)
OneExitPairPerEntry ==
    Cardinality({x \in DOMAIN orders : role[x] = "TP"}) =
        Cardinality({e \in DOMAIN orders : role[e] = "ENTRY" /\ orders[e].status = "FILLED"})

(* The same sentence: exits that exist are on their way to the market.     *)
ExitsArePlaced ==
    \A o \in Orders :
        (o \in DOMAIN orders /\ role[o] \in {"TP", "SL"}) ~> StatusOf(o) # "CREATED"

(* create_iceberg: "When slice fills, next slice is revealed."             *)
NextSliceIsRevealed ==
    \A p \in DOMAIN orders :
        (role[p] = "PARENT" /\ \A x \in Slices(p) : orders[x].status = "FILLED") =>
            revealed[p] = orders[p].quantity
=============================================================================
