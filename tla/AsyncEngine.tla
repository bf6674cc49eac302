------------------------------ MODULE AsyncEngine ------------------------------
(***************************************************************************)
(* AsyncExecutionEngine of execution/async_engine.py in paper mode: the    *)
(* coroutines that submit, cancel, modify and fill one order take turns at *)
(* their awaits and share the order's asyncio.Lock, which is not           *)
(* reentrant. submit_order holds it while it waits, at most two seconds,   *)
(* for the venue; the fills the venue simulates need it too.               *)
(*                                                                         *)
(* An await that does not suspend (a free lock, the price lock, which is   *)
(* never held across an await) ends no step.                               *)
(***************************************************************************)
EXTENDS Integers, FiniteSets

CONSTANT Orders   \* ids of orders

Quantity == 2   \* parts a simulated order is filled in

VARIABLES
    backup,     \* more than one broker is configured (_get_backup_venue)
    status,     \* Order.status
    filled,     \* Order.filled_qty, in parts
    pending,    \* pending_orders
    lock,       \* who holds order_locks[id]
    submit,     \* where submit_order is for the order
    delayed,    \* where _delayed_fill_simulation is for the order
    confirmed,  \* orders whose cancel_order returned True
    shutdown    \* _shutdown

vars == <<backup, status, filled, pending, lock, submit, delayed, confirmed, shutdown>>

Init ==
    /\ backup \in BOOLEAN
    /\ status = [o \in Orders |-> "PENDING"]
    /\ filled = [o \in Orders |-> 0]
    /\ pending = {}
    /\ lock = [o \in Orders |-> "free"]
    /\ submit = [o \in Orders |-> "idle"]
    /\ delayed = [o \in Orders |-> "none"]
    /\ confirmed = {}
    /\ shutdown = FALSE

(* A name with an underscore is a fault that a change of the code could     *)
(* bring into the definition after it.                                     *)
LockAdmits_Holder(o, who) == lock[o] \in {"free", who}

LockAdmits(o, who) == lock[o] = "free"

Returned(o) ==
    /\ submit' = [submit EXCEPT ![o] = "returned"]
    /\ lock' = [lock EXCEPT ![o] = "free"]

-----------------------------------------------------------------------------
(* submit_order *)

(* The order is registered; it leaves pending_orders only by a fill or a   *)
(* cancellation, so one that the risk check rejects stays there.           *)
Submit(o) ==
    /\ submit[o] = "idle" /\ ~shutdown /\ LockAdmits(o, "submit")
    /\ pending' = pending \cup {o}
    /\ \/ status' = [status EXCEPT ![o] = "REJECTED"] /\ Returned(o)
       \/ /\ submit' = [submit EXCEPT ![o] = "primary"]
          /\ lock' = [lock EXCEPT ![o] = "submit"]
          /\ UNCHANGED status
    /\ UNCHANGED <<backup, filled, delayed, confirmed, shutdown>>

AtVenue(o) == submit[o] \in {"primary", "backup"}

(* _simulate_fill without a price for the symbol. *)
NoMarket(o) ==
    /\ AtVenue(o)
    /\ status' = [status EXCEPT ![o] = "REJECTED"]
    /\ Returned(o)
    /\ UNCHANGED <<backup, filled, pending, delayed, confirmed, shutdown>>

Rest_NameOfTheBrokers(o) ==
    /\ AtVenue(o)
    /\ status' = [status EXCEPT ![o] = "OPEN"]
    /\ delayed' = [delayed EXCEPT ![o] = "sleeping"]
    /\ Returned(o)
    /\ UNCHANGED <<backup, filled, pending, confirmed, shutdown>>

(* _simulate_fill of a limit that is not hit: the order rests, and a task  *)
(* of its own will fill it later.                                          *)
Rest(o) ==
    /\ AtVenue(o)
    /\ status' = [status EXCEPT ![o] = "SUBMITTED"]
    /\ delayed' = [delayed EXCEPT ![o] = "sleeping"]
    /\ Returned(o)
    /\ UNCHANGED <<backup, filled, pending, confirmed, shutdown>>

FilledStatus(o, parts) == IF filled[o] + parts >= Quantity THEN "FILLED" ELSE "PARTIAL_FILL"

(* _apply_fill under the order's lock: the status is not looked at.        *)
Apply(o, parts) ==
    /\ filled' = [filled EXCEPT ![o] = @ + parts]
    /\ status' = [status EXCEPT ![o] = FilledStatus(o, parts)]
    /\ pending' = IF FilledStatus(o, parts) = "FILLED" THEN pending \ {o} ELSE pending

(* _simulate_fill reaches _apply_fill, which asks for the lock that        *)
(* submit_order holds around it.                                           *)
ApplySimulated(o) ==
    /\ AtVenue(o)
    /\ IF LockAdmits(o, "submit")
       THEN /\ Apply(o, 1)
            /\ IF FilledStatus(o, 1) = "FILLED" THEN Returned(o) ELSE UNCHANGED <<submit, lock>>
       ELSE /\ submit' = [submit EXCEPT ![o] =
                   IF @ = "primary" THEN "primary_blocked" ELSE "backup_blocked"]
            /\ UNCHANGED <<status, filled, pending, lock>>
    /\ UNCHANGED <<backup, delayed, confirmed, shutdown>>

Timeout_BeforeTheFills(o) ==
    /\ submit[o] = "primary"
    /\ status' = [status EXCEPT ![o] = "REJECTED"]
    /\ IF backup THEN submit' = [submit EXCEPT ![o] = "backup"] /\ UNCHANGED lock
                    ELSE Returned(o)
    /\ UNCHANGED <<backup, filled, pending, delayed, confirmed, shutdown>>

(* wait_for gives up on the primary venue, wherever the simulation is; the *)
(* backup venue is tried without a time limit.                             *)
Timeout(o) ==
    /\ submit[o] \in {"primary", "primary_blocked"}
    /\ status' = [status EXCEPT ![o] = "REJECTED"]
    /\ IF backup THEN submit' = [submit EXCEPT ![o] = "backup"] /\ UNCHANGED lock
                    ELSE Returned(o)
    /\ UNCHANGED <<backup, filled, pending, delayed, confirmed, shutdown>>

-----------------------------------------------------------------------------
(* _delayed_fill_simulation: it reads the status, and applies its fill     *)
(* when it gets the lock.                                                  *)
WakeDelayed(o) ==
    /\ delayed[o] = "sleeping"
    /\ \/ UNCHANGED <<status, filled, pending>> /\ delayed' = [delayed EXCEPT ![o] = "over"]
       \/ /\ status[o] = "SUBMITTED"
          /\ IF LockAdmits(o, "fill")
             THEN Apply(o, Quantity) /\ delayed' = [delayed EXCEPT ![o] = "over"]
             ELSE UNCHANGED <<status, filled, pending>> /\ delayed' = [delayed EXCEPT ![o] = "waiting"]
    /\ UNCHANGED <<backup, lock, submit, confirmed, shutdown>>

ApplyDelayed(o) ==
    /\ delayed[o] = "waiting" /\ LockAdmits(o, "fill")
    /\ Apply(o, Quantity)
    /\ delayed' = [delayed EXCEPT ![o] = "over"]
    /\ UNCHANGED <<backup, lock, submit, confirmed, shutdown>>

(* cancel_order: the lock is held across the request to the venue.         *)
AskCancel(o) ==
    /\ submit[o] # "idle" /\ LockAdmits(o, "cancel")
    /\ status[o] \in {"PENDING", "SUBMITTED", "PARTIAL_FILL"}
    /\ lock' = [lock EXCEPT ![o] = "cancel"]
    /\ UNCHANGED <<backup, status, filled, pending, submit, delayed, confirmed, shutdown>>

ConfirmCancel_LocksAgain(o) ==
    /\ lock[o] = "cancel" /\ LockAdmits(o, "cancel")
    /\ status' = [status EXCEPT ![o] = "CANCELLED"]
    /\ pending' = pending \ {o}
    /\ lock' = [lock EXCEPT ![o] = "free"]
    /\ confirmed' = confirmed \cup {o}
    /\ UNCHANGED <<backup, filled, submit, delayed, shutdown>>

ConfirmCancel(o) ==
    /\ lock[o] = "cancel"
    /\ status' = [status EXCEPT ![o] = "CANCELLED"]
    /\ pending' = pending \ {o}
    /\ lock' = [lock EXCEPT ![o] = "free"]
    /\ confirmed' = confirmed \cup {o}
    /\ UNCHANGED <<backup, filled, submit, delayed, shutdown>>

(* modify_order takes the lock and calls cancel_order, which waits for it. *)
Modify(o) ==
    /\ submit[o] # "idle" /\ LockAdmits(o, "modify")
    /\ lock' = [lock EXCEPT ![o] = "modify"]
    /\ UNCHANGED <<backup, status, filled, pending, submit, delayed, confirmed, shutdown>>

(* shutdown: the tasks it cancels are the price feeds, and the positions   *)
(* it closes are the empty list that every venue answers.                  *)
Shutdown ==
    /\ ~shutdown
    /\ shutdown' = TRUE
    /\ UNCHANGED <<backup, status, filled, pending, lock, submit, delayed, confirmed>>

-----------------------------------------------------------------------------
SubmitSteps(o) == NoMarket(o) \/ Rest(o) \/ ApplySimulated(o) \/ Timeout(o)

Next ==
    \/ \E o \in Orders :
        \/ Submit(o) \/ SubmitSteps(o)
        \/ WakeDelayed(o) \/ ApplyDelayed(o)
        \/ AskCancel(o) \/ ConfirmCancel(o)
        \/ Modify(o)
    \/ Shutdown

Spec == Init /\ [][Next]_vars

(* The event loop runs every task that can run, and timers fire; nobody    *)
(* has to submit, cancel or modify.                                        *)
Fairness ==
    \A o \in Orders : /\ WF_vars(SubmitSteps(o)) /\ WF_vars(ConfirmCancel(o))
                      /\ WF_vars(WakeDelayed(o)) /\ WF_vars(ApplyDelayed(o))

FairSpec == Spec /\ Fairness

-----------------------------------------------------------------------------
(* Among the types: no sequence of venues, timeouts and delayed fills      *)
(* fills an order twice.                                                   *)
TypeOK ==
    /\ backup \in BOOLEAN
    /\ status \in [Orders -> {"PENDING", "SUBMITTED", "PARTIAL_FILL", "FILLED", "CANCELLED", "REJECTED"}]
    /\ filled \in [Orders -> 0..Quantity]
    /\ pending \subseteq Orders /\ confirmed \subseteq Orders /\ shutdown \in BOOLEAN
    /\ lock \in [Orders -> {"free", "submit", "cancel", "modify", "fill"}]
    /\ submit \in [Orders -> {"idle", "primary", "primary_blocked", "backup", "backup_blocked", "returned"}]
    /\ delayed \in [Orders -> {"none", "sleeping", "waiting", "over"}]

(* An order that is reported REJECTED has taken no fill: a timeout never   *)
(* strikes an order that is filled in part, and no order is filled on the  *)
(* first venue and again on the backup.                                    *)
RejectedTookNothing == \A o \in Orders : status[o] = "REJECTED" => filled[o] = 0

(* Inductive: while submit_order runs it has the lock, so that no fill the  *)
(* venue simulates is applied; a delayed fill is for an order whose         *)
(* submit_order has returned, and comes once.                               *)
IInv ==
    /\ TypeOK /\ RejectedTookNothing
    /\ \A o \in Orders :
         /\ submit[o] \notin {"idle", "returned"} => lock[o] = "submit"
         /\ delayed[o] # "none" => submit[o] = "returned"
         /\ filled[o] > 0 => delayed[o] = "over"

(* With one broker submit_order comes back to its caller, because the      *)
(* timeout breaks the wait for the order's lock.                           *)
UnbackedSubmitReturns ==
    \A o \in Orders : ~backup /\ submit[o] # "idle" ~> submit[o] = "returned"

(* A cancellation that was asked for is confirmed.                         *)
CancelAnswered == \A o \in Orders : lock[o] = "cancel" ~> lock[o] # "cancel"

-----------------------------------------------------------------------------
(* What the docstrings promise and the code does not do. *)

(* submit_order: "Submit order with smart routing and latency              *)
(* optimization"; it comes back to its caller, whatever the brokers.       *)
SubmitReturns == \A o \in Orders : submit[o] # "idle" ~> submit[o] = "returned"

(* cancel_order: "Cancel order with confirmation"; a confirmed             *)
(* cancellation is the end of the order.                                   *)
ConfirmedCancelIsFinal == \A o \in confirmed : status[o] = "CANCELLED"

(* modify_order: "Modify existing order (cancel + replace)"; it lets the   *)
(* order go again.                                                         *)
ModifyReturns == \A o \in Orders : lock[o] = "modify" ~> lock[o] # "modify"

(* shutdown: "Cancel all pending orders"; none of them fills afterwards.   *)
NoFillAfterShutdown == [][shutdown => filled' = filled]_vars
=============================================================================
