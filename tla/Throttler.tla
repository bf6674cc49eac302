------------------------------- MODULE Throttler -------------------------------
(***************************************************************************)
(* MessageThrottler of execution/throttler.py under several callers. A     *)
(* caller asks can_send, sends and then calls record_message: two critical *)
(* sections, with any other caller and any time in between.                *)
(*                                                                         *)
(* Time is in ticks. A message of a window is known by its age; the code   *)
(* removes old ones when it next checks, which comes to the same. The      *)
(* reported level decides nothing and is left out, as are cancellations,   *)
(* which are always allowed and never recorded.                            *)
(***************************************************************************)
EXTENDS Integers, FiniteSets

CONSTANTS
    Callers,          \* threads that send orders
    Messages,         \* names for recorded messages, used again once forgotten
    SecondLimit,      \* max_per_second + burst_allowance
    MinuteLimit,      \* max_per_minute
    Second, Minute,   \* lengths of the two windows
    Cooldown,         \* cooldown_seconds
    MaxModifies       \* bound of the model on modifications in the windows

ASSUME ThrottlerAssumption ==
    /\ IsFiniteSet(Callers) /\ IsFiniteSet(Messages)
    /\ SecondLimit \in Nat \ {0} /\ MinuteLimit \in Nat \ {0}
    /\ Second \in Nat /\ Minute \in Nat /\ Second <= Minute
    /\ Cooldown \in Nat \ {0} /\ MaxModifies \in Nat

VARIABLES
    age,       \* ticks since a message was recorded, Minute + 1 when forgotten
    orders,    \* the recorded messages that are orders
    cooldown,  \* ticks that are left of state.cooldown_until
    cleared    \* callers that may send and have not recorded it yet

throttlerVars == <<age, orders, cooldown, cleared>>

Init ==
    /\ age = [m \in Messages |-> Minute + 1]
    /\ orders = {}
    /\ cooldown = 0
    /\ cleared = {}

SecondWindow == {m \in Messages : age[m] <= Second}
MinuteWindow == {m \in Messages : age[m] <= Minute}

-----------------------------------------------------------------------------
SecondFull_StrictlyMore == Cardinality(SecondWindow) > SecondLimit

SecondFull == Cardinality(SecondWindow) >= SecondLimit

MinuteFull == Cardinality(MinuteWindow) >= MinuteLimit

(* can_send for an order; a full window starts a cooldown.                 *)
CanSend(c) ==
    /\ c \notin cleared
    /\ \/ cooldown > 0 /\ UNCHANGED <<cooldown, cleared>>
       \/ /\ cooldown = 0 /\ SecondFull
          /\ cooldown' = Cooldown
          /\ UNCHANGED cleared
       \/ /\ cooldown = 0 /\ ~SecondFull /\ MinuteFull
          /\ cooldown' = Minute
          /\ UNCHANGED cleared
       \/ /\ cooldown = 0 /\ ~SecondFull /\ ~MinuteFull
          /\ cleared' = cleared \cup {c}
          /\ UNCHANGED cooldown
    /\ UNCHANGED <<age, orders>>

(* record_message after the order was sent. *)
RecordOrder(c) ==
    /\ c \in cleared
    /\ \E m \in Messages \ MinuteWindow :
        /\ age' = [age EXCEPT ![m] = 0]
        /\ orders' = orders \cup {m}
    /\ cleared' = cleared \ {c}
    /\ UNCHANGED cooldown

(* A modification may always be sent, and is recorded all the same.        *)
RecordModify ==
    /\ Cardinality(MinuteWindow \ orders) < MaxModifies
    /\ \E m \in Messages \ MinuteWindow :
        /\ age' = [age EXCEPT ![m] = 0]
        /\ orders' = orders \ {m}
    /\ UNCHANGED <<cooldown, cleared>>

Tick ==
    /\ age' = [m \in Messages |-> IF age[m] > Minute THEN age[m] ELSE age[m] + 1]
    /\ orders' = {m \in orders : age[m] < Minute}
    /\ cooldown' = IF cooldown > 0 THEN cooldown - 1 ELSE 0
    /\ UNCHANGED cleared

Next ==
    \/ \E c \in Callers : CanSend(c) \/ RecordOrder(c)
    \/ RecordModify
    \/ Tick

Spec == Init /\ [][Next]_throttlerVars

-----------------------------------------------------------------------------
TypeOK ==
    /\ age \in [Messages -> 0..(Minute + 1)]
    /\ orders \subseteq MinuteWindow
    /\ cooldown \in Nat
    /\ cleared \subseteq Callers

(* However the checks and the records of the callers interleave, a window  *)
(* holds no more orders than its limit and the other callers, who may have *)
(* passed the check together with the last one.                            *)
RateBounded ==
    /\ Cardinality(SecondWindow \cap orders) < SecondLimit + Cardinality(Callers)
    /\ Cardinality(orders) < MinuteLimit + Cardinality(Callers)

(* What makes it inductive: who is cleared counts as sent. *)
ClearedCount ==
    /\ Cardinality(SecondWindow \cap orders) + Cardinality(cleared)
         < SecondLimit + Cardinality(Callers)
    /\ Cardinality(orders) + Cardinality(cleared)
         < MinuteLimit + Cardinality(Callers)

-----------------------------------------------------------------------------
(***************************************************************************)
(* The bound of the throttler, for any number of callers and any limits.   *)
(***************************************************************************)
IInv == TypeOK /\ ClearedCount
=============================================================================
