------------------------------ MODULE FiaControls ------------------------------
(***************************************************************************)
(* FIAComplianceManager of risk/fia_compliance.py: validate_order runs all *)
(* checks of an order one after the other, and two of them book the order  *)
(* as they check it, whatever the others say: the intraday position and    *)
(* the messages of the current second.                                     *)
(***************************************************************************)
EXTENDS Integers, Functions

CONSTANTS
    Symbols,
    MaxOrderSize,    \* max_order_size
    MaxPosition,     \* max_intraday_position
    MaxMessages,     \* max_messages_per_second
    Window           \* ticks of the one-second message window

FiaConstants ==
    /\ MaxOrderSize \in Nat \ {0} /\ MaxPosition \in Nat \ {0}
    /\ MaxMessages \in Nat \ {0} /\ Window \in Nat \ {0}

VARIABLES
    killed,     \* kill_switch_active
    booked,     \* positions_intraday
    messages,   \* message_count
    windowAge,  \* ticks since message_window_start
    admitted,   \* ghost: units of the orders that passed every check
    leaked,     \* ghost: units booked for orders that another check blocked
    passes      \* ghost: orders that passed a given number of ticks ago

fiaVars == <<killed, booked, messages, windowAge, admitted, leaked, passes>>

Zeros == [s \in Symbols |-> 0]

Init ==
    /\ killed = FALSE
    /\ booked = Zeros /\ admitted = Zeros /\ leaked = Zeros
    /\ messages = 0 /\ windowAge = 0
    /\ passes = [a \in 0..Window |-> 0]

Abs(n) == IF n < 0 THEN -n ELSE n

-----------------------------------------------------------------------------
(* check_kill_switch: a gain of the threshold's size trips it as well. The *)
(* flag is set for good, but only the result of this check is ever read.   *)
KillSwitchTrips == killed' = TRUE

(* check_intraday_position                                                 *)
PositionFits_OldPosition(s, size) == Abs(booked[s]) <= MaxPosition

PositionFits(s, size) == Abs(booked[s] + size) <= MaxPosition

(* check_message_throttle                                                  *)
WindowOver == windowAge > Window
MessageCount == IF WindowOver THEN 1 ELSE messages + 1

CountMessage ==
    /\ messages' = IF MessageCount > MaxMessages THEN MaxMessages + 1 ELSE MessageCount
    /\ windowAge' = IF WindowOver THEN 0 ELSE windowAge

(* validate_order: othersPass stands for check_price_tolerance and         *)
(* validate_market_data, which keep no state.                              *)
ValidateOrder(s, size, othersPass) ==
    LET fits == PositionFits(s, size)
        passed == othersPass /\ fits /\ Abs(size) <= MaxOrderSize /\ MessageCount <= MaxMessages
        ifTrue(b) == IF b THEN size ELSE 0
    IN  /\ booked' = [booked EXCEPT ![s] = @ + ifTrue(fits)]
        /\ CountMessage
        /\ admitted' = [admitted EXCEPT ![s] = @ + ifTrue(passed)]
        /\ leaked' = [leaked EXCEPT ![s] = @ + ifTrue(fits /\ ~passed)]
        /\ passes' = IF passed THEN [passes EXCEPT ![0] = @ + 1] ELSE passes
        /\ UNCHANGED killed

ValidateKilled ==
    /\ KillSwitchTrips
    /\ UNCHANGED <<booked, messages, windowAge, admitted, leaked, passes>>

Tick ==
    /\ windowAge' = IF WindowOver THEN windowAge ELSE windowAge + 1
    /\ passes' = [a \in 0..Window |-> IF a = 0 THEN 0 ELSE passes[a - 1]]
    /\ UNCHANGED <<killed, booked, messages, admitted, leaked>>

(* The bound of the model: blocked orders are booked again and again.      *)
Bounded(s, size) == Abs(admitted[s] + size) <= MaxPosition + MaxOrderSize

Next ==
    \/ \E s \in Symbols, n \in 1..(MaxOrderSize + 1), side \in {1, -1}, ok \in BOOLEAN :
         Bounded(s, side * n) /\ ValidateOrder(s, side * n, ok)
    \/ ValidateKilled
    \/ Tick

Spec == Init /\ [][Next]_fiaVars

-----------------------------------------------------------------------------
TypeOK ==
    /\ killed \in BOOLEAN
    /\ booked \in [Symbols -> (-MaxPosition)..MaxPosition]
    /\ admitted \in [Symbols -> Int] /\ leaked \in [Symbols -> Int]
    /\ messages \in 0..(MaxMessages + 1) /\ windowAge \in 0..(Window + 1)
    /\ passes \in [0..Window -> Nat]

(* The position that the controls believe in is made of the admitted       *)
(* orders and of blocked ones that were booked before another check        *)
(* refused them; only their sum is kept within the limit. And although the *)
(* message window starts anew at an arbitrary moment, no second at all     *)
(* sees more than twice its limit pass.                                    *)
AdmittedWithinBookings ==
    /\ \A s \in Symbols :
         /\ booked[s] = admitted[s] + leaked[s]
         /\ Abs(admitted[s] + leaked[s]) <= MaxPosition
    /\ SumFunctionOnSet(passes, 0..Window) <= 2 * MaxMessages

(* What the code does not do: keep the admitted orders within the limit,   *)
(* let nothing pass after the kill switch.                                 *)
AdmittedWithinLimit == \A s \in Symbols : Abs(admitted[s]) <= MaxPosition
KilledStopsAll == [][killed => admitted' = admitted]_fiaVars
=============================================================================
