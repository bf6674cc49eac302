---------------------------- MODULE PaymentLimits -----------------------------
(***************************************************************************)
(* SecurityManager of payments/security.py for one user: the limits of the *)
(* KYC level, which a check compares and a later call fills, the counters  *)
(* that only a check resets, and the failed codes that hold payments back. *)
(***************************************************************************)
EXTENDS Integers, FiniteSets

CONSTANTS
    Callers,         \* flows of payments of the user
    Levels,          \* KYC levels, numbered from the lowest
    Amounts,         \* sizes of payments
    DaysOfMonth,     \* days of a month
    DaysWorth,       \* daily limits a month allows: five in the code
    LastDay,         \* bound of the model: days it looks at
    FailureLimit     \* recent failed codes that do not hold back yet

LimitConstants ==
    /\ IsFiniteSet(Callers) /\ Callers # {}
    /\ Levels \subseteq Nat /\ \E l \in Levels : \A m \in Levels : l <= m
    /\ Amounts \subseteq Nat /\ \E a \in Amounts : \A b \in Amounts : b <= a
    /\ {DaysWorth, LastDay, FailureLimit} \subseteq Nat /\ DaysOfMonth \in Nat \ {0}

(* default_limits of a level: a payment may be as large as the day. *)
DailyLimit(level) == 2 * level
PerTransaction(level) == DailyLimit(level)
MonthlyLimit(level) == DaysWorth * DailyLimit(level)

VARIABLES
    today,         \* the date, counted in days
    limits,        \* transaction_limits: level, daily, monthly, last_reset
    failures,      \* failed attempts within the last hour
    inFlight,      \* amounts allowed and not yet recorded, 0 for none
    bookedToday,   \* ghost: recorded since midnight or the change of level
    bookedMonth    \* ghost: recorded in this month or since the change of level

limitVars == <<today, limits, failures, inFlight, bookedToday, bookedMonth>>

Month(day) == day \div DaysOfMonth
Fresh(level) == [level |-> level, daily |-> 0, monthly |-> 0, lastReset |-> today]
Lowest == CHOOSE l \in Levels : \A m \in Levels : l <= m

Init ==
    /\ today = 0
    /\ limits = [level |-> Lowest, daily |-> 0, monthly |-> 0, lastReset |-> 0]
    /\ failures = 0
    /\ inFlight = [c \in Callers |-> 0]
    /\ bookedToday = 0 /\ bookedMonth = 0

-----------------------------------------------------------------------------
(* set_kyc_level and _update_limits: a new object, nothing used of it. *)
SetKycLevel(level) ==
    /\ limits' = Fresh(level)
    /\ bookedToday' = 0 /\ bookedMonth' = 0
    /\ UNCHANGED <<today, failures, inFlight>>

ResetIfNeeded_EveryCheck ==
    [limits EXCEPT !.daily = 0,
                   !.monthly = IF Month(limits.lastReset) # Month(today) THEN 0 ELSE @,
                   !.lastReset = today]

(* _reset_limits_if_needed *)
ResetIfNeeded ==
    [limits EXCEPT !.daily = IF limits.lastReset # today THEN 0 ELSE @,
                   !.monthly = IF Month(limits.lastReset) # Month(today) THEN 0 ELSE @,
                   !.lastReset = today]

WithinLimits(amount, of) ==
    /\ amount <= PerTransaction(of.level)
    /\ of.daily + amount <= DailyLimit(of.level)
    /\ of.monthly + amount <= MonthlyLimit(of.level)

(* validate_transaction with check_suspicious_activity: the counters are   *)
(* reset whether the answer is yes or no.                                  *)
ValidateTransaction(c, amount) ==
    /\ inFlight[c] = 0
    /\ limits' = ResetIfNeeded
    /\ inFlight' = IF WithinLimits(amount, ResetIfNeeded) /\ failures <= FailureLimit
                   THEN [inFlight EXCEPT ![c] = amount] ELSE inFlight
    /\ UNCHANGED <<today, failures, bookedToday, bookedMonth>>

(* record_transaction, when the payment went through; it resets nothing. *)
RecordTransaction(c) ==
    /\ inFlight[c] > 0
    /\ limits' = [limits EXCEPT !.daily = @ + inFlight[c], !.monthly = @ + inFlight[c]]
    /\ bookedToday' = bookedToday + inFlight[c]
    /\ bookedMonth' = bookedMonth + inFlight[c]
    /\ inFlight' = [inFlight EXCEPT ![c] = 0]
    /\ UNCHANGED <<today, failures>>

PaymentFails(c) ==
    /\ inFlight[c] > 0
    /\ inFlight' = [inFlight EXCEPT ![c] = 0]
    /\ UNCHANGED <<today, limits, failures, bookedToday, bookedMonth>>

(* verify_2fa with anything but six digits. *)
VerifyFails ==
    /\ failures <= FailureLimit
    /\ failures' = failures + 1
    /\ UNCHANGED <<today, limits, inFlight, bookedToday, bookedMonth>>

HourPasses ==
    /\ failures > 0
    /\ failures' \in 0..(failures - 1)
    /\ UNCHANGED <<today, limits, inFlight, bookedToday, bookedMonth>>

Midnight ==
    /\ today < LastDay
    /\ today' = today + 1
    /\ bookedToday' = 0
    /\ bookedMonth' = IF Month(today + 1) = Month(today) THEN bookedMonth ELSE 0
    /\ UNCHANGED <<limits, failures, inFlight>>

Next ==
    \/ \E level \in Levels : SetKycLevel(level)
    \/ \E c \in Callers : \/ \E a \in Amounts : ValidateTransaction(c, a)
                          \/ RecordTransaction(c) \/ PaymentFails(c)
    \/ VerifyFails \/ HourPasses \/ Midnight

Spec == Init /\ [][Next]_limitVars

-----------------------------------------------------------------------------
TypeOK ==
    /\ today \in 0..LastDay
    /\ limits \in [level : Levels, daily : Nat, monthly : Nat, lastReset : 0..LastDay]
    /\ failures \in 0..(FailureLimit + 1)
    /\ inFlight \in [Callers -> Amounts \cup {0}]
    /\ bookedToday \in Nat /\ bookedMonth \in Nat

Largest == CHOOSE a \in Amounts : \A b \in Amounts : b <= a
Lost == Cardinality(Callers) * Largest

(* Payments validated together pass together, and what is recorded between *)
(* midnight and the first check of the day is forgotten by that check: the *)
(* day and the month are kept within what the flows in between can carry.  *)
PaymentsWithinLimits ==
    /\ bookedToday <= DailyLimit(limits.level) + 2 * Lost - Largest
    /\ bookedMonth <= MonthlyLimit(limits.level) + 2 * Lost - Largest

(* Inductive: the flows under way are counted with the largest amount each, *)
(* but for the one that was validated last, whose amount the limit covers. *)
(* Until the first check of a day, or a month, only flows that were under  *)
(* way before are recorded; that check forgets what they recorded.         *)
Busy(flights) == {c \in Callers : flights[c] > 0}
AtMost(flows) == Cardinality(flows) * Largest

Covered(flights, booked, limit) ==
    \/ booked + AtMost(Busy(flights)) <= limit + 2 * Lost - Largest
    \/ \E c \in Busy(flights) :
         booked + flights[c] + AtMost(Busy(flights) \ {c}) <= limit + 2 * Lost - Largest

Forgotten(flights, booked, counted, checked) ==
    IF checked THEN booked <= counted + Lost
    ELSE booked + AtMost(Busy(flights)) <= Lost

IInv ==
    /\ TypeOK
    /\ Forgotten(inFlight, bookedToday, limits.daily, limits.lastReset = today)
    /\ Forgotten(inFlight, bookedMonth, limits.monthly, Month(limits.lastReset) = Month(today))
    /\ Covered(inFlight, bookedToday, DailyLimit(limits.level))
    /\ Covered(inFlight, bookedMonth, MonthlyLimit(limits.level))

(* What the code does not promise: the limits themselves. *)
PaymentsAtMostTheLimit == bookedToday <= DailyLimit(limits.level)
=============================================================================
