----------------------------- MODULE OrderPromise -----------------------------
(***************************************************************************)
(* What the order manager of execution/oms.py promises to the strategy     *)
(* that uses it, whatever statuses it keeps inside: an order is opened for *)
(* an amount, works in the market or is closed before it gets there, takes *)
(* fills while it works and never above the amount, and when it is closed, *)
(* by its last fill or for any other reason, takes none any more.          *)
(***************************************************************************)
EXTENDS Integers

CONSTANTS Orders, Quantities

VARIABLES
    phase,  \* "absent", "idle", "working" or "closed"
    wanted, \* the amount the order was opened for
    got     \* the amount filled so far

vars == <<phase, wanted, got>>

Init ==
    /\ phase = [o \in Orders |-> "absent"]
    /\ wanted = [o \in Orders |-> 0]
    /\ got = [o \in Orders |-> 0]

Open(o, quantity) ==
    /\ phase[o] = "absent"
    /\ phase' = [phase EXCEPT ![o] = "idle"]
    /\ wanted' = [wanted EXCEPT ![o] = quantity]
    /\ UNCHANGED got

Work(o) ==
    /\ phase[o] = "idle"
    /\ phase' = [phase EXCEPT ![o] = "working"]
    /\ UNCHANGED <<wanted, got>>

Take(o, quantity) ==
    /\ phase[o] = "working"
    /\ got[o] + quantity <= wanted[o]
    /\ got' = [got EXCEPT ![o] = @ + quantity]
    /\ phase' = IF got[o] + quantity = wanted[o]
                THEN [phase EXCEPT ![o] = "closed"] ELSE phase
    /\ UNCHANGED wanted

(* Several orders may be closed at once, by one sweep.                     *)
Close(closing) ==
    /\ \A o \in closing : phase[o] \in {"idle", "working"}
    /\ phase' = [o \in Orders |-> IF o \in closing THEN "closed" ELSE phase[o]]
    /\ UNCHANGED <<wanted, got>>

Next ==
    \/ \E o \in Orders :
        \/ \E quantity \in Quantities : Open(o, quantity) \/ Take(o, quantity)
        \/ Work(o)
    \/ \E closing \in SUBSET Orders : Close(closing)

Spec == Init /\ [][Next]_vars
=============================================================================
