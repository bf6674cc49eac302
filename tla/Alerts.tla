-------------------------------- MODULE Alerts ---------------------------------
(***************************************************************************)
(* AlertEngine of notifications/alert_engine.py for one symbol: alerts     *)
(* that are checked against the price, with a cooldown, an expiry and a    *)
(* bound on their triggers, and the notifications of what one pass of      *)
(* check_alerts found.  A message template may turn out not to fit, which  *)
(* ends the pass.  Alerts are numbered in the order they were created.     *)
(***************************************************************************)
EXTENDS Integers, FiniteSets

CONSTANTS
    LastAlert,     \* alerts are 1..LastAlert
    Definitions,   \* records: conditions, all, max, cooldown, expires, fits
    Prices,
    Threshold,
    LastMinute,    \* bound of the model on the clock
    MaxTriggers    \* bound of the model on the triggers of one alert

Alerts == 1..LastAlert
Never == LastMinute + 1
NoPrice == 0

AlertConstants ==
    /\ {LastAlert, LastMinute, MaxTriggers} \subseteq Nat
    /\ \A d \in Definitions : {d.max, d.cooldown, d.expires} \subseteq Nat /\ d.fits \in BOOLEAN

VARIABLES
    now,        \* the clock, in minutes
    alerts,     \* _alerts: definition, status, values, count, last trigger
    lastPrice,  \* ghost: the price of the check before
    notified,   \* ghost: notifications sent of each alert
    closest     \* ghost: the least time between two triggers of an alert

alertVars == <<now, alerts, lastPrice, notified, closest>>

NoAlert == [def |-> [conditions |-> {}, all |-> TRUE, max |-> 0, cooldown |-> 0,
                     expires |-> 0, fits |-> TRUE],
            status |-> "none", expiresAt |-> Never, last |-> NoPrice, previous |-> NoPrice,
            count |-> 0, lastAt |-> Never]

Init ==
    /\ now = 0
    /\ alerts = [a \in Alerts |-> NoAlert]
    /\ lastPrice = NoPrice
    /\ notified = [a \in Alerts |-> 0]
    /\ closest = [a \in Alerts |-> Never]

-----------------------------------------------------------------------------
(* create_alert and create_complex_alert. *)
CreateAlert(a, def) ==
    /\ alerts[a].status = "none"
    /\ \A b \in 1..(a - 1) : alerts[b].status # "none"
    /\ alerts' = [alerts EXCEPT ![a] = [NoAlert EXCEPT
         !.def = def, !.status = "active",
         !.expiresAt = IF def.expires = 0 THEN Never ELSE now + def.expires]]
    /\ UNCHANGED <<now, lastPrice, notified, closest>>

SetStatus(a, status) ==
    /\ alerts[a].status \notin {"none", "deleted"}
    /\ alerts' = [alerts EXCEPT ![a].status = status]
    /\ UNCHANGED <<now, lastPrice, notified, closest>>

PauseAlert(a) == SetStatus(a, "paused")
ResumeAlert(a) == SetStatus(a, "active")
DeleteAlert(a) == SetStatus(a, "deleted")

-----------------------------------------------------------------------------
IsActive(a) ==
    /\ alerts[a].status = "active"
    /\ now <= alerts[a].expiresAt
    /\ alerts[a].def.max > 0 => alerts[a].count < alerts[a].def.max

InCooldown_Reached(a) == alerts[a].lastAt # Never /\ now + 1 < alerts[a].lastAt + alerts[a].def.cooldown

InCooldown(a) == alerts[a].lastAt # Never /\ now < alerts[a].lastAt + alerts[a].def.cooldown

(* _evaluate_condition *)
Holds(condition, price, previous) ==
    CASE condition = "above" -> price > Threshold
      [] condition = "below" -> price < Threshold
      [] condition = "cross_above" -> /\ previous # NoPrice
                                      /\ previous <= Threshold /\ Threshold < price
      [] condition = "cross_below" -> /\ previous # NoPrice
                                      /\ previous >= Threshold /\ Threshold > price
      [] condition = "change" -> previous # NoPrice /\ price # previous

(* The value compared with is moved on after the comparison: it is the     *)
(* price of two checks before.                                             *)
Met(a, price) ==
    LET holds == {c \in alerts[a].def.conditions : Holds(c, price, alerts[a].previous)}
    IN  /\ holds # {}
        /\ alerts[a].def.all => holds = alerts[a].def.conditions

Looked(a) == IsActive(a) /\ ~InCooldown(a)
Fires(a, price) == Looked(a) /\ Met(a, price)

(* check_alerts with _create_trigger: the alerts in order, up to the first *)
(* that fires with a template that does not fit; what fired before it is   *)
(* then not notified either.                                               *)
CheckAlerts(price) ==
    LET breaks == {a \in Alerts : Fires(a, price) /\ ~alerts[a].def.fits}
        reached == {a \in Alerts : Looked(a) /\ \A b \in breaks : a <= b}
        fired == {a \in reached : Fires(a, price)}
        sent == IF breaks = {} THEN fired ELSE {}
    IN
    /\ \A a \in fired : alerts[a].count < MaxTriggers
    /\ alerts' = [a \in Alerts |->
         IF a \notin reached THEN alerts[a]
         ELSE [alerts[a] EXCEPT
                 !.previous = alerts[a].last, !.last = price,
                 !.lastAt = IF a \in fired THEN now ELSE @,
                 !.count = IF a \in fired THEN @ + 1 ELSE @]]
    /\ notified' = [a \in Alerts |-> IF a \in sent THEN notified[a] + 1 ELSE notified[a]]
    /\ closest' = [a \in Alerts |->
         IF a \in fired /\ alerts[a].lastAt # Never /\ now - alerts[a].lastAt < closest[a]
         THEN now - alerts[a].lastAt ELSE closest[a]]
    /\ lastPrice' = price
    /\ UNCHANGED now

Minute ==
    /\ now < LastMinute
    /\ now' = now + 1
    /\ UNCHANGED <<alerts, lastPrice, notified, closest>>

Next ==
    \/ \E a \in Alerts : \/ \E def \in Definitions : CreateAlert(a, def)
                         \/ PauseAlert(a) \/ ResumeAlert(a) \/ DeleteAlert(a)
    \/ \E price \in Prices : CheckAlerts(price)
    \/ Minute

Spec == Init /\ [][Next]_alertVars

-----------------------------------------------------------------------------
TypeOK ==
    /\ now \in 0..LastMinute
    /\ alerts \in [Alerts ->
         [def : Definitions \cup {NoAlert.def}, status : {"none", "active", "paused", "deleted"},
          expiresAt : Nat, last : Prices \cup {NoPrice}, previous : Prices \cup {NoPrice},
          count : 0..MaxTriggers, lastAt : 0..Never]]
    /\ notified \in [Alerts -> Nat] /\ closest \in [Alerts -> 0..Never]

(* Through pauses, resumptions and passes that break off: an alert keeps   *)
(* its cooldown and its number of triggers, every trigger is notified once *)
(* unless some template did not fit.                                       *)
AlertsKeepTheirPace ==
    \A a \in Alerts :
        /\ closest[a] # Never => closest[a] >= alerts[a].def.cooldown
        /\ alerts[a].def.max > 0 => alerts[a].count <= alerts[a].def.max
        /\ notified[a] <= alerts[a].count
        /\ (\A b \in Alerts : alerts[b].def.fits)
             => notified[a] = alerts[a].count

(* Inductive: an alert was last triggered before now, and one that is not  *)
(* yet created was not triggered at all.                                   *)
IInv ==
    /\ TypeOK /\ AlertsKeepTheirPace
    /\ \A a \in Alerts :
         /\ alerts[a].lastAt # Never => alerts[a].lastAt <= now
         /\ alerts[a].status = "none" =>
              alerts[a] = NoAlert /\ notified[a] = 0 /\ closest[a] = Never

(* What the code does not do: see every crossing of the threshold between  *)
(* two checks of an alert that was looked at in both.                      *)
CrossingsAreSeen ==
    [][\A a \in Alerts :
         /\ alerts[a].def.conditions = {"cross_above"} /\ Looked(a)
         /\ alerts[a].last # NoPrice /\ alerts[a].last = lastPrice
         /\ \A b \in Alerts : alerts[b].def.fits
         /\ lastPrice <= Threshold /\ Threshold < lastPrice'
         => alerts'[a].count > alerts[a].count]_alertVars
=============================================================================
