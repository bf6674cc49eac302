----------------------------- MODULE MasterControl -----------------------------
(***************************************************************************)
(* MasterControlCore of core/mcc/master_control.py with the activation of  *)
(* strategies/base_enhanced.py: the list of active strategies beside the   *)
(* flag each strategy keeps, the regime that turns strategies on and off,  *)
(* the kill switch and the stop.                                           *)
(*                                                                         *)
(* Only register_strategy takes the lock: the other methods read and write *)
(* the flags and the list step by step, and calls of several threads meet. *)
(* One thread, the main one, feeds the prices, and a KeyboardInterrupt may *)
(* break its call off anywhere.  A strategy of the old kind is registered  *)
(* in a StrategyAdapter, which has neither is_active nor activate nor      *)
(* deactivate: the call that touches one raises and is broken off.         *)
(* Signals never lead to a trade, since _aggregate_signals always answers  *)
(* HOLD: prices matter by the regime that is detected from them, and       *)
(* kill_switch_triggered, which only signals read, is left out.            *)
(***************************************************************************)
EXTENDS Integers, FiniteSets

CONSTANTS
    Names,
    Regimes,
    Suitable,     \* the regime_strategies: the names that suit a regime
    Builds,       \* the strategies that are registered: their names and kinds
    Controllers,  \* the threads
    Feed          \* the one of them that calls on_price_update

Unknown == "unknown"

ControlConstants ==
    /\ Names # {} /\ Feed \in Controllers /\ Unknown \notin Regimes
    /\ Builds \subseteq Names \X {"enhanced", "adapted"}

VARIABLES
    strategies,  \* "none", or the kind of what is registered under the name
    active,      \* active_strategies: how often each is listed; no operation
                 \* depends on the order of the list
    running,     \* the strategies whose is_active is set
    regime,      \* current_regime
    control,     \* the call of each thread: what it does, where it is, the
                 \* name it is at and how often it has each name to visit
    torn,        \* ghost: names at which two calls met or one was broken off
    unswept,     \* ghost: running though the regime's walk did not see to it:
                 \* activated by hand since, or left by a walk that broke off
    unstopped    \* ghost: running though the last stop did not see to it:
                 \* activated since it began, or left by a stop that broke off

shown == <<unswept, unstopped>>
controlVars == <<strategies, active, running, regime, control, torn, shown>>

Idle == [does |-> "nothing", at |-> "walk", name |-> CHOOSE n \in Names : TRUE,
         todo |-> [n \in Names |-> 0], grown |-> FALSE]

Init ==
    /\ strategies = [n \in Names |-> "none"] /\ active = [n \in Names |-> 0] /\ running = {}
    /\ regime = Unknown
    /\ control = [t \in Controllers |-> Idle]
    /\ torn = {} /\ unswept = {} /\ unstopped = {}

Registered == {n \in Names : strategies[n] # "none"}
InList(list) == {n \in Names : list[n] > 0}

-----------------------------------------------------------------------------
(* Between the flag and the list of a name.                                *)
Activating(t) == control[t].at \in {"listing", "appending"}
Mid(t) == Activating(t) \/ control[t].at \in {"unlisting", "removing"}

MetAt(t, n) == \E u \in Controllers \ {t} : Mid(u) /\ control[u].name = n

(* The call goes back to its walk, or ends.                                *)
Proceed(t) ==
    control' = [control EXCEPT ![t] =
                  IF @.does = "by hand" THEN Idle
                  ELSE [@ EXCEPT !.at = "walk", !.name = Idle.name]]

(* An exception leaves what was done, and what was not.                    *)
BreaksOff(t) ==
    /\ control' = [control EXCEPT ![t] = Idle]
    /\ torn' = (IF Mid(t) THEN torn \cup {control[t].name} ELSE torn)
    /\ unswept' = (IF control[t].does = "regime" THEN running ELSE unswept)
    /\ unstopped' = (IF control[t].does = "stop" THEN running ELSE unstopped)
    /\ UNCHANGED <<strategies, active, running, regime>>

GoesTo(t, call, n, at) ==
    /\ control' = [control EXCEPT ![t] = [call EXCEPT !.name = n, !.at = at]]
    /\ torn' = (IF MetAt(t, n) THEN torn \cup {n} ELSE torn)

(* activate(): the flag of an enhanced strategy, before the list is read.  *)
SwitchOn(t, call, n) ==
    \/ /\ strategies[n] = "enhanced"
       /\ running' = running \cup {n}
       /\ unstopped' = unstopped \cup {n}
       /\ unswept' = (IF call.does = "by hand" THEN unswept \cup {n} ELSE unswept)
       /\ GoesTo(t, call, n, "listing")
       /\ UNCHANGED <<strategies, active, regime>>
    \/ /\ strategies[n] = "adapted"
       /\ BreaksOff(t)

StopsRunning(n) ==
    /\ running' = running \ {n}
    /\ unswept' = unswept \ {n} /\ unstopped' = unstopped \ {n}

SwitchOff(t, call, n) ==
    \/ /\ strategies[n] = "enhanced"
       /\ StopsRunning(n)
       /\ GoesTo(t, call, n, "unlisting")
       /\ UNCHANGED <<strategies, active, regime>>
    \/ /\ strategies[n] = "adapted"
       /\ BreaksOff(t)

-----------------------------------------------------------------------------
(* register_strategy: a new strategy under a known name replaces one that  *)
(* may be active, and is not active itself.  A name more is a dictionary   *)
(* that changed its size under the walk of a change of regime.             *)
RegisterStrategy(n, k) ==
    /\ strategies' = [strategies EXCEPT ![n] = k]
    /\ StopsRunning(n)
    /\ control' = [t \in Controllers |->
                     IF n \notin Registered /\ control[t].does = "regime"
                     THEN [control[t] EXCEPT !.grown = TRUE] ELSE control[t]]
    /\ UNCHANGED <<active, regime, torn>>

ByHand == [Idle EXCEPT !.does = "by hand"]

ActivateStrategy(t, n) ==
    /\ control[t] = Idle /\ n \in Registered
    /\ SwitchOn(t, ByHand, n)

DeactivateStrategy(t, n) ==
    /\ control[t] = Idle /\ n \in Registered
    /\ SwitchOff(t, ByHand, n)

(* activate_strategy appends a name that it does not find in the list.     *)
ListOrNot(t) ==
    /\ control[t].at = "listing"
    /\ IF active[control[t].name] > 0 THEN Proceed(t)
       ELSE control' = [control EXCEPT ![t].at = "appending"]
    /\ UNCHANGED <<strategies, active, running, regime, torn, shown>>

Append(t) ==
    /\ control[t].at = "appending"
    /\ active' = [active EXCEPT ![control[t].name] = @ + 1]
    /\ Proceed(t)
    /\ UNCHANGED <<strategies, running, regime, torn, shown>>

(* deactivate_strategy removes a name that it finds in the list, and       *)
(* raises if it is gone by then.                                           *)
UnlistOrNot(t) ==
    /\ control[t].at = "unlisting"
    /\ IF active[control[t].name] = 0 THEN Proceed(t)
       ELSE control' = [control EXCEPT ![t].at = "removing"]
    /\ UNCHANGED <<strategies, active, running, regime, torn, shown>>

Remove(t) ==
    /\ control[t].at = "removing"
    /\ \/ /\ active[control[t].name] > 0
          /\ active' = [active EXCEPT ![control[t].name] = @ - 1]
          /\ Proceed(t)
          /\ UNCHANGED <<strategies, running, regime, torn, shown>>
       \/ /\ active[control[t].name] = 0
          /\ BreaksOff(t)

-----------------------------------------------------------------------------
(* _detect_regime in a price update, and the beginning of                  *)
(* _on_regime_change.                                                      *)
RegimeChanges(new) ==
    /\ control[Feed] = Idle /\ new # regime
    /\ regime' = new
    /\ control' = [control EXCEPT ![Feed] =
                     [Idle EXCEPT !.does = "regime",
                                  !.todo = [n \in Names |-> IF n \in Registered THEN 1 ELSE 0]]]
    /\ unswept' = {}
    /\ UNCHANGED <<strategies, active, running, torn, unstopped>>

Visited(call, n) == [call EXCEPT !.todo[n] = @ - 1]

(* The walk reads is_active of each strategy, and acts on it afterwards.   *)
CheckSuitable(n) ==
    LET call == control[Feed] IN
    /\ call.does = "regime" /\ call.at = "walk" /\ ~call.grown /\ call.todo[n] > 0
    /\ \/ /\ strategies[n] = "enhanced"
          /\ control' = [control EXCEPT ![Feed] =
                IF (n \in running) <=> (n \in Suitable[regime]) THEN Visited(call, n)
                ELSE [Visited(call, n) EXCEPT
                        !.name = n, !.at = IF n \in running THEN "off" ELSE "on"]]
          /\ UNCHANGED <<strategies, active, running, regime, torn, shown>>
       \/ /\ strategies[n] = "adapted"
          /\ BreaksOff(Feed)

ActOnCheck ==
    /\ \/ control[Feed].at = "on" /\ SwitchOn(Feed, control[Feed], control[Feed].name)
       \/ control[Feed].at = "off" /\ SwitchOff(Feed, control[Feed], control[Feed].name)

RegimeEnds ==
    LET call == control[Feed] IN
    /\ call.does = "regime" /\ call.at = "walk"
    /\ \/ /\ call.grown
          /\ BreaksOff(Feed)
       \/ /\ ~call.grown /\ InList(call.todo) = {}
          /\ control' = [control EXCEPT ![Feed] = Idle]
          /\ UNCHANGED <<strategies, active, running, regime, torn, shown>>

-----------------------------------------------------------------------------
(* trigger_kill_switch, and stop, which does the same: every strategy of a *)
(* copy of the list is deactivated.                                        *)
CopyOf_Live(list) ==
    IF Cardinality(InList(list)) < 2 THEN list
    ELSE [list EXCEPT ![CHOOSE n \in InList(list) : TRUE] = 0]
CopyOf(list) == list

TriggerKillSwitch(t) ==
    /\ control[t] = Idle
    /\ control' = [control EXCEPT ![t] = [Idle EXCEPT !.does = "stop", !.todo = CopyOf(active)]]
    /\ unstopped' = {n \in running : \E u \in Controllers : Activating(u) /\ control[u].name = n}
    /\ UNCHANGED <<strategies, active, running, regime, torn, unswept>>

StopNext(t, n) ==
    /\ control[t].does = "stop" /\ control[t].at = "walk" /\ control[t].todo[n] > 0
    /\ SwitchOff(t, Visited(control[t], n), n)

StopEnds(t) ==
    /\ control[t].does = "stop" /\ control[t].at = "walk" /\ InList(control[t].todo) = {}
    /\ control' = [control EXCEPT ![t] = Idle]
    /\ UNCHANGED <<strategies, active, running, regime, torn, shown>>

(* A KeyboardInterrupt, which the main thread receives. *)
Interrupted ==
    /\ control[Feed] # Idle
    /\ BreaksOff(Feed)

ThreadNext(t) ==
    \/ \E n \in Names : ActivateStrategy(t, n) \/ DeactivateStrategy(t, n) \/ StopNext(t, n)
    \/ ListOrNot(t) \/ Append(t) \/ UnlistOrNot(t) \/ Remove(t)
    \/ TriggerKillSwitch(t) \/ StopEnds(t)

Next ==
    \/ \E k \in Builds : RegisterStrategy(k[1], k[2])
    \/ \E n \in Names : CheckSuitable(n)
    \/ \E new \in Regimes : RegimeChanges(new)
    \/ ActOnCheck \/ RegimeEnds \/ Interrupted
    \/ \E t \in Controllers : ThreadNext(t)

Spec == Init /\ [][Next]_controlVars

-----------------------------------------------------------------------------
(* A strategy at which no calls met and none was broken off is in the list *)
(* once if it runs, or its activation is under way.                        *)
ListedOnce ==
    \A n \in Names \ torn :
        /\ active[n] <= 1
        /\ n \in running /\ active[n] = 0 =>
              \E t \in Controllers : Activating(t) /\ control[t].name = n

(* What runs when no stop or kill switch is under way was activated since  *)
(* the last one began, is torn, or was left by one that broke off.         *)
Stopping(t) == control[t].does = "stop"
StopsReachAll == (\A t \in Controllers : ~Stopping(t)) => running \subseteq unstopped \cup torn

(* What runs when no walk of a change of regime is under way suits the     *)
(* regime, was activated by hand in it, or was left by a walk that broke   *)
(* off.                                                                    *)
Suited == IF regime = Unknown THEN {} ELSE Suitable[regime]
RunningSuits == control[Feed].does # "regime" => running \subseteq Suited \cup unswept

(* Through registrations over a running strategy, changes of regime, calls *)
(* of several threads and exceptions: the flags and the list agree, so     *)
(* that the kill switch and the stop, if no adapted strategy breaks them   *)
(* off, reach all that runs.                                               *)
ControlReachesAll == ListedOnce /\ StopsReachAll /\ RunningSuits

(* Inductive: besides, calls beyond a flag are alone at their name and     *)
(* know the list, and what a walk has left to visit is all that may still  *)
(* run.                                                                    *)
CallsKnow ==
    \A n \in Names \ torn : \A t \in Controllers : Mid(t) /\ control[t].name = n =>
        /\ ~MetAt(t, n) /\ (n \in running => Activating(t))
        /\ control[t].at = "appending" => active[n] = 0
        /\ control[t].at = "removing" => active[n] = 1

StopLeaves ==
    running \subseteq unstopped \cup torn
                     \cup {n \in Names : \E t \in Controllers : Stopping(t) /\ control[t].todo[n] > 0}

SweepLeaves ==
    LET call == control[Feed] IN
    call.does = "regime" =>
        /\ running \subseteq Suited \cup unswept \cup InList(call.todo)
                             \cup (IF call.at = "off" THEN {call.name} ELSE {})
        /\ regime # Unknown /\ (call.at = "on" => call.name \in Suited)

CallRecords ==
    [does : {"nothing", "by hand", "regime", "stop"},
     at : {"walk", "on", "off", "listing", "appending", "unlisting", "removing"},
     name : Names, todo : [Names -> Nat], grown : BOOLEAN]

TypeOK ==
    /\ strategies \in [Names -> {"none", "enhanced", "adapted"}] /\ active \in [Names -> Nat]
    /\ running \subseteq Registered /\ control \in [Controllers -> CallRecords]
    /\ \A t \in Controllers :
         /\ control[t].does = "regime" => t = Feed
         /\ control[t].at \in {"on", "off"} => control[t].does = "regime"
         /\ control[t].does = "nothing" => control[t].at = "walk"

IInv == TypeOK /\ ListedOnce /\ RunningSuits /\ CallsKnow /\ StopLeaves /\ SweepLeaves
=============================================================================
