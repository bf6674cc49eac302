------------------------------ MODULE RiskBreaker ------------------------------
(***************************************************************************)
(* CircuitBreaker of risk/circuit_breakers.py: a task that watches the     *)
(* account once a second, a second one started when a manual override is   *)
(* lifted, the kill switch either of them runs against the broker, the     *)
(* recovery timers, and the callers of pre_trade_check.                    *)
(*                                                                         *)
(* All of them are coroutines of one thread, so that the thread's RLock,   *)
(* held across the awaits of the kill switch, keeps none of them out.      *)
(* A tick is the five minutes a recovery is on probation; the kill switch, *)
(* a few seconds long, is over before the next one.                        *)
(***************************************************************************)
EXTENDS Integers, FiniteSets, FiniteSetTheorems, TLAPS

CONSTANTS
    Orders,         \* ids of orders callers send
    Balances,       \* what the account may be worth
    MaxRetries,     \* max_retries of _execute_kill_switch
    Cooldown,       \* circuit_breaker_cooldown_minutes, in ticks
    MaxOrderRate,   \* max_orders_per_minute
    MaxLosses,      \* max_consecutive_losses; each is the same share of the balance
    MaxExposure,    \* max_total_exposure_pct, in orders
    MaxHalvings     \* halvings of max_position_size_pct the model counts to

ASSUME BalancesAssumption == Balances \subseteq Nat \ {0} /\ Balances # {}
ASSUME LimitsAssumption ==
    {MaxRetries, Cooldown, MaxOrderRate, MaxLosses, MaxExposure, MaxHalvings} \subseteq Nat \ {0}

Watchers == {"monitor", "lifted"}   \* _monitoring_loop, the task of manual_override

VARIABLES
    balance,     \* the broker's get_balance()
    order,       \* where an order is: new, allowed, resting, position, gone
    state,       \* CircuitState
    override,    \* _manual_override
    peak,        \* peak_balance
    drawdown,    \* current_drawdown, as the limits tell it apart
    rate,        \* recent entries of orders_last_minute
    losses,      \* consecutive_losses
    halvings,    \* how often max_position_size_pct was halved
    severity,    \* of the last entry of breach_history
    watcher,     \* where each watcher is in _trigger_circuit_breaker
    cooldowns,   \* sleeping _schedule_recovery tasks, by ticks left
    probations   \* sleeping _check_recovery tasks, by ticks left

market == <<balance, order>>
timers == <<cooldowns, probations>>
tally == <<peak, drawdown, rate, losses>>
vars == <<balance, order, state, override, peak, drawdown, rate, losses, halvings,
          severity, watcher, cooldowns, probations>>

Asleep == [at |-> "asleep", attempt |-> 0, seen |-> {}]
Starting == [at |-> "read", attempt |-> 1, seen |-> {}]

In(place) == {o \in Orders : order[o] = place}
Positions == In("position")

(* Limits of RiskLimits: 3% and 10%, and half of the first to recover.     *)
DrawdownClass(top, now) ==
    LET lost(permille) == (top - now) * 1000 >= permille * top
    IN  IF lost(100) THEN "total"
        ELSE IF lost(30) THEN "daily"
        ELSE IF lost(15) THEN "watch"
        ELSE "calm"

(* One more, or one less, sleeping task with so many ticks left.           *)
Add(tasks, ticks) == [tasks EXCEPT ![ticks] = @ + 1]
Drop(tasks, ticks) == [tasks EXCEPT ![ticks] = @ - 1]
NoTask(ticks) == [t \in 0..ticks |-> 0]

Init ==
    /\ balance \in Balances /\ peak = balance
    /\ order = [o \in Orders |-> "new"]
    /\ state = "closed" /\ override = FALSE
    /\ drawdown = "calm" /\ rate = 0 /\ losses = 0 /\ halvings = 0 /\ severity = "none"
    /\ watcher = [w \in Watchers |-> Asleep]
    /\ cooldowns = NoTask(Cooldown) /\ probations = NoTask(1)

-----------------------------------------------------------------------------
(* (A name with an underscore is a fault that a change of the code could   *)
(* bring into the definition after it.)                                    *)
Trigger_AgainWhileOpen(w, how) ==
    /\ state' = "open"
    /\ severity' = how
    /\ watcher' = [watcher EXCEPT ![w] = Starting]

Trigger_HaltAfterwards(w, how) ==
    IF state = "open"
    THEN UNCHANGED <<state, severity>> /\ watcher' = [watcher EXCEPT ![w] = Asleep]
    ELSE /\ severity' = how
         /\ watcher' = [watcher EXCEPT ![w] = Starting]
         /\ UNCHANGED state

(* _trigger_circuit_breaker up to the first await of the kill switch, by   *)
(* watcher w; an open breaker is left alone.                               *)
Trigger(w, how) ==
    IF state = "open"
    THEN UNCHANGED <<state, severity>> /\ watcher' = [watcher EXCEPT ![w] = Asleep]
    ELSE /\ state' = "open"
         /\ severity' = how
         /\ watcher' = [watcher EXCEPT ![w] = Starting]

(* The severity of the first limit that is breached, in the code's order.  *)
Breach(now) ==
    IF now \in {"daily", "total"} THEN "HIGH"
    ELSE IF now = "total" THEN "CRITICAL"
    ELSE IF rate >= MaxOrderRate \/ losses >= MaxLosses THEN "HIGH"
    ELSE "none"

(* _check_risk_limits *)
CheckRiskLimits(w) ==
    LET top == IF balance > peak THEN balance ELSE peak
        now == DrawdownClass(top, balance)
    IN /\ peak' = top
       /\ drawdown' = now
       /\ IF Breach(now) # "none"
          THEN Trigger(w, Breach(now))
          ELSE UNCHANGED <<state, severity>> /\ watcher' = [watcher EXCEPT ![w] = Asleep]
       /\ UNCHANGED <<market, override, rate, losses, halvings, timers>>

Monitor == watcher["monitor"].at = "asleep" /\ CheckRiskLimits("monitor")

(* The task that manual_override starts when it is lifted.                 *)
Reevaluate == watcher["lifted"].at = "due" /\ CheckRiskLimits("lifted")

(* get_balance fails in the middle of the trigger, after the state is set. *)
TriggerFails ==
    /\ watcher["monitor"].at = "asleep" /\ state # "open"
    /\ LET top == IF balance > peak THEN balance ELSE peak
       IN /\ DrawdownClass(top, balance) \in {"daily", "total"}
          /\ peak' = top
          /\ drawdown' = DrawdownClass(top, balance)
    /\ state' = "open"
    /\ UNCHANGED <<market, override, rate, losses, halvings, severity, watcher, timers>>

-----------------------------------------------------------------------------
(* _execute_kill_switch, run by watcher w.                                 *)

Over_ScheduledTwice(w) ==
    /\ watcher' = [watcher EXCEPT ![w] = Asleep]
    /\ cooldowns' = Add(Add(cooldowns, Cooldown), Cooldown)

(* The end of the kill switch and of the trigger: a recovery is scheduled. *)
Over(w) ==
    /\ watcher' = [watcher EXCEPT ![w] = Asleep]
    /\ cooldowns' = Add(cooldowns, Cooldown)

NextAttempt(w) ==
    IF watcher[w].attempt < MaxRetries
    THEN /\ watcher' = [watcher EXCEPT ![w] = [Starting EXCEPT !.attempt = watcher[w].attempt + 1]]
         /\ UNCHANGED cooldowns
    ELSE Over(w)

(* The orders at the broker are cancelled only when there are positions.   *)
(* (What the broker answers may change between any two calls, so that each *)
(* call is a step even where the coroutine does not let go.)               *)
KillReads(w) ==
    /\ watcher[w].at = "read"
    /\ IF Positions = {}
       THEN Over(w) /\ UNCHANGED order
       ELSE /\ order' = [o \in Orders |-> IF order[o] = "resting" THEN "gone" ELSE order[o]]
            /\ watcher' = [watcher EXCEPT ![w].at = "close", ![w].seen = Positions]
            /\ UNCHANGED cooldowns
    /\ UNCHANGED <<balance, state, override, tally, halvings, severity, probations>>

(* The positions seen half a second ago are closed; the broker may refuse  *)
(* any of them.                                                            *)
KillCloses(w) ==
    /\ watcher[w].at = "close"
    /\ \E refused \in SUBSET watcher[w].seen :
        order' = [o \in Orders |-> IF o \in watcher[w].seen \ refused THEN "gone" ELSE order[o]]
    /\ watcher' = [watcher EXCEPT ![w].at = "verify"]
    /\ UNCHANGED <<balance, state, override, tally, halvings, severity, timers>>

KillVerifies(w) ==
    /\ watcher[w].at = "verify"
    /\ IF Positions = {} THEN Over(w) ELSE NextAttempt(w)
    /\ UNCHANGED <<market, state, override, tally, halvings, severity, probations>>

(* A broker call raises: the attempt is given up.                          *)
KillAttemptFails(w) ==
    /\ watcher[w].at \in {"read", "verify"}
    /\ NextAttempt(w)
    /\ UNCHANGED <<market, state, override, tally, halvings, severity, probations>>

(* get_positions raises in the final verification, which nothing catches:  *)
(* the trigger ends before it schedules a recovery.                        *)
FinalVerificationFails(w) ==
    /\ watcher[w].at \in {"read", "verify"}
    /\ Positions = {} \/ watcher[w].attempt = MaxRetries
    /\ watcher' = [watcher EXCEPT ![w] = Asleep]
    /\ UNCHANGED <<market, state, override, tally, halvings, severity, timers>>

-----------------------------------------------------------------------------
HalfOpen_OnlyWhenCalm ==
    /\ cooldowns[0] > 0
    /\ IF override \/ drawdown # "calm"
       THEN /\ cooldowns' = Add(Drop(cooldowns, 0), Cooldown)
            /\ UNCHANGED <<state, halvings, probations>>
       ELSE /\ state' = "half_open"
            /\ halvings' = IF halvings < MaxHalvings THEN halvings + 1 ELSE halvings
            /\ cooldowns' = Drop(cooldowns, 0)
            /\ probations' = Add(probations, 1)
    /\ UNCHANGED <<market, override, tally, severity, watcher>>

(* _schedule_recovery after its cooldown: the state is set whatever it is. *)
HalfOpen ==
    /\ cooldowns[0] > 0
    /\ cooldowns' = Drop(cooldowns, 0)
    /\ IF override
       THEN UNCHANGED <<state, halvings, probations>>
       ELSE /\ state' = "half_open"
            /\ halvings' = IF halvings < MaxHalvings THEN halvings + 1 ELSE halvings
            /\ probations' = Add(probations, 1)
    /\ UNCHANGED <<market, override, tally, severity, watcher>>

(* _check_recovery after its five minutes.                                 *)
CheckRecovery ==
    /\ probations[0] > 0
    /\ probations' = Drop(probations, 0)
    /\ \/ /\ state # "half_open"
          /\ UNCHANGED <<state, halvings, cooldowns>>
       \/ /\ state = "half_open" /\ drawdown = "calm"
          /\ state' = "closed"
          /\ halvings' = halvings - 1
          /\ UNCHANGED cooldowns
       \/ /\ state = "half_open" /\ drawdown # "calm"
          /\ state' = "open"
          /\ cooldowns' = Add(cooldowns, Cooldown)
          /\ UNCHANGED halvings
    /\ UNCHANGED <<market, override, tally, severity, watcher>>

(* Five minutes: the timers run, and the orders of the last minute age.    *)
Shifted(tasks) ==
    [t \in DOMAIN tasks |-> IF t + 1 \in DOMAIN tasks THEN tasks[t + 1] ELSE 0]

Tick ==
    /\ cooldowns[0] = 0 /\ probations[0] = 0
    /\ \A w \in Watchers : watcher[w].at = "asleep"
    /\ cooldowns' = Shifted(cooldowns)
    /\ probations' = Shifted(probations)
    /\ rate' = 0
    /\ UNCHANGED <<market, state, override, peak, drawdown, losses, halvings, severity, watcher>>

-----------------------------------------------------------------------------
(* pre_trade_check: the exposure it adds the order to is that of the       *)
(* positions the broker reports.                                           *)
PreTradeCheck(o) ==
    /\ order[o] = "new" /\ state # "open"
    /\ Cardinality(Positions) + 1 <= MaxExposure
    /\ order' = [order EXCEPT ![o] = "allowed"]
    /\ rate' = IF rate < MaxOrderRate THEN rate + 1 ELSE rate
    /\ UNCHANGED <<balance, state, override, peak, drawdown, losses, halvings, severity, watcher, timers>>

(* The caller sends the order it was allowed; the broker fills it.         *)
OrderMoves(o) ==
    /\ \/ order[o] = "allowed" /\ order' = [order EXCEPT ![o] = "resting"]
       \/ order[o] = "resting" /\ order' = [order EXCEPT ![o] = "position"]
    /\ UNCHANGED <<balance, state, override, tally, halvings, severity, watcher, timers>>

(* A position is closed by its owner, who reports the result.              *)
UpdateTradeResult(o) ==
    /\ order[o] = "position"
    /\ order' = [order EXCEPT ![o] = "new"]
    /\ losses' \in {0, IF losses < MaxLosses THEN losses + 1 ELSE losses}
    /\ UNCHANGED <<balance, state, override, peak, drawdown, rate, halvings, severity, watcher, timers>>

MarketMoves ==
    /\ balance' \in Balances \ {balance}
    /\ UNCHANGED <<order, state, override, tally, halvings, severity, watcher, timers>>

ManualOverride_Closes(enable) ==
    /\ override' = enable
    /\ IF enable THEN UNCHANGED <<watcher, state>>
                 ELSE /\ watcher["lifted"].at = "asleep"
                      /\ watcher' = [watcher EXCEPT !["lifted"].at = "due"]
                      /\ state' = "closed"
    /\ UNCHANGED <<market, tally, halvings, severity, timers>>

(* manual_override: nothing else looks at it but the recovery. (One task   *)
(* started by lifting it is modelled at a time.)                           *)
ManualOverride(enable) ==
    /\ override' = enable
    /\ IF enable THEN UNCHANGED watcher
                 ELSE /\ watcher["lifted"].at = "asleep"
                      /\ watcher' = [watcher EXCEPT !["lifted"].at = "due"]
    /\ UNCHANGED <<market, state, tally, halvings, severity, timers>>

(* A new process: _load_state reads everything back but the state, and the *)
(* peak it reads is set to the balance at once.                            *)
Restart ==
    /\ state' = "closed" /\ override' = FALSE
    /\ peak' = balance
    /\ drawdown' = "calm" /\ rate' = 0 /\ halvings' = 0 /\ severity' = "none"
    /\ watcher' = [w \in Watchers |-> Asleep]
    /\ cooldowns' = NoTask(Cooldown) /\ probations' = NoTask(1)
    /\ UNCHANGED <<market, losses>>

-----------------------------------------------------------------------------
KillStep(w) == KillReads(w) \/ KillCloses(w) \/ KillVerifies(w)
Tasks == Monitor \/ Reevaluate \/ HalfOpen \/ CheckRecovery \/ \E w \in Watchers : KillStep(w)
World == \/ MarketMoves
         \/ \E o \in Orders : PreTradeCheck(o) \/ OrderMoves(o) \/ UpdateTradeResult(o)

CalmNext == Tasks \/ World \/ Tick
Next ==
    \/ CalmNext
    \/ \E enable \in BOOLEAN : ManualOverride(enable)
    \/ \E w \in Watchers : KillAttemptFails(w)
BrokerFails == TriggerFails \/ \E w \in Watchers : FinalVerificationFails(w)
RestartNext == Next \/ Restart \/ BrokerFails
FailureNext == CalmNext \/ BrokerFails

(* The event loop runs what is due and time passes.                        *)
Progress == WF_vars(Tick) /\ WF_vars(HalfOpen) /\ WF_vars(CheckRecovery)
            /\ \A w \in Watchers : WF_vars(KillStep(w))

Spec == Init /\ [][Next]_vars
CalmSpec == Init /\ [][CalmNext]_vars /\ Progress
RestartSpec == Init /\ [][RestartNext]_vars
FailureSpec == Init /\ [][FailureNext]_vars

-----------------------------------------------------------------------------
Killing(w) == watcher[w].at \in {"read", "close", "verify"}

TypeOK ==
    /\ balance \in Balances /\ peak \in Balances
    /\ order \in [Orders -> {"new", "allowed", "resting", "position", "gone"}]
    /\ state \in {"closed", "open", "half_open"} /\ override \in BOOLEAN
    /\ drawdown \in {"calm", "watch", "daily", "total"}
    /\ rate \in 0..MaxOrderRate /\ losses \in 0..MaxLosses /\ halvings \in 0..MaxHalvings
    /\ severity \in {"none", "HIGH", "CRITICAL"}
    /\ watcher \in [Watchers -> [at : {"asleep", "due", "read", "close", "verify"},
                                 attempt : 0..MaxRetries, seen : SUBSET Orders]]
    /\ cooldowns \in [0..Cooldown -> 0..1] /\ probations \in [0..1 -> 0..1]

(* While positions are being closed the breaker is open, so that nothing   *)
(* new is admitted behind the kill switch.                                 *)
NothingAdmittedWhileKilling == \A w \in Watchers : Killing(w) => state = "open"

(* The two watchers never flatten the account at the same time, though the *)
(* lock does not keep them apart; and at most one recovery is on its way,  *)
(* only for an open breaker.                                               *)
Sleeping(tasks) == {t \in DOMAIN tasks : tasks[t] > 0}
OneTaskEach ==
    /\ ~(Killing("monitor") /\ Killing("lifted"))
    /\ Cardinality(Sleeping(cooldowns)) <= 1
    /\ \A t \in Sleeping(cooldowns) : cooldowns[t] = 1 /\ state = "open"

(* A halt is followed by a probation.                                      *)
HaltEnds == state = "open" ~> state = "half_open"

-----------------------------------------------------------------------------
(* What the docstrings promise and the code does not do. *)

(* "10% total max": the breach of the total limit is CRITICAL.             *)
TotalBreachIsCritical ==
    [][drawdown' = "total" /\ state # "open" /\ state' = "open" => severity' = "CRITICAL"]_vars

(* "Restore limits", "normal trading resumed".                             *)
ClosedAtFullSize == state = "closed" => halvings = 0

(* "Redis-backed state persistence": a halt survives a restart.            *)
HaltSurvivesRestart == [][state = "open" => state' # "closed"]_vars

(* "20% total exposure".                                                   *)
ExposureWithinLimit == Cardinality(Positions) <= MaxExposure

(* "Cancel all pending orders first": none is at the broker when a kill    *)
(* switch that met no failure ends.                                        *)
KillLeavesNoOrder ==
    [][\A w \in Watchers : Killing(w) /\ ~Killing(w)' => {o \in Orders : order'[o] = "resting"} = {}]_vars

(* "Schedule automatic recovery attempt after cooldown": an open breaker   *)
(* is one whose kill switch still runs or whose recovery is on its way.    *)
(* It holds of CalmSpec, not of Spec (a recovery that falls due during an  *)
(* override is lost) nor of FailureSpec (the broker fails in the trigger). *)
HaltHasRecovery ==
    state = "open" => Sleeping(cooldowns) # {} \/ \E w \in Watchers : Killing(w)

-----------------------------------------------------------------------------
(***************************************************************************)
(* One task at a time. A halt hands one token on: from the watcher that    *)
(* runs the kill switch to the recovery that sleeps, and to the probation. *)
(* While it is held the breaker is open, so that no other watcher gets in. *)
(***************************************************************************)
OneRecovery ==
    /\ \A w \in Watchers : Killing(w) => state = "open" /\ Sleeping(cooldowns) = {}
    /\ ~(Killing("monitor") /\ Killing("lifted"))
    /\ \A t, u \in Sleeping(cooldowns) : t = u
    /\ Sleeping(cooldowns) # {} => state = "open"

\* A breaker on probation has its limits halved; a probation that has just
\* begun is not overtaken by the next one.
ProbationInv ==
    /\ state = "half_open" => halvings >= 1
    /\ probations[1] = 1 => cooldowns[0] = 0

IInv == TypeOK /\ OneRecovery /\ ProbationInv

-----------------------------------------------------------------------------
(* What one more or one less sleeping task, and a tick, do to the sleepers. *)

(* The class of a drawdown is one of four, whatever was lost.              *)
LEMMA Classes ==
    \A top, now : DrawdownClass(top, now) \in {"calm", "watch", "daily", "total"}
BY DEF DrawdownClass

(* The task added where none sleeps is the one that sleeps.                *)
LEMMA AddedSleeps ==
    ASSUME TypeOK, Sleeping(cooldowns) = {}
    PROVE  /\ Add(cooldowns, Cooldown) \in [0..Cooldown -> 0..1]
           /\ Sleeping(Add(cooldowns, Cooldown)) = {Cooldown}
           /\ Add(cooldowns, Cooldown)[0] = 0
<1>1. Cooldown \in Nat \ {0} /\ cooldowns \in [0..Cooldown -> 0..1]
  BY LimitsAssumption DEF TypeOK
<1>2. \A t \in 0..Cooldown : cooldowns[t] = 0
  BY <1>1 DEF Sleeping
<1>3. /\ DOMAIN Add(cooldowns, Cooldown) = 0..Cooldown
      /\ Add(cooldowns, Cooldown) \in [0..Cooldown -> 0..1]
      /\ \A t \in 0..Cooldown : Add(cooldowns, Cooldown)[t] = IF t = Cooldown THEN 1 ELSE 0
  BY <1>1, <1>2 DEF Add
<1> QED BY <1>1, <1>3 DEF Sleeping

(* The one task that sleeps is gone when it has run.                       *)
LEMMA DroppedIsGone ==
    ASSUME TypeOK, OneRecovery, cooldowns[0] > 0
    PROVE  /\ Drop(cooldowns, 0) \in [0..Cooldown -> 0..1]
           /\ Sleeping(Drop(cooldowns, 0)) = {}
<1>1. Cooldown \in Nat \ {0} /\ cooldowns \in [0..Cooldown -> 0..1]
  BY LimitsAssumption DEF TypeOK
<1>2. \A t \in 0..Cooldown : t # 0 => cooldowns[t] = 0
  BY <1>1 DEF Sleeping, OneRecovery
<1>3. cooldowns[0] = 1
  BY <1>1
<1>4. /\ DOMAIN Drop(cooldowns, 0) = 0..Cooldown
      /\ Drop(cooldowns, 0) \in [0..Cooldown -> 0..1]
      /\ \A t \in 0..Cooldown : Drop(cooldowns, 0)[t] = 0
  BY <1>1, <1>2, <1>3 DEF Drop
<1> QED BY <1>1, <1>4 DEF Sleeping

(* A tick moves each sleeping task on by one and wakes none twice.         *)
LEMMA TickShifts ==
    ASSUME TypeOK, cooldowns[0] = 0, probations[0] = 0
    PROVE  /\ Shifted(cooldowns) \in [0..Cooldown -> 0..1]
           /\ Shifted(probations) \in [0..1 -> 0..1] /\ Shifted(probations)[1] = 0
           /\ \A t : t \in Sleeping(Shifted(cooldowns)) <=> t + 1 \in Sleeping(cooldowns) /\ t \in 0..Cooldown
           /\ Sleeping(cooldowns) # {} => Sleeping(Shifted(cooldowns)) # {}
<1>1. /\ Cooldown \in Nat \ {0} /\ cooldowns \in [0..Cooldown -> 0..1]
      /\ probations \in [0..1 -> 0..1]
  BY LimitsAssumption DEF TypeOK
<1>2. Shifted(cooldowns) = [t \in 0..Cooldown |-> IF t + 1 \in 0..Cooldown THEN cooldowns[t + 1] ELSE 0]
  BY <1>1 DEF Shifted
<1>3. Shifted(probations) = [t \in 0..1 |-> IF t + 1 \in 0..1 THEN probations[t + 1] ELSE 0]
  BY <1>1 DEF Shifted
<1>4. Shifted(cooldowns) \in [0..Cooldown -> 0..1]
  BY <1>1, <1>2
<1>5. Shifted(probations) \in [0..1 -> 0..1] /\ Shifted(probations)[1] = 0
  BY <1>1, <1>3
<1>6. \A t : t \in Sleeping(Shifted(cooldowns)) <=> t + 1 \in Sleeping(cooldowns) /\ t \in 0..Cooldown
  BY <1>1, <1>2 DEF Sleeping
<1>7. ASSUME NEW t \in Sleeping(cooldowns) PROVE t - 1 \in Sleeping(Shifted(cooldowns))
  <2>1. t \in 1..Cooldown
    BY <1>1 DEF Sleeping
  <2> QED BY <1>1, <1>6, <2>1
<1> QED BY <1>4, <1>5, <1>6, <1>7

-----------------------------------------------------------------------------
(* What a step of a watcher does to the token. *)

WatcherAt == [at : {"asleep", "due", "read", "close", "verify"},
              attempt : 0..MaxRetries, seen : SUBSET Orders]

(* A watcher moves on its own, the other stays where it is.                *)
LEMMA WatcherMoves ==
    ASSUME TypeOK, NEW w \in Watchers, NEW r \in WatcherAt, watcher' = [watcher EXCEPT ![w] = r]
    PROVE  /\ watcher' \in [Watchers -> WatcherAt] /\ watcher'[w] = r
           /\ Killing(w)' <=> r.at \in {"read", "close", "verify"}
           /\ \A u \in Watchers \ {w} : Killing(u)' <=> Killing(u)
BY DEF TypeOK, WatcherAt, Killing

(* Where a watcher begins and ends its kill switch.                        *)
LEMMA Ends == Asleep \in WatcherAt /\ Starting \in WatcherAt
BY LimitsAssumption DEF Asleep, Starting, WatcherAt

(* A watcher that checks the limits takes the token when it is the one to  *)
(* open the breaker, and no token when the breaker is open already.        *)
LEMMA CheckKeeps ==
    ASSUME IInv, NEW w \in Watchers, ~Killing(w), CheckRiskLimits(w)
    PROVE  IInv'
<1> DEFINE top == IF balance > peak THEN balance ELSE peak
           now == DrawdownClass(top, balance)
<1>0. TypeOK /\ OneRecovery /\ ProbationInv
  BY DEF IInv
<1>1. /\ peak' \in Balances /\ drawdown' \in {"calm", "watch", "daily", "total"}
      /\ UNCHANGED <<market, override, rate, losses, halvings, timers>>
      /\ \/ \E how \in {"HIGH", "CRITICAL"} : Trigger(w, how)
         \/ UNCHANGED <<state, severity>> /\ watcher' = [watcher EXCEPT ![w] = Asleep]
  <2>1. /\ peak' = top /\ drawdown' = now
        /\ UNCHANGED <<market, override, rate, losses, halvings, timers>>
        /\ IF Breach(now) # "none" THEN Trigger(w, Breach(now))
           ELSE UNCHANGED <<state, severity>> /\ watcher' = [watcher EXCEPT ![w] = Asleep]
    BY DEF CheckRiskLimits
  <2>2. Breach(now) \in {"HIGH", "CRITICAL", "none"}
    BY DEF Breach
  <2> QED BY <1>0, <2>1, <2>2, Classes DEF TypeOK
<1>2. \/ /\ state # "open" /\ state' = "open" /\ severity' \in {"HIGH", "CRITICAL"}
         /\ watcher' = [watcher EXCEPT ![w] = Starting]
      \/ UNCHANGED <<state, severity>> /\ watcher' = [watcher EXCEPT ![w] = Asleep]
  BY <1>1 DEF Trigger
<1>3. CASE /\ state # "open" /\ state' = "open" /\ severity' \in {"HIGH", "CRITICAL"}
           /\ watcher' = [watcher EXCEPT ![w] = Starting]
  <2>1. /\ watcher' \in [Watchers -> WatcherAt]
        /\ \A u \in Watchers \ {w} : Killing(u)' <=> Killing(u)
    BY <1>0, <1>3, WatcherMoves, Ends
  <2>2. Sleeping(cooldowns) = {} /\ \A u \in Watchers : ~Killing(u)
    BY <1>0, <1>3 DEF OneRecovery
  <2>3. TypeOK'
    BY <1>0, <1>1, <1>3, <2>1 DEF TypeOK, market, timers, WatcherAt
  <2>4. OneRecovery'
    BY <1>1, <1>3, <2>1, <2>2 DEF OneRecovery, Sleeping, timers, Watchers
  <2>5. ProbationInv'
    BY <1>0, <1>1, <1>3 DEF ProbationInv, timers
  <2> QED BY <2>3, <2>4, <2>5 DEF IInv
<1>4. CASE UNCHANGED <<state, severity>> /\ watcher' = [watcher EXCEPT ![w] = Asleep]
  <2>1. /\ watcher' \in [Watchers -> WatcherAt] /\ \A u \in Watchers : Killing(u)' => Killing(u)
    BY <1>0, <1>4, WatcherMoves, Ends DEF Asleep
  <2>2. TypeOK'
    BY <1>0, <1>1, <1>4, <2>1 DEF TypeOK, market, timers, WatcherAt
  <2>3. OneRecovery'
    BY <1>0, <1>1, <1>4, <2>1 DEF OneRecovery, Sleeping, timers, Watchers
  <2>4. ProbationInv'
    BY <1>0, <1>1, <1>4 DEF ProbationInv, timers
  <2> QED BY <2>2, <2>3, <2>4 DEF IInv
<1> QED BY <1>2, <1>3, <1>4

(* The watcher that ends its kill switch hands the token to a recovery; an *)
(* attempt that did not flatten the account is made again, or was the last.*)
LEMMA EndOrAgain ==
    ASSUME IInv, NEW w \in Watchers, Killing(w), Over(w) \/ NextAttempt(w),
           order' \in [Orders -> {"new", "allowed", "resting", "position", "gone"}],
           UNCHANGED <<balance, state, override, tally, halvings, severity, probations>>
    PROVE  IInv'
<1>0. TypeOK /\ OneRecovery /\ ProbationInv
  BY DEF IInv
<1>1. state = "open" /\ Sleeping(cooldowns) = {} /\ \A u \in Watchers \ {w} : ~Killing(u)
  BY <1>0 DEF OneRecovery, Watchers
<1>2. CASE Over(w)
  <2>1. /\ watcher' \in [Watchers -> WatcherAt] /\ \A u \in Watchers : ~Killing(u)'
    BY <1>0, <1>1, <1>2, WatcherMoves, Ends DEF Over, Asleep
  <2>2. /\ cooldowns' \in [0..Cooldown -> 0..1] /\ Sleeping(cooldowns') = {Cooldown}
        /\ cooldowns'[0] = 0
    BY <1>0, <1>1, <1>2, AddedSleeps DEF Over
  <2>3. TypeOK'
    BY <1>0, <2>1, <2>2 DEF TypeOK, tally, WatcherAt
  <2>4. OneRecovery'
    BY <1>1, <2>1, <2>2 DEF OneRecovery, Sleeping, Watchers
  <2>5. ProbationInv'
    BY <1>0, <2>2 DEF ProbationInv
  <2> QED BY <2>3, <2>4, <2>5 DEF IInv
<1>3. CASE ~Over(w)
  <2> DEFINE again == [Starting EXCEPT !.attempt = watcher[w].attempt + 1]
  <2>1. /\ watcher[w].attempt < MaxRetries /\ watcher' = [watcher EXCEPT ![w] = again]
        /\ cooldowns' = cooldowns
    BY <1>3 DEF NextAttempt
  <2>2. watcher[w].attempt \in 0..MaxRetries
    BY <1>0 DEF TypeOK
  <2>3. again \in WatcherAt
    BY <2>1, <2>2, LimitsAssumption DEF Starting, WatcherAt
  <2>4. /\ watcher' \in [Watchers -> WatcherAt] /\ \A u \in Watchers \ {w} : ~Killing(u)'
    BY <1>0, <1>1, <2>1, <2>3, WatcherMoves
  <2>5. TypeOK'
    BY <1>0, <2>1, <2>4 DEF TypeOK, tally, WatcherAt
  <2>6. OneRecovery'
    BY <1>0, <1>1, <2>1, <2>4 DEF OneRecovery, Sleeping, Watchers
  <2>7. ProbationInv'
    BY <1>0, <2>1 DEF ProbationInv
  <2> QED BY <2>5, <2>6, <2>7 DEF IInv
<1> QED BY <1>2, <1>3

(* A watcher that goes on inside the kill switch, or gives it up, keeps or *)
(* loses the token; the broker's orders are nothing to it.                 *)
LEMMA WatcherGoesOn ==
    ASSUME IInv, NEW w \in Watchers, Killing(w), NEW r \in WatcherAt,
           watcher' = [watcher EXCEPT ![w] = r],
           order' \in [Orders -> {"new", "allowed", "resting", "position", "gone"}],
           UNCHANGED <<balance, state, override, tally, halvings, severity, timers>>
    PROVE  IInv'
<1>0. TypeOK /\ OneRecovery /\ ProbationInv
  BY DEF IInv
<1>1. /\ watcher' \in [Watchers -> WatcherAt] /\ \A u \in Watchers : Killing(u)' => Killing(u)
  BY <1>0, WatcherMoves
<1>2. TypeOK'
  BY <1>0, <1>1 DEF TypeOK, tally, timers, WatcherAt
<1>3. OneRecovery'
  BY <1>0, <1>1 DEF OneRecovery, Sleeping, timers, Watchers
<1>4. ProbationInv'
  BY <1>0 DEF ProbationInv, timers
<1> QED BY <1>2, <1>3, <1>4 DEF IInv

(* Each step of the kill switch, and each call of it that fails.           *)
LEMMA KillKeeps ==
    ASSUME IInv, NEW w \in Watchers,
           KillStep(w) \/ KillAttemptFails(w) \/ FinalVerificationFails(w)
    PROVE  IInv'
<1>0. TypeOK /\ watcher[w] \in WatcherAt
  BY DEF IInv, TypeOK, WatcherAt
<1>1. Killing(w)
  BY DEF KillStep, KillReads, KillCloses, KillVerifies, KillAttemptFails, FinalVerificationFails, Killing
<1>2. CASE KillReads(w)
  <2>1. CASE Positions = {}
    BY <1>0, <1>1, <1>2, <2>1, EndOrAgain DEF KillReads, TypeOK
  <2>2. CASE Positions # {}
    <3> DEFINE r == [watcher[w] EXCEPT !.at = "close", !.seen = Positions]
    <3>1. /\ watcher' = [watcher EXCEPT ![w].at = "close", ![w].seen = Positions]
          /\ order' = [o \in Orders |-> IF order[o] = "resting" THEN "gone" ELSE order[o]]
          /\ UNCHANGED <<balance, state, override, tally, halvings, severity, timers>>
      BY <1>2, <2>2 DEF KillReads, timers
    <3>2. watcher' = [watcher EXCEPT ![w] = r]
      BY <1>0, <3>1 DEF TypeOK
    <3>3. r \in WatcherAt
      BY <1>0 DEF WatcherAt, Positions, In
    <3>4. order' \in [Orders -> {"new", "allowed", "resting", "position", "gone"}]
      BY <1>0, <3>1 DEF TypeOK
    <3> QED BY <1>1, <3>1, <3>2, <3>3, <3>4, WatcherGoesOn
  <2> QED BY <2>1, <2>2
<1>3. CASE KillCloses(w)
  <2> DEFINE r == [watcher[w] EXCEPT !.at = "verify"]
  <2>1. PICK refused \in SUBSET watcher[w].seen :
          order' = [o \in Orders |-> IF o \in watcher[w].seen \ refused THEN "gone" ELSE order[o]]
    BY <1>3 DEF KillCloses
  <2>2. watcher' = [watcher EXCEPT ![w] = r]
    BY <1>0, <1>3 DEF KillCloses, TypeOK
  <2>3. r \in WatcherAt
    BY <1>0 DEF WatcherAt
  <2>4. order' \in [Orders -> {"new", "allowed", "resting", "position", "gone"}]
    BY <1>0, <2>1 DEF TypeOK
  <2> QED BY <1>1, <1>3, <2>2, <2>3, <2>4, WatcherGoesOn DEF KillCloses
<1>4. CASE KillVerifies(w) \/ KillAttemptFails(w)
  BY <1>0, <1>1, <1>4, EndOrAgain DEF KillVerifies, KillAttemptFails, market, TypeOK
<1>5. CASE FinalVerificationFails(w)
  BY <1>0, <1>1, <1>5, Ends, WatcherGoesOn DEF FinalVerificationFails, market, TypeOK
<1> QED BY <1>2, <1>3, <1>4, <1>5 DEF KillStep

-----------------------------------------------------------------------------
(* What the timers, the world and a restart do to it. *)

(* A recovery that wakes gives the token to a probation, or loses it.      *)
LEMMA HalfOpenKeeps == ASSUME IInv, HalfOpen PROVE IInv'
<1>0. TypeOK /\ OneRecovery /\ ProbationInv
  BY DEF IInv
<1>1. /\ cooldowns[0] > 0 /\ cooldowns' = Drop(cooldowns, 0)
      /\ UNCHANGED <<market, override, tally, severity, watcher>>
  BY DEF HalfOpen
<1>2. cooldowns' \in [0..Cooldown -> 0..1] /\ Sleeping(cooldowns') = {}
  BY <1>0, <1>1, DroppedIsGone
<1>3. 0 \in Sleeping(cooldowns) /\ cooldowns[0] = 1
  BY <1>0, <1>1, LimitsAssumption DEF Sleeping, TypeOK
<1>4. \A w \in Watchers : ~Killing(w) /\ ~Killing(w)'
  BY <1>0, <1>1, <1>3 DEF OneRecovery, Killing
<1>5. probations \in [0..1 -> 0..1] /\ probations[1] = 0
  BY <1>0, <1>3 DEF ProbationInv, TypeOK
<1>6. /\ probations' \in [0..1 -> 0..1] /\ halvings' \in 0..MaxHalvings
      /\ state' \in {"closed", "open", "half_open"}
      /\ state' = "half_open" => halvings' >= 1
  <2>1. CASE override
    BY <1>0, <1>1, <2>1 DEF HalfOpen, TypeOK, ProbationInv
  <2>2. CASE ~override
    <3>1. /\ state' = "half_open" /\ probations' = Add(probations, 1)
          /\ halvings' = IF halvings < MaxHalvings THEN halvings + 1 ELSE halvings
      BY <2>2 DEF HalfOpen
    <3>2. probations' \in [0..1 -> 0..1]
      BY <1>5, <3>1 DEF Add
    <3>3. halvings' \in 0..MaxHalvings /\ halvings' >= 1
      BY <1>0, <3>1, LimitsAssumption DEF TypeOK
    <3> QED BY <3>1, <3>2, <3>3
  <2> QED BY <2>1, <2>2
<1>7. cooldowns'[0] = 0
  BY <1>2, LimitsAssumption DEF Sleeping
<1>8. TypeOK'
  BY <1>0, <1>1, <1>2, <1>6 DEF TypeOK, market, tally
<1>9. OneRecovery'
  BY <1>2, <1>4 DEF OneRecovery, Sleeping, Watchers
<1>10. ProbationInv'
  BY <1>6, <1>7 DEF ProbationInv
<1> QED BY <1>8, <1>9, <1>10 DEF IInv

(* A probation that ends with the breaker half open closes it, or opens it *)
(* and begins a recovery, no other being on its way then.                  *)
LEMMA CheckRecoveryKeeps == ASSUME IInv, CheckRecovery PROVE IInv'
<1>0. TypeOK /\ OneRecovery /\ ProbationInv
  BY DEF IInv
<1>1. /\ probations[0] > 0 /\ probations' = Drop(probations, 0)
      /\ UNCHANGED <<market, override, tally, severity, watcher>>
  BY DEF CheckRecovery
<1>2. probations' \in [0..1 -> 0..1] /\ probations'[1] = probations[1]
  <2>1. probations \in [0..1 -> 0..1] /\ probations[0] = 1
    BY <1>0, <1>1 DEF TypeOK
  <2> QED BY <1>1, <2>1 DEF Drop
<1>3. CASE UNCHANGED <<state, halvings, cooldowns>>
  <2>1. TypeOK'
    BY <1>0, <1>1, <1>2, <1>3 DEF TypeOK, market, tally
  <2>2. OneRecovery' /\ ProbationInv'
    BY <1>0, <1>1, <1>2, <1>3 DEF OneRecovery, ProbationInv, Sleeping, Killing
  <2> QED BY <2>1, <2>2 DEF IInv
<1>4. CASE state = "half_open" /\ state' = "closed" /\ halvings' = halvings - 1 /\ UNCHANGED cooldowns
  <2>1. Sleeping(cooldowns) = {} /\ \A w \in Watchers : ~Killing(w)
    BY <1>0, <1>4 DEF OneRecovery
  <2>2. halvings' \in 0..MaxHalvings
    BY <1>0, <1>4, LimitsAssumption DEF TypeOK, ProbationInv
  <2>3. TypeOK'
    BY <1>0, <1>1, <1>2, <1>4, <2>2 DEF TypeOK, market, tally
  <2>4. OneRecovery' /\ ProbationInv'
    BY <1>0, <1>1, <1>2, <1>4, <2>1 DEF OneRecovery, ProbationInv, Sleeping, Killing, Watchers
  <2> QED BY <2>3, <2>4 DEF IInv
<1>5. CASE /\ state = "half_open" /\ state' = "open" /\ cooldowns' = Add(cooldowns, Cooldown)
           /\ UNCHANGED halvings
  <2>1. Sleeping(cooldowns) = {} /\ \A w \in Watchers : ~Killing(w)
    BY <1>0, <1>5 DEF OneRecovery
  <2>2. /\ cooldowns' \in [0..Cooldown -> 0..1] /\ Sleeping(cooldowns') = {Cooldown}
        /\ cooldowns'[0] = 0
    BY <1>0, <1>5, <2>1, AddedSleeps
  <2>3. TypeOK'
    BY <1>0, <1>1, <1>2, <1>5, <2>2 DEF TypeOK, market, tally
  <2>4. OneRecovery' /\ ProbationInv'
    BY <1>1, <1>5, <2>1, <2>2 DEF OneRecovery, ProbationInv, Sleeping, Killing, Watchers
  <2> QED BY <2>3, <2>4 DEF IInv
<1> QED BY <1>3, <1>4, <1>5 DEF CheckRecovery

(* Time passes for the one that sleeps.                                    *)
LEMMA TickKeeps == ASSUME IInv, Tick PROVE IInv'
<1>0. TypeOK /\ OneRecovery /\ ProbationInv
  BY DEF IInv
<1>1. /\ cooldowns[0] = 0 /\ probations[0] = 0 /\ rate' = 0
      /\ cooldowns' = Shifted(cooldowns) /\ probations' = Shifted(probations)
      /\ UNCHANGED <<market, state, override, peak, drawdown, losses, halvings, severity, watcher>>
  BY DEF Tick
<1>2. TypeOK'
  BY <1>0, <1>1, TickShifts, LimitsAssumption DEF TypeOK, market
<1>3. ASSUME NEW t \in Sleeping(cooldowns'), NEW u \in Sleeping(cooldowns') PROVE t = u
  <2>1. t + 1 \in Sleeping(cooldowns) /\ u + 1 \in Sleeping(cooldowns) /\ t \in Int /\ u \in Int
    BY <1>0, <1>1, TickShifts
  <2>2. t + 1 = u + 1
    BY <1>0, <2>1 DEF OneRecovery
  <2> QED BY <2>1, <2>2
<1>4. Sleeping(cooldowns') # {} => Sleeping(cooldowns) # {}
  BY <1>0, <1>1, TickShifts
<1>5. OneRecovery'
  <2>1. \A w \in Watchers : Killing(w)' => Killing(w)
    BY <1>1 DEF Killing
  <2> QED BY <1>0, <1>1, <1>3, <1>4, <2>1 DEF OneRecovery, Sleeping, Watchers
<1>6. ProbationInv'
  BY <1>0, <1>1, TickShifts DEF ProbationInv
<1> QED BY <1>2, <1>5, <1>6 DEF IInv

(* A step that leaves the state, the watchers and the timers alone, or     *)
(* only makes a watcher due, keeps the token where it is.                  *)
LEMMA OthersKeep ==
    ASSUME IInv, TypeOK', UNCHANGED <<state, halvings, timers>>,
           \A w \in Watchers : Killing(w)' => Killing(w)
    PROVE  IInv'
BY DEF IInv, OneRecovery, ProbationInv, Sleeping, timers, Watchers

(* The market and the callers do nothing to the breaker.                   *)
LEMMA WorldKeeps == ASSUME IInv, World PROVE IInv'
<1>0. TypeOK
  BY DEF IInv
<1>1. UNCHANGED <<state, halvings, timers, watcher>>
  BY DEF World, MarketMoves, PreTradeCheck, OrderMoves, UpdateTradeResult
<1>2. TypeOK'
  <2>1. CASE MarketMoves
    BY <1>0, <2>1 DEF MarketMoves, TypeOK, tally, timers
  <2>2. ASSUME NEW o \in Orders, PreTradeCheck(o) PROVE TypeOK'
    BY <1>0, <2>2, LimitsAssumption DEF PreTradeCheck, TypeOK, timers
  <2>3. ASSUME NEW o \in Orders, OrderMoves(o) PROVE TypeOK'
    BY <1>0, <2>3 DEF OrderMoves, TypeOK, tally, timers
  <2>4. ASSUME NEW o \in Orders, UpdateTradeResult(o) PROVE TypeOK'
    <3>1. losses' \in 0..MaxLosses
      BY <1>0, <2>4, LimitsAssumption DEF UpdateTradeResult, TypeOK
    <3> QED BY <1>0, <2>4, <3>1 DEF UpdateTradeResult, TypeOK, timers
  <2> QED BY <2>1, <2>2, <2>3, <2>4 DEF World
<1> QED BY <1>1, <1>2, OthersKeep DEF Killing

(* An override does nothing to the breaker but wake the second watcher.    *)
LEMMA OverrideKeeps == ASSUME IInv, NEW enable \in BOOLEAN, ManualOverride(enable) PROVE IInv'
<1>0. TypeOK
  BY DEF IInv
<1>1. /\ override' = enable /\ UNCHANGED <<market, state, tally, halvings, severity, timers>>
      /\ \/ UNCHANGED watcher
         \/ /\ watcher["lifted"].at = "asleep"
            /\ watcher' = [watcher EXCEPT !["lifted"].at = "due"]
  BY DEF ManualOverride
<1>2. watcher' \in [Watchers -> WatcherAt] /\ \A w \in Watchers : Killing(w)' => Killing(w)
  <2>1. CASE UNCHANGED watcher
    BY <1>0, <2>1 DEF TypeOK, WatcherAt, Killing
  <2>2. CASE watcher' = [watcher EXCEPT !["lifted"].at = "due"]
    <3> DEFINE r == [watcher["lifted"] EXCEPT !.at = "due"]
    <3>1. "lifted" \in Watchers
      BY DEF Watchers
    <3>2. r \in WatcherAt /\ r.at = "due"
      BY <1>0, <3>1 DEF TypeOK, WatcherAt
    <3>3. watcher' = [watcher EXCEPT !["lifted"] = r]
      BY <2>2
    <3> QED BY <1>0, <3>1, <3>2, <3>3, WatcherMoves
  <2> QED BY <1>1, <2>1, <2>2
<1>3. TypeOK'
  BY <1>0, <1>1, <1>2 DEF TypeOK, market, tally, timers, WatcherAt
<1> QED BY <1>1, <1>2, <1>3, OthersKeep

(* A trigger that fails after it set the state leaves the breaker open     *)
(* with no token: it stays open, and nothing else can be under way.        *)
LEMMA TriggerFailsKeeps == ASSUME IInv, TriggerFails PROVE IInv'
<1>0. TypeOK /\ OneRecovery /\ ProbationInv
  BY DEF IInv
<1>1. /\ state # "open" /\ state' = "open" /\ peak' \in Balances
      /\ drawdown' \in {"calm", "watch", "daily", "total"}
      /\ UNCHANGED <<market, override, rate, losses, halvings, severity, watcher, timers>>
  <2> DEFINE top == IF balance > peak THEN balance ELSE peak
  <2>1. /\ state # "open" /\ state' = "open" /\ peak' = top /\ drawdown' = DrawdownClass(top, balance)
        /\ UNCHANGED <<market, override, rate, losses, halvings, severity, watcher, timers>>
    BY DEF TriggerFails
  <2> QED BY <1>0, <2>1, Classes DEF TypeOK
<1>2. Sleeping(cooldowns) = {} /\ \A w \in Watchers : ~Killing(w) /\ ~Killing(w)'
  BY <1>0, <1>1 DEF OneRecovery, Killing
<1>3. TypeOK'
  BY <1>0, <1>1 DEF TypeOK, market, timers
<1>4. OneRecovery' /\ ProbationInv'
  BY <1>0, <1>1, <1>2 DEF OneRecovery, ProbationInv, Sleeping, timers, Watchers
<1> QED BY <1>3, <1>4 DEF IInv

(* Where the counters begin.                                               *)
LEMMA Zeros == 0 \in 0..MaxOrderRate /\ 0 \in 0..MaxLosses /\ 0 \in 0..MaxHalvings
BY LimitsAssumption

(* A state in which nothing is under way and nothing is halved.            *)
LEMMA FreshState ==
    ASSUME TypeOK, halvings = 0, state = "closed", watcher = [w \in Watchers |-> Asleep],
           cooldowns = NoTask(Cooldown), probations = NoTask(1)
    PROVE  IInv
<1>1. Sleeping(cooldowns) = {} /\ \A w \in Watchers : ~Killing(w)
  BY DEF Sleeping, NoTask, Killing, Asleep
<1>2. probations[1] = 0
  BY DEF NoTask
<1>3. OneRecovery /\ ProbationInv
  BY <1>1, <1>2 DEF OneRecovery, ProbationInv, Watchers
<1> QED BY <1>3 DEF IInv

(* A new process begins with no task of the old one.                       *)
LEMMA RestartKeeps == ASSUME IInv, Restart PROVE IInv'
<1>0. TypeOK
  BY DEF IInv
<1>1. /\ watcher' \in [Watchers -> WatcherAt] /\ cooldowns' \in [0..Cooldown -> 0..1]
      /\ probations' \in [0..1 -> 0..1]
  BY Ends DEF Restart, NoTask
<1>2. TypeOK'
  BY <1>0, <1>1, Zeros DEF Restart, TypeOK, market, WatcherAt
<1>3. Sleeping(cooldowns') = {} /\ \A w \in Watchers : ~Killing(w)'
  BY DEF Restart, Sleeping, NoTask, Killing, Asleep
<1>4. OneRecovery' /\ ProbationInv'
  BY <1>3 DEF Restart, OneRecovery, ProbationInv, Sleeping, NoTask, Watchers
<1> QED BY <1>2, <1>4 DEF IInv

(* The account and the breaker begin calm, with nothing under way.         *)
LEMMA Initially == Init => IInv
<1> SUFFICES ASSUME Init PROVE IInv
  OBVIOUS
<1>1. /\ watcher \in [Watchers -> WatcherAt] /\ cooldowns \in [0..Cooldown -> 0..1]
      /\ probations \in [0..1 -> 0..1]
  BY Ends DEF Init, NoTask
<1>2. TypeOK
  BY <1>1, Zeros DEF Init, TypeOK, WatcherAt
<1> QED BY <1>2, FreshState DEF Init

(* Every step, with failures, overrides and restarts, keeps the token one. *)
LEMMA EveryStep == IInv /\ [RestartNext]_vars => IInv'
<1> SUFFICES ASSUME IInv, [RestartNext]_vars PROVE IInv'
  OBVIOUS
<1>1. CASE Monitor
  BY <1>1, CheckKeeps DEF Monitor, Killing, Watchers
<1>2. CASE Reevaluate
  BY <1>2, CheckKeeps DEF Reevaluate, Killing, Watchers
<1>3. ASSUME NEW w \in Watchers, KillStep(w) \/ KillAttemptFails(w) \/ FinalVerificationFails(w)
      PROVE  IInv'
  BY <1>3, KillKeeps
<1>4. ASSUME NEW enable \in BOOLEAN, ManualOverride(enable) PROVE IInv'
  BY <1>4, OverrideKeeps
<1>5. CASE UNCHANGED vars
  <2>1. TypeOK'
    BY <1>5 DEF vars, IInv, TypeOK
  <2> QED BY <1>5, <2>1, OthersKeep DEF vars, timers, Killing
<1> QED BY <1>1, <1>2, <1>3, <1>4, <1>5, HalfOpenKeeps, CheckRecoveryKeeps, TickKeeps, WorldKeeps,
           TriggerFailsKeeps, RestartKeeps
        DEF RestartNext, Next, CalmNext, Tasks, BrokerFails

(* The token is one in every behaviour, whatever fails and restarts.       *)
THEOREM BreakerInvariance == RestartSpec => []IInv
BY Initially, EveryStep, PTL DEF RestartSpec

(* The two watchers never run the kill switch at once and at most one      *)
(* recovery sleeps, only behind an open breaker, though no lock keeps the  *)
(* tasks apart: whatever the order of their steps, overrides and restarts. *)
THEOREM OneTaskFlattens == RestartSpec => []OneTaskEach
<1>1. IInv => OneTaskEach
  <2> SUFFICES ASSUME IInv PROVE OneTaskEach
    OBVIOUS
  <2>1. TypeOK /\ OneRecovery
    BY DEF IInv
  <2>2. Cardinality(Sleeping(cooldowns)) <= 1
    <3>1. CASE Sleeping(cooldowns) = {}
      BY <3>1, FS_EmptySet
    <3>2. CASE Sleeping(cooldowns) # {}
      <4>1. PICK t : Sleeping(cooldowns) = {t}
        BY <2>1, <3>2 DEF OneRecovery
      <4> QED BY <4>1, FS_Singleton
    <3> QED BY <3>1, <3>2
  <2>3. \A t \in Sleeping(cooldowns) : cooldowns[t] = 1 /\ state = "open"
    BY <2>1 DEF TypeOK, OneRecovery, Sleeping
  <2> QED BY <2>1, <2>2, <2>3 DEF OneRecovery, OneTaskEach
<1> QED BY <1>1, BreakerInvariance, PTL

(* As long as positions are being closed the breaker is open, in every     *)
(* behaviour: no order is admitted behind the kill switch.                 *)
THEOREM KillingStaysClosed == RestartSpec => []NothingAdmittedWhileKilling
<1>1. IInv => NothingAdmittedWhileKilling
  BY DEF IInv, OneRecovery, NothingAdmittedWhileKilling
<1> QED BY <1>1, BreakerInvariance, PTL

(* With a broker that answers and no override a halt is never forgotten:   *)
(* an open breaker is one whose kill switch runs or whose recovery sleeps. *)
THEOREM HaltsAreFollowedUp == CalmSpec => []HaltHasRecovery
<1> DEFINE Calm == IInv /\ ~override /\ HaltHasRecovery
<1>1. Init => Calm
  BY Initially DEF Init, HaltHasRecovery
<1>2. Calm /\ [CalmNext]_vars => Calm'
  <2> SUFFICES ASSUME Calm, [CalmNext]_vars PROVE Calm'
    OBVIOUS
  <2>0. IInv' /\ TypeOK /\ OneRecovery
    BY EveryStep DEF RestartNext, Next, IInv
  <2>1. ASSUME NEW w \in Watchers, ~Killing(w), CheckRiskLimits(w) PROVE Calm'
    <3>1. override' = override /\ cooldowns' = cooldowns
      BY <2>1 DEF CheckRiskLimits, timers
    <3>2. CASE state # "open" /\ watcher' = [watcher EXCEPT ![w] = Starting]
      BY <2>0, <3>1, <3>2, WatcherMoves, Ends DEF HaltHasRecovery, Starting
    <3>3. CASE state' = state /\ watcher' = [watcher EXCEPT ![w] = Asleep]
      <4>1. \A u \in Watchers : Killing(u) => Killing(u)'
        BY <2>0, <2>1, <3>3, WatcherMoves, Ends
      <4> QED BY <2>0, <3>1, <3>3, <4>1 DEF HaltHasRecovery, Sleeping
    <3> QED BY <2>1, <3>2, <3>3 DEF CheckRiskLimits, Trigger
  <2>2. ASSUME NEW w \in Watchers, KillStep(w) PROVE Calm'
    <3>0. Killing(w) /\ override' = override
      BY <2>2 DEF KillStep, KillReads, KillCloses, KillVerifies, Killing
    <3>1. CASE Over(w)
      <4>1. Sleeping(cooldowns') = {Cooldown}
        BY <2>0, <3>0, <3>1, AddedSleeps DEF Over, OneRecovery
      <4> QED BY <2>0, <3>0, <4>1 DEF HaltHasRecovery, Sleeping
    <3>2. CASE ~Over(w)
      <4>1. \E r \in WatcherAt : /\ watcher' = [watcher EXCEPT ![w] = r]
                                /\ r.at \in {"read", "close", "verify"}
        <5>0. watcher \in [Watchers -> WatcherAt]
          BY <2>0 DEF TypeOK, WatcherAt
        <5>1. CASE KillReads(w)
          <6> DEFINE r == [watcher[w] EXCEPT !.at = "close", !.seen = Positions]
          <6>1. watcher' = [watcher EXCEPT ![w].at = "close", ![w].seen = Positions]
            BY <3>2, <5>1 DEF KillReads
          <6>2. watcher' = [watcher EXCEPT ![w] = r] /\ r.at = "close" /\ r \in WatcherAt
            BY <5>0, <6>1 DEF WatcherAt, Positions, In
          <6> QED BY <6>2
        <5>2. CASE KillCloses(w)
          <6> DEFINE r == [watcher[w] EXCEPT !.at = "verify"]
          <6>1. watcher' = [watcher EXCEPT ![w] = r] /\ r.at = "verify" /\ r \in WatcherAt
            BY <5>0, <5>2 DEF KillCloses, WatcherAt
          <6> QED BY <6>1
        <5>3. CASE KillVerifies(w)
          <6> DEFINE r == [Starting EXCEPT !.attempt = watcher[w].attempt + 1]
          <6>1. watcher[w].attempt < MaxRetries /\ watcher' = [watcher EXCEPT ![w] = r]
            BY <3>2, <5>3 DEF KillVerifies, NextAttempt
          <6>2. watcher[w].attempt \in 0..MaxRetries
            BY <5>0 DEF WatcherAt
          <6>3. r \in WatcherAt /\ r.at = "read"
            BY <6>1, <6>2, LimitsAssumption DEF Starting, WatcherAt
          <6> QED BY <6>1, <6>3
        <5> QED BY <2>2, <5>1, <5>2, <5>3 DEF KillStep
      <4>2. Killing(w)'
        BY <2>0, <4>1, WatcherMoves
      <4> QED BY <2>0, <3>0, <4>2 DEF HaltHasRecovery
    <3> QED BY <3>1, <3>2
  <2>3. CASE HalfOpen
    BY <2>0, <2>3 DEF HalfOpen, HaltHasRecovery
  <2>4. CASE CheckRecovery
    <3>1. override' = override /\ watcher' = watcher
      BY <2>4 DEF CheckRecovery
    <3>2. CASE state = "half_open" /\ state' = "open" /\ cooldowns' = Add(cooldowns, Cooldown)
      <4>1. Sleeping(cooldowns') = {Cooldown}
        BY <2>0, <3>2, AddedSleeps DEF OneRecovery
      <4> QED BY <2>0, <3>1, <4>1 DEF HaltHasRecovery, Sleeping
    <3>3. CASE state' = "closed"
      BY <2>0, <3>1, <3>3 DEF HaltHasRecovery
    <3>4. CASE state # "half_open" /\ UNCHANGED <<state, halvings, cooldowns>>
      BY <2>0, <3>1, <3>4 DEF HaltHasRecovery, Sleeping, Killing
    <3> QED BY <2>4, <3>2, <3>3, <3>4 DEF CheckRecovery
  <2>5. CASE Tick
    <3>1. Sleeping(cooldowns) # {} => Sleeping(cooldowns') # {}
      BY <2>0, <2>5, TickShifts DEF Tick
    <3> QED BY <2>0, <2>5, <3>1 DEF Tick, HaltHasRecovery, Killing, Sleeping
  <2>6. CASE World \/ UNCHANGED vars
    <3>1. UNCHANGED <<state, override, cooldowns, watcher>>
      BY <2>6 DEF World, MarketMoves, PreTradeCheck, OrderMoves, UpdateTradeResult, timers, vars
    <3> QED BY <2>0, <3>1 DEF HaltHasRecovery, Sleeping, Killing
  <2>7. CASE Monitor
    BY <2>1, <2>7 DEF Monitor, Killing, Watchers
  <2>8. CASE Reevaluate
    BY <2>1, <2>8 DEF Reevaluate, Killing, Watchers
  <2> QED BY <2>2, <2>3, <2>4, <2>5, <2>6, <2>7, <2>8 DEF CalmNext, Tasks
<1> QED BY <1>1, <1>2, PTL DEF CalmSpec
=============================================================================
