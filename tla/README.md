# Verification of Hopefx

TLA+ models of the trading core of this repository, checked with TLC on small
instances and, where that pays, proved with TLAPS for every instance. `src/` below is
the repository's root, so that the nested package is `src/src/`.

1. The system
2. Modules and the code they model
3. Runs, bounds, fairness
4. Where the code and its own words part
5. Proofs
6. What is not modelled
7. Plan

## 1. The system

Hopefx is a Python trading platform grown out of several generations of code. Most of
its lines are numerical (indicators, machine learning, analytics, charts), interfaces
(REST handlers, dashboards, chat bots) or connectors to brokers and payment
providers. What can go wrong in ways a test hardly reaches sits in about three dozen
managers that keep tables of orders, positions, breakers, subscriptions and money, and
that are entered by coroutines, timers, threads and callbacks in any order.

| component | state | operations | interacts with | what is hard | what makes it correct |
|---|---|---|---|---|---|
| order lifecycle `execution/oms.py` 1-260 | table of orders, active set, transition table, audit log | create, submit, answer, fill, cancel, expire | callbacks run inside a transition | an answer that crosses a cancellation; refused transitions after the fields were changed | fills never exceed the order; an ended order stays put; book and statuses agree |
| complex orders `execution/oms.py` 263-425 | OCO groups, callbacks | create OCO, bracket, iceberg | callbacks of the order lifecycle | a callback is registered for every order, not for its own | no sibling works after a fill; each filled entry is protected by exits of its own |
| linked orders `brokers/advanced_orders.py` | orders, OCO pairs, brackets, trailing stops | create, report a fill, cancel, update a price | the broker's reports, from threads | reports for orders cancelled locally, repeated or in excess; partial fills of an entry | one leg lives; what is counted as filled was filled; no exit without a position; a stop only tightens |
| async engine `execution/async_engine.py` | orders, a lock per order, delayed fills | submit, cancel, modify, shutdown | simulated venues, timers | a lock that is not reentrant held across awaits; status read before a lock and used after | submissions return; a rejected order took nothing; no order is filled twice |
| account breaker `risk/circuit_breakers.py` | state, position size, losses, peak, override, file of state | monitor, pre-trade check, kill switch, recovery timers, override, restart | broker, callers, two watching tasks | two tasks at the same await; timers that fire in another state; a broker that refuses or fails | one kill switch at a time; nothing admitted meanwhile; every halt has a recovery |
| service breaker `resilience/circuit_breaker.py` 20-120 | state, counters | call | callers, timeouts | an answer booked in another state than it was sent in; cancelled calls | probes are bounded; closed means below the threshold; it recovers |
| bulkhead `resilience/circuit_breaker.py` 120-160 | two semaphores, counters | execute | callers, timeouts | a caller cancelled between two semaphores | bounds hold; nobody waits for ever |
| event bus `src/src/hopefx/events` | queue, handlers' attempts, dead letters, store | publish, dispatch, retry, stop | handlers, database | bounded queue, retries beside the loop, a stop at any moment | what is accepted is handled, saved or a dead letter; handled once |
| subscriptions `monetization` | subscriptions, codes, payments, invoices, licence cache | API handlers, managers | webhooks | order and repetition of requests; stale answers | a code starts one subscription; payment and invoice agree |
| order throttler `execution/throttler.py` | two windows, cooldown | can_send, record_message | callers | check and record are two critical sections | the excess is bounded by the callers in between |
| risk manager `risk/manager.py` | balance, peak, positions, daily and total results | ask, register, close, daily reset | order path | results of open positions come after the question; the ask and the registration are two calls | losses exceed the limits by no more than what was let in before |
| self-trade prevention `risk/self_trade_prevention.py` | resting orders per owner | check, remove, shrink, add | order path | a book that changes between check and entry; decrements | no two resting orders of an owner cross |
| FIA controls `risk/fia_compliance.py` | intraday positions, messages of a second, kill switch | validate, reset | order path | an order is booked by a check although a later check refuses it | what is admitted stays within what was booked |
| paper broker `brokers/paper_trading.py` | orders, positions, cash | place, cancel, close, price | strategies | an order against a position | equity is the worth of the fills |
| portfolio `portfolio/pms.py` | positions, cash, peak, worst loss | fill, price | order path | positions that flip; results of closed positions | quantities, cash and results are those of the fills |
| second order manager `src/src/execution/oms.py` | orders, queue, the loop | start, stop, submit, cancel | broker | a cancellation or a second loop beside a placement | an order is placed once and its fill booked once |
| arbitrage `core/arbitrage/cross_exchange.py` | prices, executions | scan, both legs, hedge | two venues | a leg that is given up and fills later | what succeeded is flat |
| strategies' control `core/mcc/master_control.py`, `strategies/base_enhanced.py` | strategies, active list, regime, kill switch | register, activate, regime change, kill, stop | price feed, other threads | a list which is walked while strategies leave it; a flag and a list set one after the other; adapted strategies that cannot be switched | what runs is listed, so that a stop reaches it |
| wallets, transactions, limits, gateway `payments` | balances, transactions, limits by day and month, receipts | credit, debit, transfer, freeze, confirm, reverse, check, record | webhooks | repeated and late confirmations; check and record apart; ids of a second | money is neither made nor lost; a reversal undoes a completion; limits hold but for what was under way |
| affiliates `monetization/affiliate.py` | affiliates, referrals, payouts | refer, convert, request, process, complete, fail | payments | payouts repeated or failing | a commission is paid once |
| copy trading `social/copy_trading.py` | subscriptions, open trades, history | subscribe, signal, close | order path | losses of trades that are open when the limit is reached | a follower's loss stays within limit and open trades |
| teams `teams/__init__.py` | members, roles, invitations | create, invite, accept, remove, change a role | API | an invitation used after a change, twice or late | members come by an invitation of their own; an invitation serves once |
| replay `replay/__init__.py` | sessions, one stop flag, cached bars | play, pause, seek, stop, set the speed | threads | threads that end after the next play began, or die | a playing session is played, to its end, or its thread died |
| alerts `notifications/alert_engine.py` | alerts, cooldowns, history | create, pause, delete, check | feeds | a pass that ends with an error half-way | an alert keeps its cooldown and its bound |
| market data cache `cache/market_data_cache.py` | series, ticks, expiry, hits and misses | append, store, get, invalidate | Redis, other writers | a list read, changed and written back; a list stored uncut | a series holds the newest bars, each once |
| backtest engine `enhanced_backtest_engine.py` | capital, drawdown level, kill switch, orders | tick, submit, execute | strategies | a level that is computed anew at each result | beyond the drawdown nothing is admitted |
| smart order router `brokers/smart_router.py` | brokers, scores | add, route, execute with fallback | venues | a request given up which the venue still takes | an order stands once, and once more for each request given up |
| depth of market `data/depth_of_market.py` | ladders, snapshots | snapshot, level, clear | feeds | levels that are cut off and come back | the ladder is sorted and holds what the feed last said |
| consensus prices `enhanced_realtime_engine.py` | latest quotes | tick | providers | quotes of different ages and sources that dissent | a price of several sources lies within their fresh quotes |
| tick streaming `data/streaming.py` | bars, subscribers | publish, subscribe, clear | threads | a late tick, callbacks outside the lock, bars that are displaced | every tick is in one bar of each timeframe |
| websockets `api/websocket_server.py` | connections, channels | connect, subscribe, broadcast, heartbeat | clients | sets that change while a broadcast walks over them | the indexes agree |

Every other part is listed in PROJECT.json with the reason it is left out; section 6
sums them up.

## 2. Modules and the code they model

| module | models | composed with |
|---|---|---|
| OrderPromise | what a strategy is promised about an order (abstract) | |
| OrderLifecycle | `OrderLifecycleManager`, with the mapping to OrderPromise | instantiates OrderPromise |
| ComplexOrders | `ComplexOrderManager` | extends OrderLifecycle: a fill runs the callbacks in the same step |
| AdvancedOrders | `AdvancedOrderManager`: pairs, brackets, and its trailing stops | `ManagerSpec` is both |
| RiskBreaker | `CircuitBreaker` of `risk/`; its theorems | |
| Subscriptions | the managers of `monetization/` with the API handlers that tie them; its theorems | |
| TradingDesk | what an order meets besides the order managers | extends Throttler; AsyncEngine, NestedOms, PaperTrading, Portfolio, SelfTrade, FiaControls, RiskDesk, Arbitrage, Backtest, SmartRouter |
| UserServices | what users' requests and feeds change | Wallets, Transactions, PaymentLimits, Gateway, CopyTrading, Affiliates, Alerts, Teams, DepthOfMarket, MarketCache, PriceConsensus, MasterControl |
| Platform | the services around the desk; their theorems | extends ServiceBreaker; Bulkhead, EventDelivery, WebSockets, Replay, Streaming |
| MC_TradingDesk, MC_UserServices, MC_Platform | the instances of these three for TLC | |
| OrderProofs, AdvancedOrdersProofs, TradingDeskProofs, UserServicesProofs | theorems | each extends the module it is about |
| SumTheorems | sums over finite sets and the induction they need | |

TradingDesk, UserServices and Platform put components into one specification that
share no state in the code: each is constructed and called on its own, and a step of
one changes nothing for another. A behaviour therefore exercises one part, named by
the variable `part`; their product would multiply the states and add no behaviour to
any part. Where components do share state (the callbacks of complex orders, the two
halves of AdvancedOrderManager, the managers of a subscription, bus, dead letters and
store) they are composed step by step.

Conventions. One action is one method, or the part of a coroutine between two
suspensions: with asyncio everything up to the next await that can suspend is one
step; with threads, the part under one lock. Names are the code's. A definition named
`Name_Fault`, right before the definition `Name`, is what a plausible mistake would
make of `Name`; no specification uses it, it documents (and lets one re-check) that the
properties notice the mistake.

### Orders

**OrderLifecycle.** `orders[o]` is the `Order` with its status, quantity, limit,
fills, average and audit log; `active` is `active_orders`; `submitting` are the
orders whose `_async_submit` task sleeps; `due` are those past `expires_at`. Each of
create_order, submit_order, fill_order, cancel_order and expire_orders is an action;
the task's answer is `Accept` or `Reject`. `Moved` is `_transition` with its refusal:
the code books a fill first and asks for the transition afterwards, so a refused
transition leaves the booked fill. Average prices are kept as exact cost, so that
rounding plays no part.

**ComplexOrders** adds the groups and roles (`oco_group`, the tags) and which
callbacks are registered (`ocoHooked`, `brackets`, the icebergs). `FillComplex` is
fill_order with every registered callback, which is how the code runs them: siblings
are cancelled and exits created inside the fill, by the callback of every bracket there
is. _check_reveal_next is in it too, and finds nothing to do: it runs for a slice that
is filled in part and asks for a full one.

**AdvancedOrders** holds the manager's lock over each method, so methods are steps;
what interleaves is the caller and the broker, which is never told of a cancellation.
handle_order_fill looks at no status and no quantity, so that reports come for orders
cancelled here, twice and beyond the quantity; each books again, and counts again once
the quantity was reached (`repeated` are those). Its trailing stops
are update_trailing_stop under any path of prices, with an activation price, on both sides.

**AsyncEngine** splits coroutines at their awaits: `submit` and `delayed` are program
counters, `lock` is who holds the order's `asyncio.Lock`. A fill simulated by a venue
needs the lock its own submission holds; the two-second timeout of the first venue
breaks the wait, the backup venue has none (`backup`: more than one broker is
configured). Quantities are two parts, as the simulated fills are two.

**NestedOms** is the OMS of `src/src/execution` with its queue, any number of
processing loops (each `start` makes one) and the paper broker's sleep, during which an
order may be cancelled.

**SmartRouter** has the pings that precede a decision and each request with two
values: what the venue did with it and what the router made of it. They part when the
five seconds are over, or an error follows an order that was taken. Ranks are any
order of the brokers, since scores are numbers from outside.

**Throttler**: callers between `can_send` and `record_message` are `sending`; the
windows are the ages of what they hold. **SelfTrade** is the check with every level and
action together with the caller who carries out its answer, `entering` the order in
between. **FiaControls** is validate_order with the checks in their order, two of which
book. **RiskDesk** keeps `approved`, the traders between can_open_position and
register_position.

**PaperTrading** and **Portfolio** keep cost instead of an average, so that both are
exact; `traded` (and `quantity` with `cash`) are kept beside what the code keeps, to say
what the books should show. **Arbitrage** is the scan, both legs with their deadline and
the hedge of half of a leg that filled alone; venues answer late, wrongly or never.
**Backtest** keeps the capital, the drawdown level, the kill switch and orders that
execute in part.

### Guards and services

**RiskBreaker** has two watchers, the monitoring task and the one that
`manual_override` starts when it is lifted. Each is asleep, at its limits check or in
the kill switch (reading positions, closing, verifying). The RLock excludes nothing
between coroutines of one thread. Time is in ticks of the five-minute probation;
`timers` are the recoveries on their way. Orders of callers become positions at the
broker, which may refuse or, in `FailureSpec`, raise. `Restart` keeps what
`_load_state` reads and forgets the rest.

**ServiceBreaker** separates sending a call (the state decides) from booking its
answer (on whatever state there is then). `late` are calls of an earlier period;
`proofs` counts the successes of the present one. **Bulkhead** models the semaphores
with their first-in-first-out line of waiters.

**EventDelivery** runs publish, the processing loop, one task per handler, the dead
letter retry loop and both `stop`s. `priority` decides as in the code: up to 2 the loop awaits
the handlers itself, up to 3 the event is saved when it is published, above 5 a handler
has a single attempt. `Pairs` says which handlers are subscribed to an event. Handlers
succeed or fail as they like. The stop of the retry loop cancels the retry under way,
whose entry was taken out before: that event is `lost`. The loop may start again.

**WebSockets** lets a broadcast walk over the live set of members, one send per step;
a set that changed its size ends the walk with an exception. **Replay** has one
stop flag and threads that read it when they come to it. The bars are generated for the
first session of a symbol, which a later one may not compare its dates with (only one of
them has a time zone), and a speed may become PAUSED between its check and the division
by it: either error ends the thread and leaves its session PLAYING. **Streaming**
separates what a publisher does under the lock from the callbacks it calls after it; the
record of completed bars has a length, beyond which the oldest is displaced.

### Users

**Subscriptions** has a table for each manager. Handlers are synchronous, so the
hazards are order and repetition: a code activated after its expiry or revocation, a
payment processed twice or after a refund, a current subscription replaced, a cached
answer kept. An activation reads the clock three times, and the code may expire between
its first check and the second, whose answer nobody asks for. Time is in ticks of the
cache's five minutes; `Day` is how many make the day that `timedelta.seconds` leaves out.

**Wallets**, **Transactions**, **PaymentLimits**, **Gateway** and **Affiliates** take
the calls of their managers in any order, repeated and late ones among them; a payment
is checked and booked in two calls. **CopyTrading** counts the open trades of a
follower, whose results are known when they close. **Alerts** separates nothing: one
check of all alerts is a step, which a template that does not fit ends half-way.
**Teams** has three users and the tokens of their invitations. **DepthOfMarket** is one
side of a book, prices counted from its best. **MarketCache** has appenders between
reading and writing back the list, and callers who store lists of any length, which only
the next append cuts. **PriceConsensus** keeps the latest quote of each
source with its age; the scores decide whose timestamp a price bears and are left open.

**MasterControl** keeps the list of active strategies apart from the flag each strategy
has. Only register_strategy takes the lock, so that the other methods are steps: the
flag, the look into the list, the change of the list, and each strategy of the walk of
a change of regime or of a stop. A strategy of the old kind is wrapped in an adapter that
has neither the flag nor the methods: what touches it raises, and the walk or the stop
ends there. `torn` are the names at which two calls met or one was broken off, `unswept`
and `unstopped` what a walk or a stop did not see to.

## 3. Runs, bounds, fairness

Passing runs (all complete, no state left on the queue):

| run | instance | states | shows |
|---|---|---|---|
| orders | 2 orders, quantities 1 and 3, prices 1 and 2 | 261,000 | fills add up, the average respects the limit, book, statuses and pending answers agree, OrderPromise is implemented, submissions are answered |
| complex_orders | 2 requests (OCO pair, bracket, iceberg) of 2 units and the orders their callbacks add: 8, which two brackets need | 2,390,000 | no sibling works after a fill, each filled entry has exits of its own |
| advanced_orders | a pair and a bracket, two units each, reports of up to three, a cancellation; a stop over 3 prices, either side | 3,224,000 | the pair knows its living leg and exits need a position (`LegsAreSafe`), the counter of filled orders is off by the repeated reports only (`FilledAreCounted`), the stop follows the best price since its activation |
| risk_breaker | 2 orders, balances calm, at the daily and at the total limit, 2 retries, restarts | 1,417,000 | one kill switch and one recovery at a time (`OneTaskEach`), nothing admitted meanwhile |
| risk_breaker_recovery | 1 order, a broker that answers, no override | 26,000 | every halt ends |
| subscriptions | 2 users, 2 subscriptions, 1 code, 1 payment, durations of 0 and 1 tick | 4,526,000 | a code starts one subscription; payment and invoice agree |
| trading_desk | see below | 209,000 | what an order meets besides the order managers |
| user_services | see below | 1,140,000 | what users' requests and feeds change |
| platform | see below | 224,000 | the services around the desk |

The properties of the last three are conjunctions of what their parts promise, stated
at the end of the composing module.

- trading_desk: 2 callers of the throttler with limits of 2 and 3 (`RateBounded`); 2
  orders of the engine with one broker or more, and 2 of the OMS with 2 loops
  (`FillsAreBookedOnce`, `RequestsSettle`); 3 orders at the paper broker and 3 fills in 2
  accounts, prices apart by a factor (`AccountsBalance`); 3 orders of one side or the
  other of 2 accounts, a position limit of 2 with messages of 2 a second
  (`ControlsHold`); 2 traders and 2 positions who may lose 2 a trade of 10, and the
  backtest's results of -3 to 2 (`LossesBounded`); 2 venues with quotes that cross both
  ways, and an order routed to 3 of 4 brokers (`ExecutionsAreContained`).
- user_services: 2 users of wallets with 4 bookings and an affiliate with 2 payouts
  (`MoneyIsAccounted`); 3 transactions, reversals among them (`ReversalsAreBacked`); 2
  payments between days and levels, 3 requests in 2 seconds (`PaymentsHold`); 2 trades of
  a follower who subscribes twice (`FollowerLossBounded`); 2 alerts of three definitions
  (`AlertsKeepTheirPace`); 3 invitations to a team of 2 (`MembersWereInvited`); 4 prices
  for 2 levels (`LadderIsTrue`); 2 appenders and 4 bars for a series of 2
  (`SeriesIsRecent`); 4 sources with three quotes, one of them apart (`PricesAreShared`);
  2 strategies, either enhanced or one adapted, 2 threads and 2 regimes
  (`ControlReachesAll`).
- platform: 2 callers of the breaker with thresholds of 2 (`BreakerKeepsCount`); 4
  callers of the bulkhead, 1 slot, a queue of 3 (`WaitersServed`); 2 events of priority
  1, 3 or 8, one with a handler, one with two, a queue of 1, a stop of
  either loop at any moment (`EventsAreHandled`); 2 clients in 2 channels and a broadcast
  (`SubscriptionsAgree`); 2 sessions of two bars or one, with time zones at both ends, one
  or neither, and 2 threads (`ReplaysRun`); 2 publishers of 4 ticks in 3 minutes, bars of
  1 and 2, a record of 1 bar (`TicksAreBarred`).

Runs that expect a violation: order_audit, engine_submit_hangs, breaker_kill_orders
(section 4).

Why these bounds. What goes wrong here is between two actors or two entities of a
kind: two orders of one manager, two watchers, a caller that comes late, two handlers
of one event, a request that is given up and the one after it. Quantities are the
smallest with a first, a middle and a last fill (3 takes three fills of 1), prices two
levels on either side of a limit, and thresholds 2, the smallest at which a count left
over from before matters. The bulkhead has two waiters for its slot while a fourth
caller is refused; the router leaves a fourth broker untried; the book cuts off two of
four prices, so that they can come back; four sources are the fewest of which one can be
an outlier at 67 percent. Priorities are one of each kind the bus tells apart.

The bounds of the models themselves are constants: `MaxOrders` (orders created),
`MaxRequests` and `Lots` (complex orders asked for and their sizes), `MaxFilled` (what
the reports of an order add up to), `MaxCancels` (cancellations by the caller), `Paced`
(sessions whose speed is set), `MaxModifies`, `MaxHalvings` (halvings of
the position size, which the code repeats without end), `Pool.lost` (waiters cancelled
and still counted), `MaxFills` and `MaxUnits` (fills booked, units held), `MaxBookings`
and `MaxCompletions` (bookings of a wallet, completions of a transaction),
`MaxSubscriptions` (to a channel by a client), `MaxTicks` and `LastMinute` (ticks and
their minutes), `LastAlert` and `Watch` (alerts, minutes and triggers), `Kyc.last` (the last
day), `Seconds`, `Ceiling`s (balances up to which results are drawn), `Test.reach` and
`Test.units`, and `Horizon` (ticks of the subscriptions' clock). CHECK_DEADLOCK is FALSE
throughout because each system may come to rest: all orders ended, all events
handled, the clock at its horizon.

Fairness. Safety assumes none: the invariants of a run hold of every behaviour of its
next-state relation, whether the run's specification is fair or not. Where a liveness
property is checked, the fairness is that of the event loop and its timers, never of
users or the market:

- OrderLifecycle: the submission task ends and the sweep keeps running.
- AsyncEngine, NestedOms: tasks that can run do, sleeps end. A task that waits for a
  lock can run only when the lock is free, so that a deadlock stays one.
- SmartRouter: a request is answered, fails or is given up, for it has a timeout. A
  ping has none and is assumed nothing of.
- RiskBreaker (`CalmSpec`): time passes, timers fire, the kill switch's coroutine goes
  on, the broker answers and nobody overrides.
- Bulkhead: a waiter that was granted the slot runs, calls end.
- EventDelivery: loops and tasks run, handlers end; a handler that is tried again and
  again succeeds at last (the one strong fairness: the retry loop is pointless under a
  weaker assumption). `AcceptedIsHandled` promises nothing once one of the loops is
  stopped, nor for the event whose retry a stop cancelled.
- Replay: threads that live run.
- UserServices assumes no fairness: its managers act only when they are called.

The property `Recovers` of ServiceBreaker is not part of a run. It holds under
`PatientSpec` and fails under `ImpatientSpec`, see below.

## 4. Where the code and its own words part

Three runs expect a violation. Each states what a docstring or a comment of the code
says and shows a behaviour of the code that contradicts it; PROJECT.json quotes the line.

- order_audit (`AuditComplete`): the second partial fill of an order is booked and its
  transition refused, so that the audit log does not have it.
- engine_submit_hangs (`SubmitReturns`): a submission retried on the backup venue waits
  for the lock it holds itself, for ever.
- breaker_kill_orders (`KillLeavesNoOrder`): without positions the kill switch ends
  before it cancels the resting orders, which fill later.

The modules state more such promises at their end. They are not part of the runs; TLC
finds each of them violated when it is put in place of the properties of the
component's configuration, under the specification given here (`Spec` where none is).

- **OrderLifecycle**: a due, partially filled order is dropped from the book and still
  fills (`NoFillAfterSweep`); a requested cancellation never completes
  (`CancelCompletes`, FairSpec).
- **ComplexOrders**: both legs of an OCO group fill when the sibling is still being
  submitted (`OneOfTheGroupFills`, ComplexSpec); two brackets place two pairs of exits
  each (`OneExitPairPerEntry`), and none of them is submitted (`ExitsArePlaced`,
  ComplexFairSpec); an iceberg whose slice fills at once reveals no more
  (`NextSliceIsRevealed`).
- **AdvancedOrders**: both legs fill when the broker reports the cancelled one
  (`OneLegFills`); exits that were cancelled, or whose bracket is completed, are
  reopened by the entry's next fill (`CancelledStaysCancelled`,
  `CompletedBracketStaysClosed`); partially filled orders are not listed
  (`OpenOrdersAreListed`).
- **AsyncEngine**: every modification waits for the caller's own lock
  (`ModifyReturns`, FairSpec); a delayed fill overtakes a confirmed cancellation
  (`ConfirmedCancelIsFinal`) and shutdown (`NoFillAfterShutdown`).
- **NestedOms**: an order cancelled while it is placed fills (`CancelledIsNotFilled`).
- **SmartRouter**: the request that was given up arrives as well (`StandsOnce`); a
  refusal that is no error is not tried elsewhere (`RefusedGoesOn`); a ping that is not
  answered holds up every order (`RoutingEnds`); an order fails untried when a broker is
  added during the pings (`FailedWasTried`).
- **Portfolio**: a closed position still shows its last unrealised result
  (`ResultIsValue`). **PaperTrading**: an order against a position makes or loses money
  of its own (`EquityIsAlwaysWorth`).
- **FiaControls**: booked orders that were refused make room for others
  (`AdmittedWithinLimit`); orders pass after the kill switch tripped, since nothing reads
  its flag (`KilledStopsAll`). **SelfTrade**: two actions let the new order in after the first
  crossing one was dealt with (`OwnOrdersAlwaysApart`).
- **Arbitrage**: legs that fill late leave a position nobody hedges (`FinishedIsHedged`).
- **Backtest**: the halt ends with the next result (`HaltStays`); a position closed by
  an order of its size is not left flat (`ClosedIsFlat`), orders of which nothing remains
  stay open (`FilledOrdersLeave`).
- **RiskBreaker**: a total breach is recorded as a daily one (`TotalBreachIsCritical`);
  a second probation leaves the size halved for good (`ClosedAtFullSize`); a restart
  ends a halt (`HaltSurvivesRestart`, RestartSpec); admitted orders that have not
  filled are not counted (`ExposureWithinLimit`); a recovery that falls into an
  override is the last, and an error of the broker during the trigger leaves an open
  breaker without kill switch or recovery (`HaltHasRecovery`, Spec and FailureSpec).
- **ServiceBreaker, Bulkhead**: successes of two periods add up (`ClosedByItsProbes`);
  cancelled probes shut the breaker for good (`Recovers`, ImpatientSpec); running calls
  fill the queue (`RefusedWhenQueueFull`); cancelled waiters stay counted
  (`QueueCountIsRight`).
- **EventDelivery**: a second failing handler replaces the dead letter of the first
  (`EveryFailureIsQueued`), and so does the stop of the retry loop with the entry it takes;
  the bus's stop loses what is queued behind an event already saved (`DrainSavesAll`, with
  `MaxQueueSize` 2). The entry is taken out before its retry, so that each retry counts
  as the first and `MaxRetries` is never reached (`TakenOut`, `Enqueue`).
- **WebSockets**: a member that leaves during a broadcast ends it for the rest
  (`BroadcastsReachAll`). **Replay**: a thread that
  ends takes its session out of the pause (`PausedStays`), one dies and its session goes on
  PLAYING (`NoThreadDies`), and a cached series leads beyond the session
  (`DateWithinRange`, with a request for the first bar only in `MCRequests`).
  **Streaming**: a late tick opens a second bar of its minute (`OneBarPerMinute`); who
  unsubscribed is told what was under way (`OnlyListenersAreTold`).
- **Subscriptions**: the newest subscription, even a pending one, hides an active one
  (`ActiveIsCurrent`); renewing early loses time (`RenewalKeepsPaidTime`); the licence
  cache ignores days (`CacheIsRecent`, with `Horizon` 2); codes work before they are paid
  for (`CodeWasPaid`); a code that expires in the midst of its activation starts a
  subscription and is never used (`StartedCodeIsUsed`).
- **Transactions**: a transaction completed again can be reversed again
  (`ReversedOnce`). **PaymentLimits**: payments checked together exceed the limit
  (`PaymentsAtMostTheLimit`). **Gateway**: of two requests of a second one receipt leads
  to the other's payment (`EveryReceiptLeadsHome`). **Affiliates**: a commission whose
  payout failed is owed no more (`FailedStaysOwed`). **CopyTrading**: after a
  second subscription results of the first still count, for or against the limit
  (`EveryFollowerLossBounded`). **Alerts**: a price is compared with the one of two
  checks before, so that a crossing between the last two is not seen
  (`CrossingsAreSeen`).
- **Teams**: accepting an invitation changes the owner's role (`OwnerKeepsRole`) and
  ignores the limit of members (`SizeWithinLimit`). **DepthOfMarket**: a level that was
  cut off is not found again when those before it go (`BestIsTheFeeds`); later changes
  alter the last snapshot (`SnapshotsStay`). **MarketCache**: of two appends that overlap
  one is lost (`AppendsAreKept`), an invalidated series comes back
  (`InvalidatedIsGone`), an entry of the other kind counts as a hit and as a miss
  (`EachRequestCountsOnce`). **PriceConsensus**: one silent or dissenting source of three
  ends the price (`SilentSourceIsTolerated`, `DissentIsOutvoted`).

Met while reading, and left to the code's owners:

- Nothing reads the flag that the kill switch of the strategies' control sets, so that the
  next change of regime starts strategies again; and a strategy in an adapter ends the walk
  of a regime and the kill switch for those after it (`BreaksOff` of MasterControl).
- `EventBus.start` uses a name it never imports, the async engine's `initialize` fails
  on a missing attribute of its price feed, and `license.py:51` asks an access code for
  `is_expired`, which the class does not have. The Stripe webhook of a paid checkout
  answers `subscription_activated` and activates nothing. The models start after these
  calls, in the state the classes' constructors and tests give.
- Limit orders of the backtest engine raise UnboundLocalError
  (`enhanced_backtest_engine.py:1446`). The strategies of `enhanced_smart_router.py` other
  than the time-weighted one raise AttributeError, and `production_fastapi_app.py` builds
  the router with arguments it does not take.
- The event store of `core/event_bus.py` packs a nanosecond timestamp into 32 bits,
  which always fails. A snapshot of `utils/disaster_recovery.py` is summed with an empty
  checksum and verified without one, so that none can be restored.
- `src/src/infrastructure/circuit_breaker.py` never becomes half-open: an opened one
  admits its few probes and then nothing. `src/src/infrastructure/messaging.py` calls
  `xreadgroup` with parameter names aioredis does not have, so that its consumers read
  nothing. `src/src/core/concurrency.py` imports a package that is not required. Nothing
  that runs uses any of the three.

## 5. Proofs

`tlapm` checks every theorem below for all values of the constants under the
assumptions that the modules name (end of this section). Each safety invariant that a
run checks is a theorem; so are its action properties and the refinement.
Every proof has the same shape: an inductive invariant, called `IInv` in the component's
module or `...IInv` where it is defined beside its proof, holds at first, is kept by each
action (a lemma for each that takes more than a line) and implies what is stated. In the
three compositions a step is a step of the part that is exercised and leaves the
variables of the others alone, so that each part's invariant is kept by the whole.

**OrderProofs.** *The lifecycle.* TypeCorrect, FillsAddUp, AverageNeverWorse, BookIsRight,
AnswersMeetPending, and the action properties EndedOrdersStayPut and
CancelledOrdersTakeNoFill. None of the invariants is inductive alone: that the answer of
a submission finds its order PENDING_NEW (`AnswerPending`) lets `Accept` add it to the
book without breaking `BookMatchesStatus`, which lets `FillOrder` trust the book, and
`AverageWithinLimit` needs `FilledMeansComplete` to know how much was bought at what
cost. *The refinement.* PromiseIsKept, `Spec => Promise!Spec`: each method is one step of
the promise (create is Open, accept is Work, a fill is Take, the terminal answers are
Close) or a stutter (submit, refused requests); the sweep is one Close of all it ends.
*The callbacks.* FilledEntriesAreProtected and SiblingsStopWorking, for any table:
`ComplexIInv` adds that an entry means that a bracket's callback is registered, that two
orders of a group mean that the siblings' callback is, and that the exits a fill adds are
new in the table, so that no two entries share a pair. A fill with all its callbacks is one step, so its proof follows the
table from the fill over the cancelled siblings to the appended exits and slices.

**AdvancedOrdersProofs.** LegsStaySafe: the pair's record and the two orders' statuses say
the same under reports that come late, twice or partially; exits open only after a fill of
the entry. FilledOrdersAreCounted: the counter is a cardinality and the repeated reports;
an order enters the set once, when the report comes that reaches its quantity. StopsTrailTheBest: the extreme of the prices
heard since activation, over any finite or infinite set of prices with a highest one.

**RiskBreaker.** OneTaskFlattens, KillingStaysClosed and HaltsAreFollowedUp rest on a token:
a halt is either in a watcher's kill switch or in one sleeping recovery, never in two,
and whoever has it finds the breaker open (`OneRecovery`); a probation that has just
begun is not overtaken by the next (`ProbationInv`). The first two hold of
`RestartSpec`, with failing brokers, overrides and restarts; the third of `CalmSpec`.

**Subscriptions.** CodesStartOneSubscription and InvoicesMatchPayments: an active code names
no subscription and none has it (`ActiveCode`), so that activating it meets no other one;
a subscription that was not made has no code. If the code expires in the midst, the
subscription has it and the code names none, and it is active no more.

**TradingDeskProofs.**

- OrdersAreBounded (Throttler): besides the messages of a window the invariant counts the
  callers between check and record, who were admitted when the window had room.
- LossesAreBounded (RiskDesk, Backtest): the loss is at most what it was when the last trade
  was admitted and the worst result of each trade that was open or approved then;
  percentages are kept as products.
- FillsAreAlwaysBookedOnce (AsyncEngine, NestedOms): a delayed fill exists only for a
  submission that came back accepted; an order of the nested OMS is in the queue, with one
  loop, or done, and only one of them.
- ExecutionsAreAlwaysContained (Arbitrage, SmartRouter): each phase of an execution says
  what its exposure is made of, late fills and the hedge included; each order of the router
  has at most one request under way, its plan repeats no broker and none that was asked.
- AccountsAlwaysBalance (PaperTrading, Portfolio): sums over the symbols. Until an order
  goes against a position, cash and the cost of what is held make up the worth of the trades
  (`Held`); in the books, quantities at cost, realised results and cash add up, a position
  that flips included.
- ControlsAlwaysHold (SelfTrade, FiaControls): where the answer to a crossing is
  cancel_new or cancel_both, an order that was let in crosses no resting one, which an
  entry beside it cannot change; what is booked is what was admitted and what leaked
  through a later refusal; two consecutive windows bound any window of a second.

**UserServicesProofs.**

- MoneyIsAlwaysAccounted (Wallets, Affiliates): a balance is what it opened with and the sum
  of its history, and what transfers moved sums to nothing, a refused second half and its
  return included; what an affiliate has earned is the commissions owed and the payouts made,
  by sums over referrals and over payouts.
- ReversalsAreAlwaysBacked (Transactions), MembersWereAlwaysInvited (Teams, with: an open
  invitation carries a role), AlertsAlwaysKeepTheirPace (Alerts, with: an alert that does not
  exist has no past).
- PaymentsAlwaysHold (PaymentLimits, Gateway): what is booked beyond a limit is covered by
  the flows that were validated before the last one of them was booked; a new day forgets at
  the first check, not at midnight. A receipt's id is its kind and second.
- FollowersLossIsBounded (CopyTrading): as for the risk manager, over the trades that
  may be open at once.
- SeriesIsAlwaysRecent (MarketCache): a series, and each list an append has read, is
  orderly; after a list was stored it may be longer than its size (`whole`) until an append
  cuts it, and cutting commutes with appending: the latest of (the latest of s, and x) are
  the latest of (s, and x).
- ControlAlwaysReachesAll (MasterControl, whose list is kept as how often it has each
  strategy): a call beyond a flag is alone at its name and knows the list, unless the name is
  torn (`CallsKnow`); what a stop or a walk has left to visit is all that may still run
  (`StopLeaves`, `SweepLeaves`).
- LadderIsAlwaysTrue (DepthOfMarket): finitely many levels of distinct prices have one order
  (`OrderExists`, `OneOrder`), so that a book which is changed level by level is, while
  nothing was cut off, the ladder of what the feed told.
- PricesAreAlwaysShared (PriceConsensus), an action property: of three mid prices or more
  at least three lie within the fences of their quartiles, whatever their number
  (`ThreeAreWithin`, by the remainder of that number by four).

**Platform.**

- BreakerAlwaysKeepsCount (ServiceBreaker): calls that are probing and successes counted
  are no more than the probes sent.
- WaitersAlwaysWait, EventsAlwaysHeld, PlayingIsAlwaysPlayed: the safety halves of properties
  whose other half is liveness. The bulkhead's line has each waiter once. The bus's
  queue has only published, distinct events no handler has begun, and a critical event is
  where the loop awaits it; what is in the dead letter queue, or being retried, has failed,
  and a stop of the retry loop empties only what is found due or retried.
  A session that plays has a thread that plays it, or one about to be started, or one that
  died; the zone of a date is that of its session's start or of the bars, so that what
  killed a thread can still be seen.
- SubscriptionsAlwaysAgree (WebSockets).
- TicksAreAlwaysBarred (Streaming): counts of bars and sums of their ticks, the completed and
  the forgotten ones, cleared or displaced; a publisher without events tells nobody anything.

**SumTheorems.** Sums over a finite set, which the library defines by a recursion: what one
more element adds, what a change of one value changes, sums of zeros, values that
move from one element to another. Induction over a predicate is out of the provers' reach;
a least number, or a smallest subset, for which a claim would fail takes its place
(`LeastNatural`, `SmallestSubset`), here and for the order of a ladder.

What is assumed of constants: quantities, prices, sizes and limits are naturals, mostly
positive; sets that are counted or summed over (symbols, publishers, callers, members,
prices of a book) are finite; `None`, and "none" among handlers, is no id; ids of the three
kinds of advanced orders differ; at most as many successes close a breaker as probes are
sent (the defaults are 3 and 3); the highest price a stop may hear exists. Every one is
named where its constant is declared, and TLC evaluates it in each run.

Only model-checked: all liveness (fairness and ENABLED are out of the prover's reach):
`SubmissionAnswered`, `HaltEnds`, `RequestsSettle`, `WaitersServed`, `EventsAreHandled` and
`ReplaysRun`, of the last three of which the safety half is proved; and the runs that expect a
violation. No module declares a RECURSIVE operator, so that none is closed to proofs.

## 6. What is not modelled

The repository has some 110,000 lines, most of which compute a number, draw a chart or
pass on a request. The map covers the parts that keep a state several actors change, a
small share by lines. What is left out:

- Numerical code without protocol state: indicators, patterns, machine learning,
  option pricing, stress tests, reports, charts, order sizes, commission rates. A model
  checker has nothing to say about it that a unit test does not.
- Connectors and interfaces: each broker or provider call is one request, each REST
  handler validates and delegates.
- Files that do not parse and so cannot run: `main.py`, `__init__.py`,
  `brain/brain.py`, `data/real_time_price_engine.py`, `dashboard/app.py`,
  `mobile/api_v2_production.py`, `ml/features/feature_engineering.py`,
  `ml/models/trading_models.py`, `hopefx/compliance/prop_firm.py`,
  `src/src/risk/distributed_kill_switch.py`, `src/src/hopefx/risk/circuit_breaker.py`
  (and so `src/src/hopefx/execution`, which imports it) and
  `src/src/visualization/equity_curve.py`. Files that are one string literal and define
  nothing: `backtesting/engine.py`, `brokers/manager.py`, `monetization/marketplace.py`,
  `notifications/manager.py`.
- Code that cannot be constructed or reached: the kill switch with consensus
  (`src/src/risk/kill_switch.py`: asyncio has no RLock) and the reconciler that imports
  it, the infrastructure of the nested package (see the end of section 4).
- The failover of `utils/disaster_recovery.py`: heartbeats, replication and handover are
  empty methods, so that a secondary never hears of a primary.
- Within modelled components: live mode and the random price feed of the async
  engine; evaluate_conditional_order; the correlation check of the account breaker,
  which decides nothing; replay, compaction and snapshots of the event store; prices
  and texts of invoices; two-factor secrets and address lists of the payment limits;
  analyses of a book; eviction counts of the cache; practice orders of a
  replay and speeds other than PAUSED; the signals of the strategies' control and the flag of
  its kill switch; direct calls of the smart router's route_order.

## 7. Plan

In order of importance:

1. A second abstract specification, of the bus: each accepted event is handled once or is
   where it can be found, which bus, dead letters and store implement; and its refinement
   proved as that of OrderPromise is.
2. The event-driven backtests of `src/src/backtest` (no fill from the future), and the
   daily and total limits of funded accounts in `src/src/risk/prop_firms.py`.
3. The strategy manager and the orchestra's weights (`strategies/manager.py`,
   `core/strategy_orchestra.py`); the reconnection and the sequence gaps of the feed
   handler in `market_data`.
4. Reconciliation, once the two stubs it compares are written, with a property that a
   mismatch which lasts stops trading.
