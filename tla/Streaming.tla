------------------------------- MODULE Streaming -------------------------------
(***************************************************************************)
(* StreamingService of data/streaming.py for one symbol: threads publish   *)
(* ticks, which the aggregators collect into bars under a lock and which   *)
(* are told to the subscribers after it was released.  A tick belongs to   *)
(* the bar of its own minute, and may come late.  The buffer of the last   *)
(* ticks is left out: it is filled and cleared with the bars.              *)
(***************************************************************************)
EXTENDS Integers, Sequences, FiniteSets, Functions

CONSTANTS
    Publishers,   \* threads
    Callbacks,
    Timeframes,   \* _timeframes, in minutes
    MaxBars,      \* maxlen of _bars: 500 in the code
    LastMinute,   \* bound of the model on the minutes of ticks
    MaxTicks      \* bound of the model on ticks

StreamConstants ==
    IsFiniteSet(Publishers) /\ Timeframes \subseteq Nat \ {0} /\ MaxBars \in Nat \ {0}

NoBar == [minute |-> -1, ticks |-> 0]

VARIABLES
    open,       \* _open_bars of the aggregator of a timeframe
    bars,       \* _bars: the last completed bars
    listeners,  \* _subscriptions of the symbol and _global_listeners
    events,     \* events a publisher has still to dispatch: 0 is the tick, a
                \* timeframe the bar of it that the tick completed
    telling,    \* callbacks that are still to be told the next of them
    published,  \* ghost: ticks, those before the buffer was cleared included
    forgotten,  \* ghost: bars of a timeframe that were cleared or displaced by
                \* later ones, and their ticks
    told        \* ghost: bars of a timeframe whose dispatch was begun

streamVars == <<open, bars, listeners, events, telling, published, forgotten, told>>

Init ==
    /\ open = [tf \in Timeframes |-> NoBar]
    /\ bars = [tf \in Timeframes |-> <<>>]
    /\ listeners = {}
    /\ events = [p \in Publishers |-> {}]
    /\ telling = [p \in Publishers |-> {}]
    /\ published = 0
    /\ forgotten = [tf \in Timeframes |-> [bars |-> 0, ticks |-> 0]]
    /\ told = [tf \in Timeframes |-> 0]

TicksIn(sequence) ==
    SumFunctionOnSet([i \in DOMAIN sequence |-> sequence[i].ticks], DOMAIN sequence)

-----------------------------------------------------------------------------
(* _bar_key and add_tick: a tick of another minute than the open bar's,    *)
(* an earlier one too, completes that bar and opens its own.               *)
BarKey(tf, minute) == (minute \div tf) * tf

Completes(tf, minute) ==
    open[tf] # NoBar /\ open[tf].minute # BarKey(tf, minute)

AddTick_Dropped(tf, minute) ==
    IF Completes(tf, minute) THEN [minute |-> BarKey(tf, minute), ticks |-> 0]
    ELSE [minute |-> BarKey(tf, minute), ticks |-> open[tf].ticks + 1]

AddTick(tf, minute) ==
    [minute |-> BarKey(tf, minute),
     ticks |-> IF Completes(tf, minute) THEN 1 ELSE open[tf].ticks + 1]

(* publish_tick, up to the end of the lock: what is to be told is the tick *)
(* and the bars it completed.  A full deque loses its oldest bar.          *)
PublishTick(p, minute) ==
    LET completed == {tf \in Timeframes : Completes(tf, minute)}
        full == {tf \in completed : Len(bars[tf]) = MaxBars}
    IN
    /\ events[p] = {} /\ published < MaxTicks
    /\ open' = [tf \in Timeframes |-> AddTick(tf, minute)]
    /\ bars' = [tf \in Timeframes |->
         IF tf \in full THEN Append(Tail(bars[tf]), open[tf])
         ELSE IF tf \in completed THEN Append(bars[tf], open[tf]) ELSE bars[tf]]
    /\ forgotten' = [tf \in Timeframes |->
         IF tf \in full THEN [bars |-> forgotten[tf].bars + 1,
                              ticks |-> forgotten[tf].ticks + Head(bars[tf]).ticks]
         ELSE forgotten[tf]]
    /\ events' = [events EXCEPT ![p] = {0} \cup completed]
    /\ published' = published + 1
    /\ UNCHANGED <<listeners, telling, told>>

(* The tick is told first, then the bars by their timeframes. *)
Upcoming(p) == CHOOSE e \in events[p] : \A f \in events[p] : e <= f

(* _dispatch copies the listeners under the lock and calls them after it.  *)
BeginDispatch(p) ==
    /\ events[p] # {} /\ telling[p] = {}
    /\ telling' = [telling EXCEPT ![p] = listeners]
    /\ events' = [events EXCEPT ![p] = IF listeners = {} THEN @ \ {Upcoming(p)} ELSE @]
    /\ told' = [tf \in Timeframes |-> IF tf = Upcoming(p) THEN told[tf] + 1 ELSE told[tf]]
    /\ UNCHANGED <<open, bars, listeners, published, forgotten>>

Call(p, cb) ==
    /\ cb \in telling[p]
    /\ telling' = [telling EXCEPT ![p] = @ \ {cb}]
    /\ events' = [events EXCEPT ![p] = IF telling[p] = {cb} THEN @ \ {Upcoming(p)} ELSE @]
    /\ UNCHANGED <<open, bars, listeners, published, forgotten, told>>

Subscribe(cb) ==
    /\ listeners' = listeners \cup {cb}
    /\ UNCHANGED <<open, bars, events, telling, published, forgotten, told>>

Unsubscribe(cb) ==
    /\ listeners' = listeners \ {cb}
    /\ UNCHANGED <<open, bars, events, telling, published, forgotten, told>>

(* clear_symbol: the open bars stay with their aggregators. *)
ClearSymbol ==
    /\ forgotten' = [tf \in Timeframes |->
         [bars |-> forgotten[tf].bars + Len(bars[tf]),
          ticks |-> forgotten[tf].ticks + TicksIn(bars[tf])]]
    /\ bars' = [tf \in Timeframes |-> <<>>]
    /\ UNCHANGED <<open, listeners, events, telling, published, told>>

Next ==
    \/ \E p \in Publishers :
         \/ \E minute \in 0..LastMinute : PublishTick(p, minute)
         \/ BeginDispatch(p)
         \/ \E cb \in Callbacks : Call(p, cb)
    \/ \E cb \in Callbacks : Subscribe(cb) \/ Unsubscribe(cb)
    \/ ClearSymbol

Spec == Init /\ [][Next]_streamVars

-----------------------------------------------------------------------------
(* Those that have a bar of the timeframe still to tell. *)
Untold(tf) == {p \in Publishers : tf \in events[p] /\ (telling[p] = {} \/ tf # Upcoming(p))}

(* Whichever threads publish, in time or late, and whatever is cleared or  *)
(* displaced in between: in every timeframe each tick is counted by        *)
(* exactly one bar, be it open, kept or forgotten, and each completed bar  *)
(* is told exactly once, though it may be forgotten by then.               *)
TicksAreBarred ==
    \A tf \in Timeframes :
        /\ published = forgotten[tf].ticks + TicksIn(bars[tf]) + open[tf].ticks
        /\ forgotten[tf].bars + Len(bars[tf]) = told[tf] + Cardinality(Untold(tf))
        /\ Len(bars[tf]) <= MaxBars

(* What the code does not do: keep one bar for a minute, since a late tick *)
(* opens a second one for a minute whose bar was completed.                *)
OneBarPerMinute ==
    [][\A tf \in Timeframes : open'[tf].minute >= open[tf].minute]_streamVars

(* Nor: tell nothing to whom has unsubscribed. *)
OnlyListenersAreTold == \A p \in Publishers : telling[p] \subseteq listeners
=============================================================================
