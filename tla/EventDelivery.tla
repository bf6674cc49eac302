----------------------------- MODULE EventDelivery -----------------------------
(***************************************************************************)
(* EventBus, DeadLetterQueue and EventStore of src/hopefx/events: events   *)
(* wait in a bounded queue, a loop hands each to its handlers with a few   *)
(* retries, handlers that keep failing go to the dead letter queue, which  *)
(* has a retry loop of its own, and stop() saves what is still queued.     *)
(* That loop may be stopped and started again, but is not started twice.   *)
(* All parts are tasks of one event loop.                                  *)
(***************************************************************************)
EXTENDS Integers, Sequences, FiniteSets

CONSTANTS
    Events,         \* events that are published
    Handlers,       \* handlers
    Pairs,          \* an event with a handler subscribed to its type
    Priorities,     \* priorities events may have
    MaxQueueSize,   \* max_queue_size
    MaxAttempts,    \* max_retries of _execute_handler, for priorities up to 5
    MaxRetries      \* max_retries of the dead letter queue

DeliveryConstants ==
    /\ Priorities \subseteq 1..10
    /\ Pairs \subseteq Events \X Handlers
    /\ {MaxQueueSize, MaxAttempts, MaxRetries} \subseteq Nat \ {0}
    /\ "none" \notin Handlers

VARIABLES
    priority,   \* Event.priority
    published,  \* events that publish accepted
    queue,      \* _queue
    running,    \* _running
    busy,       \* the critical events the loop is dispatching: none or one
    work,       \* where a handler is with an event
    tries,      \* failed attempts of _execute_handler
    saving,     \* tasks that append an event to the store
    store,      \* event_store
    remaining,  \* events stop() took out of the queue
    dlq,        \* _failed_events: for an event, the handler and its attempts, or none
    ready,      \* what the retry loop found due
    retrying,   \* the retry under way: none or one
    retryLoop   \* whether _retry_task runs

bus == <<priority, published, queue, running, busy, saving, store, remaining>>
letters == <<dlq, ready, retrying, retryLoop>>
vars == <<bus, work, tries, letters>>

NoEntry == [handler |-> "none", attempts |-> 0]

(* What the loop awaits itself, and what is saved when it is published.    *)
Critical == {e \in Events : priority[e] <= 2}
Saved == {e \in Events : priority[e] <= 3}

Init ==
    /\ priority \in [Events -> Priorities]
    /\ published = {} /\ queue = <<>> /\ running = TRUE /\ busy = {}
    /\ work = [p \in Pairs |-> "none"] /\ tries = [p \in Pairs |-> 0]
    /\ saving = {} /\ store = {} /\ remaining = <<>>
    /\ dlq = [e \in Events |-> NoEntry] /\ ready = {} /\ retrying = {}
    /\ retryLoop = TRUE

-----------------------------------------------------------------------------
(* EventBus                                                                *)

(* (A name with an underscore is a fault that a change of the code could   *)
(* bring into the definition after it.)                                    *)
QueueFull_Never == FALSE

QueueFull == Len(queue) >= MaxQueueSize

(* publish; a full queue refuses the event.                                *)
Publish(e) ==
    /\ e \notin published /\ ~QueueFull
    /\ published' = published \cup {e}
    /\ queue' = Append(queue, e)
    /\ saving' = IF e \in Saved THEN saving \cup {e} ELSE saving
    /\ UNCHANGED <<priority, running, busy, store, remaining, work, tries, letters>>

(* The append task of publish; a second row of an id is refused.           *)
Save(e) ==
    /\ e \in saving
    /\ saving' = saving \ {e}
    /\ store' = store \cup {e}
    /\ UNCHANGED <<priority, published, queue, running, busy, remaining, work, tries, letters>>

HoldsTheLoop_Saved(e) == e \in Saved \ Critical

(* A critical event is dispatched by the loop itself, any other by a task. *)
HoldsTheLoop(e) == e \in Critical

(* _process_loop takes the next event when it is not dispatching.          *)
Take ==
    /\ running /\ busy = {} /\ queue # <<>>
    /\ LET e == Head(queue) IN
        /\ work' = [p \in Pairs |-> IF p[1] = e THEN "trying" ELSE work[p]]
        /\ busy' = IF HoldsTheLoop(e) THEN {e} ELSE {}
    /\ queue' = Tail(queue)
    /\ UNCHANGED <<priority, published, running, saving, store, remaining, tries, letters>>

Trying(e) == \E p \in Pairs : p[1] = e /\ work[p] = "trying"

Dispatched ==
    /\ busy # {} /\ \A e \in busy : ~Trying(e)
    /\ busy' = {}
    /\ UNCHANGED <<priority, published, queue, running, saving, store, remaining, work, tries, letters>>

Handled(p) ==
    /\ work[p] = "trying"
    /\ work' = [work EXCEPT ![p] = "done"]
    /\ UNCHANGED <<bus, tries, letters>>

(* DeadLetterQueue.enqueue: one entry an event, whichever handler failed.  *)
Enqueue(p) ==
    IF dlq[p[1]].attempts + 1 > MaxRetries
    THEN work' = [work EXCEPT ![p] = "permanent"] /\ UNCHANGED dlq
    ELSE /\ dlq' = [dlq EXCEPT ![p[1]] = [handler |-> p[2], attempts |-> @.attempts + 1]]
         /\ work' = [work EXCEPT ![p] = "failed"]

Attempts(e) == IF priority[e] <= 5 THEN MaxAttempts ELSE 1
GivesUp(p) == tries[p] + 1 >= Attempts(p[1])

(* _execute_handler: a failed attempt is followed by another after a pause,*)
(* the last by the dead letter queue.                                      *)
Fails(p) ==
    /\ work[p] = "trying"
    /\ tries' = [tries EXCEPT ![p] = @ + 1]
    /\ IF GivesUp(p) THEN Enqueue(p) ELSE UNCHANGED <<work, dlq>>
    /\ UNCHANGED <<bus, ready, retrying, retryLoop>>

(* stop(): the loop is cancelled, with the critical event it dispatches.   *)
Stop ==
    /\ running
    /\ running' = FALSE
    /\ work' = [p \in Pairs |-> IF p[1] \in busy /\ work[p] = "trying" THEN "cancelled" ELSE work[p]]
    /\ busy' = {}
    /\ remaining' = queue
    /\ queue' = <<>>
    /\ UNCHANGED <<priority, published, saving, store, tries, letters>>

(* stop() saves the remaining events one after the other; the store        *)
(* refuses one it has, and stop() ends with that error.                    *)
Drain ==
    /\ remaining # <<>>
    /\ IF Head(remaining) \in store
       THEN remaining' = <<>> /\ UNCHANGED store
       ELSE remaining' = Tail(remaining) /\ store' = store \cup {Head(remaining)}
    /\ UNCHANGED <<priority, published, queue, running, busy, saving, work, tries, letters>>

-----------------------------------------------------------------------------
(* DeadLetterQueue                                                         *)

(* _retry_loop looks for entries that are due.                             *)
FindReady ==
    /\ retryLoop /\ ready = {} /\ retrying = {}
    /\ \E due \in SUBSET {e \in Events : dlq[e] # NoEntry} :
        due # {} /\ ready' = {<<e, dlq[e].handler>> : e \in due}
    /\ UNCHANGED <<bus, work, tries, dlq, retrying, retryLoop>>

TakenOut_Kept(e) == dlq

(* The entry is removed before the retry, whatever it says by now.         *)
TakenOut(e) == [dlq EXCEPT ![e] = NoEntry]

StartRetry(p) ==
    /\ p \in ready /\ retrying = {}
    /\ ready' = ready \ {p}
    /\ retrying' = {p}
    /\ dlq' = TakenOut(p[1])
    /\ UNCHANGED <<bus, work, tries, retryLoop>>

RetryHandled(p) ==
    /\ p \in retrying
    /\ retrying' = {}
    /\ work' = [work EXCEPT ![p] = "done"]
    /\ UNCHANGED <<bus, tries, dlq, ready, retryLoop>>

RetryFails_NotQueued(p) ==
    /\ p \in retrying
    /\ retrying' = {}
    /\ UNCHANGED <<bus, work, tries, dlq, ready, retryLoop>>

RetryFails(p) ==
    /\ p \in retrying
    /\ retrying' = {}
    /\ Enqueue(p)
    /\ UNCHANGED <<bus, tries, ready, retryLoop>>

(* DeadLetterQueue.stop: the loop is cancelled in its pause or in a retry, *)
(* whose entry is in no list any more: the cancellation is no Exception    *)
(* that would enqueue it again.  What was only found due is still queued.  *)
StopRetries ==
    /\ retryLoop
    /\ retryLoop' = FALSE
    /\ ready' = {} /\ retrying' = {}
    /\ work' = [p \in Pairs |-> IF p \in retrying THEN "lost" ELSE work[p]]
    /\ UNCHANGED <<bus, tries, dlq>>

(* DeadLetterQueue.start, after a stop. *)
StartRetries ==
    /\ ~retryLoop
    /\ retryLoop' = TRUE
    /\ UNCHANGED <<bus, work, tries, dlq, ready, retrying>>

-----------------------------------------------------------------------------
BusTasks == Take \/ Dispatched \/ Drain \/ \E e \in Events : Save(e)
Outcomes(p) == Handled(p) \/ Fails(p)
RetryTasks == FindReady \/ \E p \in Pairs : StartRetry(p)
RetryOutcomes(p) == RetryHandled(p) \/ RetryFails(p)

Next ==
    \/ \E e \in Events : Publish(e)
    \/ BusTasks \/ RetryTasks
    \/ \E p \in Pairs : Outcomes(p) \/ RetryOutcomes(p)
    \/ Stop \/ StopRetries \/ StartRetries

Spec == Init /\ [][Next]_vars

(* The loops and their tasks run; a handler ends, and one that is tried    *)
(* again and again succeeds at last.  Nobody needs to stop or start a loop.*)
Fairness ==
    /\ WF_vars(BusTasks) /\ WF_vars(FindReady)
    /\ \A p \in Pairs : /\ WF_vars(Outcomes(p)) /\ WF_vars(StartRetry(p))
                        /\ WF_vars(RetryOutcomes(p)) /\ SF_vars(RetryHandled(p))

FairSpec == Spec /\ Fairness

-----------------------------------------------------------------------------
Places == {"none", "trying", "failed", "done", "permanent", "cancelled", "lost"}

TypeOK ==
    /\ priority \in [Events -> Priorities]
    /\ published \subseteq Events /\ saving \subseteq Saved /\ store \subseteq Events
    /\ queue \in Seq(Events) /\ Len(queue) <= MaxQueueSize
    /\ remaining \in Seq(Events) /\ running \in BOOLEAN /\ busy \subseteq Events
    /\ work \in [Pairs -> Places] /\ tries \in [Pairs -> 0..MaxAttempts]
    /\ dlq \in [Events -> [handler : Handlers \cup {"none"}, attempts : 0..MaxRetries]]
    /\ ready \subseteq Pairs /\ retrying \subseteq Pairs /\ retryLoop \in BOOLEAN

(* Critical events do not overlap: the second is taken when every handler  *)
(* of the first has succeeded or was given up.                             *)
CriticalOneByOne == Cardinality({e \in Critical : Trying(e)}) <= 1

(* A handler that has succeeded with an event does not see it again,       *)
(* neither from the bus nor from the dead letter queue.                    *)
HandledOnce == [][\A p \in Pairs : work[p] = "done" => work'[p] = "done" /\ p \notin retrying' \ retrying]_vars

(* Handlers that have their event for themselves.                          *)
Alone == {p \in Pairs : \A q \in Pairs : q[1] = p[1] => q = p}

(* With one handler an event: a failed event waits in the dead letter      *)
(* queue, or is being retried, until it is handled, however often the loop *)
(* is stopped.  (Only the event whose retry a stop cancels is lost.)       *)
FailedIsQueued ==
    \A p \in Alone : work[p] = "failed" => p \in retrying \/ dlq[p[1]].handler = p[2]

(* Inductive: the loop tries a critical event only while it holds the      *)
(* loop; an event in the queue was published and is new to its handlers,   *)
(* and so is one that was not published; who is in the dead letter queue,  *)
(* due or being retried has failed, and who is being retried is neither of *)
(* the others.                                                             *)
LoopInv ==
    /\ \A e, f \in busy : e = f
    /\ \A e \in Critical : Trying(e) => e \in busy
    /\ queue \in Seq(Events) /\ \A i, j \in DOMAIN queue : queue[i] = queue[j] => i = j
    /\ \A i \in DOMAIN queue : queue[i] \in published
    /\ \A p \in Pairs : p[1] \notin published => work[p] = "none"
    /\ \A p \in Pairs : (\E i \in DOMAIN queue : queue[i] = p[1]) => work[p] = "none"

LetterInv ==
    /\ \A e \in Events : IF dlq[e].handler = "none" THEN dlq[e] = NoEntry
                          ELSE /\ <<e, dlq[e].handler>> \in Pairs
                               /\ work[<<e, dlq[e].handler>>] = "failed"
    /\ \A p \in ready \cup retrying : p \in Pairs /\ work[p] = "failed"
    /\ \A p \in retrying : p \notin ready /\ dlq[p[1]].handler # p[2] /\ retrying = {p}
    /\ FailedIsQueued

IInv ==
    /\ work \in [Pairs -> Places]
    /\ dlq \in [Events -> [handler : Handlers \cup {"none"}, attempts : Nat]]
    /\ LoopInv /\ LetterInv

(* With one handler an event: what publish accepted is handled, in time by *)
(* the loop or later by the dead letter queue, unless one of the two loops *)
(* is stopped before, or it was lost in such a stop.                       *)
AcceptedIsHandled ==
    \A p \in Alone : p[1] \in published ~>
        work[p] \in {"done", "lost"} \/ ~running \/ ~retryLoop

-----------------------------------------------------------------------------
(* What the docstrings promise and the code does not do.                   *)

(* "Store and retry failed events", also when two handlers of one fail, or *)
(* when the loop is stopped in a retry.                                    *)
EveryFailureIsQueued ==
    \A p \in Pairs : /\ work[p] = "failed" => p \in retrying \/ dlq[p[1]].handler = p[2]
                     /\ work[p] # "lost"

(* "Stop the event processor gracefully", "Drain remaining events": what   *)
(* stop() took out of the queue is in the store when it ends.              *)
DrainSavesAll ==
    [][Drain /\ remaining' = <<>> => \A i \in 1..Len(remaining) : remaining[i] \in store']_vars
=============================================================================
