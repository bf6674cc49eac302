-------------------------------- MODULE Bulkhead --------------------------------
(***************************************************************************)
(* Bulkhead of resilience/circuit_breaker.py: two asyncio semaphores, the  *)
(* first for the queue, the second for the calls under way. A call keeps   *)
(* its place in the queue's semaphore until it has ended.                  *)
(***************************************************************************)
EXTENDS Integers, Sequences, FiniteSets, SequencesExt

CONSTANTS
    Callers,        \* coroutines calling execute
    MaxConcurrent,  \* max_concurrent
    MaxQueue,       \* max_queue
    MaxLost         \* bound of the model on cancelled waiters that stay counted

VARIABLES
    place,      \* idle, waiting for the semaphore, active
    waiters,    \* the semaphore's waiters, in the order they came
    queueCount, \* queue_count, as get_stats reports it
    refused     \* callers that got BulkheadFull last

vars == <<place, waiters, queueCount, refused>>

In(p) == {c \in Callers : place[c] = p}
Inside == In("waiting") \cup In("active")

Init ==
    /\ place = [c \in Callers |-> "idle"] /\ waiters = <<>>
    /\ queueCount = 0 /\ refused = {}

(* (A name with an underscore is a fault that a change of the code could   *)
(* bring into the definition after it.)                                    *)
QueueLocked == Cardinality(Inside) >= MaxQueue

(* A free slot goes to a newcomer only when nobody waits for it.           *)
SlotFree == Cardinality(In("active")) < MaxConcurrent /\ waiters = <<>>

(* execute, up to its first await that suspends.                           *)
Refuse(c) ==
    /\ place[c] = "idle" /\ QueueLocked
    /\ refused' = refused \cup {c}
    /\ UNCHANGED <<place, waiters, queueCount>>

Enter(c) ==
    /\ place[c] = "idle" /\ ~QueueLocked
    /\ refused' = refused \ {c}
    /\ IF SlotFree
       THEN place' = [place EXCEPT ![c] = "active"] /\ UNCHANGED <<waiters, queueCount>>
       ELSE /\ place' = [place EXCEPT ![c] = "waiting"]
            /\ waiters' = Append(waiters, c)
            /\ queueCount' = queueCount + 1

(* A line that one of its waiters has left.                                *)
Without(line, c) ==
    LET i == CHOOSE j \in DOMAIN line : line[j] = c
    IN  [j \in 1..Len(line) - 1 |-> line[IF j < i THEN j ELSE j + 1]]

Grant_Latest(c) == c = Last(waiters)

(* The slot of a call that ends goes to the first waiter.                  *)
Grant(c) == c = Head(waiters)

Wake(c) ==
    /\ waiters # <<>> /\ Grant(c) /\ Cardinality(In("active")) < MaxConcurrent
    /\ place' = [place EXCEPT ![c] = "active"]
    /\ waiters' = Without(waiters, c)
    /\ queueCount' = queueCount - 1
    /\ UNCHANGED refused

Finish(c) ==
    /\ place[c] = "active"
    /\ place' = [place EXCEPT ![c] = "idle"]
    /\ UNCHANGED <<waiters, queueCount, refused>>

CancelWaiting_StaysInLine(c) ==
    /\ place[c] = "waiting" /\ queueCount < Len(waiters) + MaxLost
    /\ place' = [place EXCEPT ![c] = "idle"]
    /\ UNCHANGED <<waiters, queueCount, refused>>

(* The caller is cancelled while it waits: nothing counts it out.          *)
CancelWaiting(c) ==
    /\ place[c] = "waiting" /\ queueCount < Len(waiters) + MaxLost
    /\ place' = [place EXCEPT ![c] = "idle"]
    /\ waiters' = Without(waiters, c)
    /\ UNCHANGED <<queueCount, refused>>

Step(c) == Refuse(c) \/ Enter(c) \/ Wake(c) \/ Finish(c)
Next == \E c \in Callers : Step(c) \/ CancelWaiting(c)

Spec == Init /\ [][Next]_vars

(* The event loop wakes whom it granted a slot, and calls end.             *)
Fairness == \A c \in Callers : WF_vars(Wake(c)) /\ WF_vars(Finish(c))

FairSpec == Spec /\ Fairness

-----------------------------------------------------------------------------
TypeOK ==
    /\ place \in [Callers -> {"idle", "waiting", "active"}]
    /\ waiters \in Seq(Callers) /\ refused \subseteq Callers
    /\ queueCount \in 0..MaxQueue + MaxLost

(* Never more calls at the service than max_concurrent, nor more callers   *)
(* held back than max_queue.                                               *)
WithinBounds ==
    Cardinality(In("active")) <= MaxConcurrent /\ Cardinality(In("waiting")) <= MaxQueue

(* The waiters of the semaphore are the callers that wait, each once.      *)
WaitersWait == ToSet(waiters) = In("waiting") /\ Len(waiters) = Cardinality(In("waiting"))

(* Inductive: as they stand, of a line in which nobody is twice.           *)
IInv ==
    /\ WithinBounds /\ WaitersWait
    /\ place \in [Callers -> {"idle", "waiting", "active"}] /\ IsFiniteSet(Inside)
    /\ waiters \in Seq(Callers)
    /\ \A i, j \in DOMAIN waiters : waiters[i] = waiters[j] => i = j

(* Who waits is served, or gives up: no newcomer overtakes it for ever.    *)
WaitersServed == \A c \in Callers : place[c] = "waiting" ~> place[c] # "waiting"

-----------------------------------------------------------------------------
(* What the messages and names promise and the code does not do.           *)

(* "queue full": only then is a caller refused.                            *)
RefusedWhenQueueFull ==
    [][\A c \in refused' \ refused : Cardinality(In("waiting")) >= MaxQueue]_vars

(* get_stats reports the callers that are queued.                          *)
QueueCountIsRight == queueCount = Cardinality(In("waiting"))
=============================================================================
