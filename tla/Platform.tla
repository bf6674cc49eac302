------------------------------- MODULE Platform -------------------------------
(***************************************************************************)
(* The services around the desk: the guards before external services (a    *)
(* circuit breaker and a bulkhead), the delivery of events, the websocket  *)
(* server, replays and the streaming of ticks.  They share no state, and   *)
(* each has callers, tasks or threads of its own: a behaviour exercises    *)
(* one of them.                                                            *)
(***************************************************************************)
EXTENDS ServiceBreaker, Sequences, SumTheorems

CONSTANTS
    Pool,                                \* of the bulkhead: callers and bounds by name
    Events, Handlers, Pairs, Priorities, MaxQueueSize, MaxAttempts, MaxRetries,
    Clients, Channels, Casts, MaxSubscriptions,
    Sessions, Threads, Requests, Paced,
    Publishers, Callbacks, Timeframes, MaxBars, LastMinute, MaxTicks

VARIABLES
    part,     \* the part the behaviour exercises
    place, waiters, queueCount, refused,
    priority, published, queue, running, busy, work, tries, saving, store, remaining,
    dlq, ready, retrying, retryLoop,
    connections, former, channels, subscriptions, activeChannels, replying, casts, heartbeat,
    sessions, bars, stopFlag, starting, threads,
    open, completed, listeners, events, telling, ticks, forgotten, told

Calm == INSTANCE Bulkhead WITH
    Callers <- Pool.callers, MaxConcurrent <- Pool.concurrent, MaxQueue <- Pool.queue,
    MaxLost <- Pool.lost
Bus == INSTANCE EventDelivery
Sockets == INSTANCE WebSockets
Films == INSTANCE Replay
Stream == INSTANCE Streaming WITH bars <- completed, published <- ticks

ASSUME PlatformConstants ==
    /\ {Pool.concurrent, Pool.queue} \subseteq Nat \ {0} /\ Pool.lost \in Nat
    /\ Bus!DeliveryConstants /\ Films!ReplayConstants /\ Sockets!SocketConstants
    /\ Stream!StreamConstants

Parts == {"breaker", "bulkhead", "bus", "sockets", "films", "stream"}

poolVars == <<place, waiters, queueCount, refused>>
busVars == <<priority, published, queue, running, busy, work, tries, saving, store, remaining,
             dlq, ready, retrying, retryLoop>>
socketVars == <<connections, former, channels, subscriptions, activeChannels, replying, casts,
                heartbeat>>
replayVars == <<sessions, bars, stopFlag, starting, threads>>
streamVars == <<open, completed, listeners, events, telling, ticks, forgotten, told>>
platformVars == <<part, vars, poolVars, busVars, socketVars, replayVars, streamVars>>

-----------------------------------------------------------------------------
(* Where a part may begin in several ways and is not the one exercised, it *)
(* begins in one of them.                                                  *)
PlatformInit ==
    /\ part \in Parts
    /\ Init
    /\ Calm!Init
    /\ Bus!Init /\ (part # "bus" => priority = CHOOSE p \in [Events -> Priorities] : TRUE)
    /\ Sockets!Init /\ Films!Init /\ Stream!Init

(* A step of the part that is exercised; the state of the others stays.    *)
Only(name) ==
    /\ part = name /\ UNCHANGED part
    /\ IF name = "breaker" THEN TRUE ELSE UNCHANGED vars
    /\ IF name = "bulkhead" THEN TRUE ELSE UNCHANGED poolVars
    /\ IF name = "bus" THEN TRUE ELSE UNCHANGED busVars
    /\ IF name = "sockets" THEN TRUE ELSE UNCHANGED socketVars
    /\ IF name = "films" THEN TRUE ELSE UNCHANGED replayVars
    /\ IF name = "stream" THEN TRUE ELSE UNCHANGED streamVars

PlatformNext ==
    \/ Only("breaker") /\ Next
    \/ Only("bulkhead") /\ Calm!Next
    \/ Only("bus") /\ Bus!Next
    \/ Only("sockets") /\ Sockets!Next
    \/ Only("films") /\ Films!Next
    \/ Only("stream") /\ Stream!Next

(* The fairness of the parts that have tasks or threads; a part that is    *)
(* not exercised has none of them under way.                               *)
PlatformSpec ==
    /\ PlatformInit /\ [][PlatformNext]_platformVars
    /\ Calm!Fairness /\ Bus!Fairness /\ Films!Fairness

-----------------------------------------------------------------------------
(* The parts of these are stated where their modules are. *)

\* ServiceBreaker: neither probes nor late answers exceed their thresholds.
BreakerKeepsCount == ProbesBounded /\ ClosedBelowThreshold

\* Bulkhead: the waiters are those that wait, each once and within the bounds,
\* and who waits is served, or gives up.
WaitersServed == [](Calm!WaitersWait /\ Calm!WithinBounds) /\ Calm!WaitersServed

\* EventDelivery: critical events come one by one, a failed event with one handler
\* is queued until it is handled or its retry is stopped, what was accepted is handled
\* unless a loop is stopped, and by a handler once.
EventsAreHandled ==
    [](Bus!CriticalOneByOne /\ Bus!FailedIsQueued) /\ Bus!HandledOnce /\ Bus!AcceptedIsHandled

\* WebSockets: the indexes of the subscriptions agree, whoever goes away when.
SubscriptionsAgree == Sockets!SubscriptionsAgree
\* Replay: a session that is playing has a thread that plays it to its end, unless
\* mixed zones or a speed of PAUSED killed it.
ReplaysRun == []Films!PlayingIsPlayed /\ Films!PlayingEnds
\* Streaming: every tick is counted by one bar of each timeframe, every bar told once.
TicksAreBarred == Stream!TicksAreBarred
-----------------------------------------------------------------------------
(* The circuit breaker before a service.                                   *)

\* A caller that starts or ends a probe is one more or one less of them.
LEMMA OneProbe ==
    ASSUME NEW S, NEW T, NEW x, IsFiniteSet(S)
    PROVE  /\ (T = S \cup {x} /\ x \notin S) =>
                IsFiniteSet(T) /\ Cardinality(T) = Cardinality(S) + 1
           /\ T = S \ {x} => /\ IsFiniteSet(T) /\ Cardinality(T) <= Cardinality(S)
                             /\ x \in S => Cardinality(T) = Cardinality(S) - 1
           /\ Cardinality(S) \in Nat /\ (IsFiniteSet(T) => Cardinality(T) \in Nat)
<1>1. Cardinality(S) \in Nat
  BY FS_CardinalityType
<1>2. IsFiniteSet(S \cup {x}) /\ (x \notin S => Cardinality(S \cup {x}) = Cardinality(S) + 1)
  BY FS_AddElement
<1>3. IsFiniteSet(S \ {x})
      /\ Cardinality(S \ {x}) = (IF x \in S THEN Cardinality(S) - 1 ELSE Cardinality(S))
  BY FS_RemoveElement
<1>4. IsFiniteSet(T) => Cardinality(T) \in Nat
  BY FS_CardinalityType
<1> QED
  BY <1>1, <1>2, <1>3, <1>4

\* Who ends a call leaves the probes, and adds to them what it proved.
LEMMA AnswerCounts ==
    ASSUME IInv, NEW c \in Callers, Answered(c) \/ Cancelled(c)
    PROVE  /\ call' \in [Callers -> {"idle", "closed", "probe", "late"}]
           /\ IsFiniteSet(Probing') /\ Cardinality(Probing') + proofs' <= probes
           /\ proofs' \in Nat
<1>1. /\ call \in [Callers -> {"idle", "closed", "probe", "late"}] /\ proofs \in Nat
      /\ probes \in Nat /\ IsFiniteSet(Probing) /\ Cardinality(Probing) + proofs <= probes
      /\ call' = [call EXCEPT ![c] = "idle"]
      /\ proofs' = proofs \/ (call[c] = "probe" /\ proofs' = proofs + 1)
  <2>1. CASE Answered(c)
    <3>1. proofs' = proofs \/ (call[c] = "probe" /\ proofs' = proofs + 1)
      BY <2>1 DEF Answered
    <3> QED
      BY <2>1, <3>1, ThresholdsAssumption DEF IInv, TypeOK, Answered
  <2>2. CASE Cancelled(c)
    BY <2>2, ThresholdsAssumption DEF IInv, TypeOK, Cancelled
  <2> QED
    BY <2>1, <2>2
<1>2. Probing' = Probing \ {c} /\ (call[c] = "probe" <=> c \in Probing)
  BY <1>1 DEF Probing
<1>3. /\ IsFiniteSet(Probing') /\ Cardinality(Probing') <= Cardinality(Probing)
      /\ c \in Probing => Cardinality(Probing') = Cardinality(Probing) - 1
      /\ Cardinality(Probing) \in Nat /\ Cardinality(Probing') \in Nat
  <2> DEFINE S == Probing
             T == Probing'
  <2>1. T = S \ {c} /\ IsFiniteSet(S)
    BY <1>1, <1>2
  <2> HIDE DEF S, T
  <2>2. /\ IsFiniteSet(T) /\ Cardinality(T) <= Cardinality(S)
        /\ c \in S => Cardinality(T) = Cardinality(S) - 1
        /\ Cardinality(S) \in Nat /\ Cardinality(T) \in Nat
    BY <2>1, OneProbe
  <2> QED
    BY <2>2 DEF S, T
<1>4. call' \in [Callers -> {"idle", "closed", "probe", "late"}]
  BY <1>1
<1> QED
  BY <1>1, <1>2, <1>3, <1>4

\* In any order of calls, probes, answers and cancellations the breaker keeps its
\* counts.
LEMMA BreakerStepKeeps ==
    ASSUME IInv, [Next]_vars
    PROVE  IInv'
<1> USE ThresholdsAssumption
<1>0. /\ TypeOK /\ ClosedBelowThreshold
      /\ IsFiniteSet(Probing) /\ Cardinality(Probing) + proofs <= probes
      /\ probes \in 0..HalfOpenMaxCalls /\ proofs \in Nat /\ Cardinality(Probing) \in Nat
  <2>1. IsFiniteSet(Probing) => Cardinality(Probing) \in Nat
    BY FS_CardinalityType
  <2> QED
    BY <2>1 DEF IInv, TypeOK
<1>1. ASSUME NEW c \in Callers, CallClosed(c)
      PROVE  IInv'
  <2>1. Probing' = Probing /\ UNCHANGED <<proofs, probes>>
    BY <1>0, <1>1 DEF TypeOK, CallClosed, Probing
  <2>2. TypeOK' /\ ClosedBelowThreshold'
    BY <1>0, <1>1 DEF TypeOK, CallClosed, ClosedBelowThreshold
  <2> QED
    BY <1>0, <2>1, <2>2 DEF IInv
<1>2. ASSUME NEW c \in Callers, CallTestsRecovery(c)
      PROVE  IInv'
  <2>1. Probing' = {c} /\ probes' = 1 /\ proofs' = 0
    BY <1>0, <1>2 DEF TypeOK, CallTestsRecovery, Probing, StaleProbe, ProbesAtFirst
  <2>2. IsFiniteSet({c}) /\ Cardinality({c}) = 1
    BY FS_Singleton
  <2>3. call' \in [Callers -> {"idle", "closed", "probe", "late"}]
    BY <1>0, <1>2 DEF TypeOK, CallTestsRecovery, StaleProbe
  <2>4. TypeOK' /\ ClosedBelowThreshold'
    BY <1>0, <1>2, <2>1, <2>3 DEF TypeOK, CallTestsRecovery, ClosedBelowThreshold
  <2>5. IsFiniteSet(Probing') /\ Cardinality(Probing') + proofs' <= probes'
    BY <2>1, <2>2
  <2> QED
    BY <2>4, <2>5 DEF IInv
<1>3. ASSUME NEW c \in Callers, CallHalfOpen(c)
      PROVE  IInv'
  <2>1. /\ Probing' = Probing \cup {c} /\ c \notin Probing
        /\ probes' = probes + 1 /\ proofs' = proofs /\ probes < HalfOpenMaxCalls
    BY <1>0, <1>3 DEF TypeOK, CallHalfOpen, Probing, MayProbe
  <2>2. IsFiniteSet(Probing') /\ Cardinality(Probing') = Cardinality(Probing) + 1
    <3> DEFINE S == Probing
               T == Probing'
    <3>1. T = S \cup {c} /\ c \notin S /\ IsFiniteSet(S)
      BY <1>0, <2>1
    <3> HIDE DEF S, T
    <3>2. IsFiniteSet(T) /\ Cardinality(T) = Cardinality(S) + 1
      BY <3>1, OneProbe
    <3> QED
      BY <3>2 DEF S, T
  <2>3. TypeOK' /\ ClosedBelowThreshold'
    BY <1>0, <1>3, <2>1 DEF TypeOK, CallHalfOpen, ClosedBelowThreshold
  <2> QED
    BY <1>0, <2>1, <2>2, <2>3 DEF IInv
<1>4. ASSUME NEW c \in Callers, OnSuccess(c) \/ OnFailure(c) \/ Cancelled(c)
      PROVE  IInv'
  <2>1. /\ call' \in [Callers -> {"idle", "closed", "probe", "late"}]
        /\ IsFiniteSet(Probing') /\ Cardinality(Probing') + proofs' <= probes
        /\ proofs' \in Nat
    BY <1>4, AnswerCounts DEF OnSuccess, OnFailure
  <2>2. /\ state' \in {"closed", "open", "half_open"} /\ failures' \in 0..FailureThreshold
        /\ successes' \in 0..SuccessThreshold - 1 /\ probes' = probes
        /\ elapsed' \in BOOLEAN /\ healthy' \in BOOLEAN
        /\ state' = "closed" => failures' < FailureThreshold
    <3>0. /\ state \in {"closed", "open", "half_open"} /\ failures \in 0..FailureThreshold
          /\ successes \in 0..SuccessThreshold - 1 /\ elapsed \in BOOLEAN /\ healthy \in BOOLEAN
          /\ state = "closed" => failures < FailureThreshold
          /\ FailureThreshold \in Nat \ {0} /\ SuccessThreshold \in Nat \ {0}
      BY <1>0 DEF TypeOK, ClosedBelowThreshold
    <3>1. CASE OnSuccess(c)
      <4>1. elapsed' \in BOOLEAN /\ healthy' \in BOOLEAN /\ probes' = probes
        BY <3>0, <3>1 DEF OnSuccess
      <4>2. /\ state' \in {"closed", "open", "half_open"} /\ failures' \in 0..FailureThreshold
            /\ successes' \in 0..SuccessThreshold - 1
            /\ state' = "closed" => failures' < FailureThreshold
        <5>1. CASE state = "half_open"
          BY <3>0, <3>1, <5>1 DEF OnSuccess, FailuresWhenClosing
        <5>2. CASE state = "closed"
          BY <3>0, <3>1, <5>2 DEF OnSuccess
        <5>3. CASE state = "open"
          BY <3>0, <3>1, <5>3 DEF OnSuccess
        <5> QED
          BY <3>0, <5>1, <5>2, <5>3
      <4> QED
        BY <4>1, <4>2
    <3>2. CASE OnFailure(c)
      <4>1. elapsed' \in BOOLEAN /\ healthy' \in BOOLEAN /\ probes' = probes
        BY <3>0, <3>2 DEF OnFailure
      <4>2. /\ state' \in {"closed", "open", "half_open"} /\ failures' \in 0..FailureThreshold
            /\ successes' \in 0..SuccessThreshold - 1
            /\ state' = "closed" => failures' < FailureThreshold
        BY <3>0, <3>2 DEF OnFailure, OpensOnFailure
      <4> QED
        BY <4>1, <4>2
    <3>3. CASE Cancelled(c)
      BY <3>0, <3>3 DEF Cancelled
    <3> QED
      BY <1>4, <3>1, <3>2, <3>3
  <2>3. proofs' \in 0..HalfOpenMaxCalls
    <3>1. Cardinality(Probing') \in Nat
      BY <2>1, FS_CardinalityType
    <3> QED
      BY <1>0, <2>1, <3>1
  <2> QED
    BY <1>0, <2>1, <2>2, <2>3 DEF IInv, TypeOK, ClosedBelowThreshold
<1>5. ASSUME TimeoutElapses \/ ServiceChanges \/ UNCHANGED vars
      PROVE  IInv'
  <2>1. Probing' = Probing /\ UNCHANGED <<proofs, probes>>
    BY <1>5 DEF TimeoutElapses, ServiceChanges, vars, Probing
  <2>2. TypeOK' /\ ClosedBelowThreshold'
    BY <1>0, <1>5 DEF TypeOK, TimeoutElapses, ServiceChanges, vars, ClosedBelowThreshold
  <2> QED
    BY <1>0, <2>1, <2>2 DEF IInv
<1> QED
  BY <1>1, <1>2, <1>3, <1>4, <1>5 DEF Next, PatientNext, Calls, Answers

\* However calls, probes, late answers and cancellations interleave, a half-open
\* breaker has no more calls of its period under way, or succeeded, than it may, and
\* a closed one never keeps failures that should have opened it.
THEOREM BreakerAlwaysKeepsCount == PlatformSpec => []BreakerKeepsCount
<1>1. PlatformInit => IInv
  <2> SUFFICES ASSUME Init
               PROVE  IInv
    BY DEF PlatformInit
  <2>1. Probing = {} /\ Cardinality({}) = 0 /\ IsFiniteSet({})
    BY FS_EmptySet DEF Init, Probing
  <2>2. TypeOK /\ ClosedBelowThreshold
    <3>1. /\ 0 \in 0..FailureThreshold /\ 0 \in 0..SuccessThreshold - 1
          /\ 0 \in 0..HalfOpenMaxCalls /\ 0 < FailureThreshold
      BY ThresholdsAssumption
    <3>2. elapsed \in BOOLEAN /\ healthy \in BOOLEAN
      BY DEF Init
    <3> QED
      BY <3>1, <3>2 DEF Init, TypeOK, ClosedBelowThreshold
  <2>3. Cardinality(Probing) + proofs <= probes
    BY <2>1 DEF Init
  <2> QED
    BY <2>1, <2>2, <2>3 DEF IInv
<1>2. IInv /\ [PlatformNext]_platformVars => IInv'
  <2> SUFFICES ASSUME IInv, [PlatformNext]_platformVars
               PROVE  IInv'
    OBVIOUS
  <2>1. [Next]_vars
    BY DEF PlatformNext, Only, platformVars
  <2> QED
    BY <2>1, BreakerStepKeeps
<1>3. IInv => BreakerKeepsCount
  <2> SUFFICES ASSUME IInv
               PROVE  BreakerKeepsCount
    OBVIOUS
  <2>1. /\ Cardinality(Probing) \in Nat /\ Cardinality(Probing) + proofs <= probes
        /\ proofs \in Nat /\ probes \in 0..HalfOpenMaxCalls /\ HalfOpenMaxCalls \in Nat
    BY ThresholdsAssumption, FS_CardinalityType DEF IInv, TypeOK
  <2>2. Cardinality(Probing) + proofs <= HalfOpenMaxCalls
    BY <2>1
  <2> QED
    BY <2>2 DEF IInv, BreakerKeepsCount, ProbesBounded, Probing
<1> QED
  BY <1>1, <1>2, <1>3, PTL DEF PlatformSpec

-----------------------------------------------------------------------------
(* The bulkhead.                                                           *)

\* The bulkhead counts and lists with operators of its own modules; they are those
\* of the finite sets and the sequences.
LEMMA CalmSaid ==
    /\ \A S : Calm!IsFiniteSet(S) <=> IsFiniteSet(S)
    /\ \A S : Calm!Cardinality(S) = Cardinality(S)
    /\ \A s : Calm!ToSet(s) = {s[i] : i \in DOMAIN s}
<1>1. \A S : Calm!IsFiniteSet(S) <=> IsFiniteSet(S)
  BY Zenon DEF Calm!IsFiniteSet, IsFiniteSet
<1>2. \A S : Calm!Cardinality(S) = Cardinality(S)
  BY <1>1, Zenon DEF Calm!Cardinality, Cardinality
<1>3. \A s : Calm!ToSet(s) = {s[i] : i \in DOMAIN s}
  BY DEF Calm!ToSet
<1> QED
  BY <1>1, <1>2, <1>3

\* A line in which nobody is twice and that one leaves has all others, in their order.
LEMMA OneLeaves ==
    ASSUME NEW S, NEW line \in Seq(S), NEW k \in DOMAIN line,
           \A i, j \in DOMAIN line : line[i] = line[j] => i = j,
           NEW rest, rest = Calm!Without(line, line[k])
    PROVE  /\ rest \in Seq(S) /\ Len(rest) = Len(line) - 1
           /\ \A i, j \in DOMAIN rest : rest[i] = rest[j] => i = j
           /\ \A i \in DOMAIN rest : \E j \in DOMAIN line : j # k /\ line[j] = rest[i]
           /\ \A j \in DOMAIN line : j # k => \E i \in DOMAIN rest : rest[i] = line[j]
<1> DEFINE From(j) == IF j < k THEN j ELSE j + 1
<1>1. (CHOOSE j \in DOMAIN line : line[j] = line[k]) = k
  OBVIOUS
<1>2. rest = [j \in 1..Len(line) - 1 |-> line[From(j)]]
  BY <1>1 DEF Calm!Without
<1>3. Len(line) \in Nat /\ DOMAIN line = 1..Len(line) /\ k \in 1..Len(line)
  OBVIOUS
<1>4. /\ \A j \in 1..Len(line) - 1 : From(j) \in 1..Len(line) /\ From(j) # k
      /\ \A i, j \in 1..Len(line) - 1 : From(i) = From(j) => i = j
  BY <1>3
<1>5. \A i \in 1..Len(line) : i # k => \E j \in 1..Len(line) - 1 : From(j) = i
  <2> TAKE i \in 1..Len(line)
  <2>1. CASE i < k
    <3>1. i \in 1..Len(line) - 1 /\ From(i) = i
      BY <1>3, <2>1
    <3> QED
      BY <3>1
  <2>2. CASE i > k
    <3>1. i - 1 \in 1..Len(line) - 1 /\ From(i - 1) = i
      BY <1>3, <2>2
    <3> QED
      BY <3>1
  <2> QED
    BY <1>3, <2>1, <2>2
<1>6. Len(line) - 1 \in Nat
  BY <1>3
<1> HIDE DEF From
<1>7. rest \in Seq(S) /\ Len(rest) = Len(line) - 1 /\ DOMAIN rest = 1..Len(line) - 1
  <2>1. rest \in [1..Len(line) - 1 -> S]
    BY <1>2, <1>3, <1>4
  <2> QED
    BY <1>6, <2>1
<1>8. \A i, j \in DOMAIN rest : rest[i] = rest[j] => i = j
  BY <1>2, <1>3, <1>4, <1>7
<1>9. \A i \in DOMAIN rest : \E j \in DOMAIN line : j # k /\ line[j] = rest[i]
  <2> TAKE i \in DOMAIN rest
  <2>1. From(i) \in DOMAIN line /\ From(i) # k /\ rest[i] = line[From(i)]
    BY <1>2, <1>3, <1>4, <1>7
  <2> QED
    BY <2>1
<1>10. \A j \in DOMAIN line : j # k => \E i \in DOMAIN rest : rest[i] = line[j]
  <2> SUFFICES ASSUME NEW j \in DOMAIN line, j # k
               PROVE  \E i \in DOMAIN rest : rest[i] = line[j]
    OBVIOUS
  <2>1. PICK i \in 1..Len(line) - 1 : From(i) = j
    BY <1>3, <1>5
  <2> QED
    BY <1>2, <1>7, <2>1
<1> QED
  BY <1>7, <1>8, <1>9, <1>10

\* Calls that enter, are woken, end or are cancelled keep the line of the waiters to
\* those that wait, and the slots within their number.
LEMMA CalmStepKeeps ==
    ASSUME Calm!IInv, [Calm!Next]_poolVars
    PROVE  Calm!IInv'
<1> DEFINE Active == Calm!In("active")
           Waiting == Calm!In("waiting")
           Alone == \A i, j \in DOMAIN waiters : waiters[i] = waiters[j] => i = j
           Plain == /\ Cardinality(Active) <= Pool.concurrent
                    /\ Cardinality(Waiting) <= Pool.queue
                    /\ {waiters[i] : i \in DOMAIN waiters} = Waiting
                    /\ Len(waiters) = Cardinality(Waiting)
                    /\ place \in [Pool.callers -> {"idle", "waiting", "active"}]
                    /\ IsFiniteSet(Waiting \cup Active)
                    /\ waiters \in Seq(Pool.callers)
                    /\ Alone
<1>0. Pool.concurrent \in Nat /\ Pool.queue \in Nat
  BY PlatformConstants
<1>a. Plain
  BY CalmSaid, Zenon DEF Calm!IInv, Calm!WithinBounds, Calm!WaitersWait, Calm!Inside
<1>b. /\ IsFiniteSet(Waiting) /\ IsFiniteSet(Active)
      /\ Cardinality(Waiting) <= Cardinality(Waiting \cup Active)
  <2> HIDE DEF Active, Waiting
  <2> QED
    BY <1>a, FS_Subset
<1>c. /\ Cardinality(Waiting) \in Nat /\ Cardinality(Active) \in Nat
      /\ Cardinality(Waiting \cup Active) \in Nat
  BY <1>a, <1>b, FS_CardinalityType
<1>d. ASSUME Plain'
      PROVE  Calm!IInv'
  BY <1>d, CalmSaid, Zenon DEF Calm!IInv, Calm!WithinBounds, Calm!WaitersWait, Calm!Inside
<1>e. ASSUME NEW c \in Pool.callers
      PROVE  /\ place[c] = "waiting" <=> c \in Waiting
             /\ place[c] = "active" <=> c \in Active
  BY DEF Calm!In
<1>1. CASE UNCHANGED poolVars
  <2>1. UNCHANGED <<place, waiters>>
    BY <1>1 DEF poolVars
  <2>2. Plain'
    BY <1>a, <2>1 DEF Calm!In
  <2> QED
    BY <1>d, <2>2
<1>2. ASSUME NEW c \in Pool.callers, Calm!Refuse(c)
      PROVE  Calm!IInv'
  <2>1. UNCHANGED <<place, waiters>>
    BY <1>2 DEF Calm!Refuse
  <2>2. Plain'
    BY <1>a, <2>1 DEF Calm!In
  <2> QED
    BY <1>d, <2>2
<1>3. ASSUME NEW c \in Pool.callers, Calm!Enter(c)
      PROVE  Calm!IInv'
  <2>1. place[c] = "idle" /\ c \notin Waiting /\ c \notin Active
    BY <1>3 DEF Calm!Enter, Calm!In
  <2>2. Cardinality(Waiting \cup Active) < Pool.queue
    <3>1. ~(Calm!Cardinality(Calm!Inside) >= Pool.queue)
      BY <1>3, Zenon DEF Calm!Enter, Calm!QueueLocked
    <3>2. Calm!Cardinality(Calm!Inside) = Cardinality(Waiting \cup Active)
      BY CalmSaid, Zenon DEF Calm!Inside
    <3> QED
      BY <1>0, <1>c, <3>1, <3>2
  <2>3. CASE Calm!SlotFree
    <3>1. place' = [place EXCEPT ![c] = "active"] /\ UNCHANGED waiters
      BY <1>3, <2>3 DEF Calm!Enter
    <3>2. Cardinality(Active) < Pool.concurrent
      BY <2>3, CalmSaid, Zenon DEF Calm!SlotFree
    <3>3. Waiting' = Waiting /\ Active' = Active \cup {c}
      BY <1>a, <2>1, <3>1 DEF Calm!In
    <3>4. /\ Cardinality(Active \cup {c}) <= Pool.concurrent
          /\ IsFiniteSet(Waiting \cup (Active \cup {c}))
      <4>1. Cardinality(Active \cup {c}) = Cardinality(Active) + 1
        BY <1>b, <2>1, FS_AddElement
      <4>2. Waiting \cup (Active \cup {c}) = (Waiting \cup Active) \cup {c}
        OBVIOUS
      <4>3. IsFiniteSet((Waiting \cup Active) \cup {c})
        BY <1>a, FS_AddElement
      <4> HIDE DEF Active, Waiting
      <4>4. Cardinality(Active) + 1 <= Pool.concurrent
        BY <1>0, <1>c, <3>2
      <4> QED
        BY <4>1, <4>2, <4>3, <4>4
    <3>5. place' \in [Pool.callers -> {"idle", "waiting", "active"}]
      BY <1>a, <3>1
    <3>6. Plain'
      <4> HIDE DEF Active, Waiting
      <4> QED
        BY <1>a, <3>1, <3>3, <3>4, <3>5
    <3> QED
      BY <1>d, <3>6
  <2>4. CASE ~Calm!SlotFree
    <3>1. place' = [place EXCEPT ![c] = "waiting"] /\ waiters' = Append(waiters, c)
      BY <1>3, <2>4 DEF Calm!Enter
    <3>2. Waiting' = Waiting \cup {c} /\ Active' = Active
      BY <1>a, <2>1, <3>1 DEF Calm!In
    <3>3. Cardinality(Waiting \cup {c}) = Cardinality(Waiting) + 1
      BY <1>b, <2>1, FS_AddElement
    <3>4. IsFiniteSet((Waiting \cup {c}) \cup Active)
      <4>1. (Waiting \cup {c}) \cup Active = (Waiting \cup Active) \cup {c}
        OBVIOUS
      <4> QED
        BY <1>a, <4>1, FS_AddElement
    <3>5. Cardinality(Waiting \cup {c}) <= Pool.queue
      BY <1>0, <1>b, <1>c, <2>2, <3>3
    <3>6. place' \in [Pool.callers -> {"idle", "waiting", "active"}]
      BY <1>a, <3>1
    <3>7. /\ waiters' \in Seq(Pool.callers) /\ Len(waiters') = Len(waiters) + 1
          /\ DOMAIN waiters' = 1..Len(waiters) + 1 /\ waiters'[Len(waiters) + 1] = c
          /\ \A i \in 1..Len(waiters) : waiters'[i] = waiters[i]
          /\ DOMAIN waiters = 1..Len(waiters) /\ Len(waiters) \in Nat
      BY <1>a, <3>1
    <3>8. {waiters'[i] : i \in DOMAIN waiters'} = Waiting \cup {c}
      <4> HIDE DEF Active, Waiting
      <4>1. \A i \in DOMAIN waiters' : waiters'[i] \in Waiting \cup {c}
        BY <1>a, <3>7
      <4>2. \A x \in Waiting \cup {c} : \E i \in DOMAIN waiters' : waiters'[i] = x
        BY <1>a, <3>7
      <4> QED
        BY <4>1, <4>2
    <3>9. Alone'
      <4>1. \A i \in 1..Len(waiters) : waiters[i] # c
        BY <1>a, <2>1, <3>7
      <4> QED
        BY <1>a, <3>7, <4>1
    <3>10. Plain'
      <4> HIDE DEF Active, Waiting, Alone
      <4> QED
        BY <1>a, <3>2, <3>3, <3>4, <3>5, <3>6, <3>7, <3>8, <3>9
    <3> QED
      BY <1>d, <3>10
  <2> QED
    BY <2>3, <2>4
<1>4. ASSUME NEW k \in DOMAIN waiters, waiters' = Calm!Without(waiters, waiters[k])
      PROVE  /\ waiters' \in Seq(Pool.callers) /\ Alone'
             /\ {waiters'[i] : i \in DOMAIN waiters'} = Waiting \ {waiters[k]}
             /\ Len(waiters') = Cardinality(Waiting \ {waiters[k]})
             /\ waiters[k] \in Waiting
  <2> HIDE DEF Active, Waiting
  <2>1. /\ waiters' \in Seq(Pool.callers) /\ Len(waiters') = Len(waiters) - 1
        /\ \A i, j \in DOMAIN waiters' : waiters'[i] = waiters'[j] => i = j
        /\ \A i \in DOMAIN waiters' : \E j \in DOMAIN waiters : j # k /\ waiters[j] = waiters'[i]
        /\ \A j \in DOMAIN waiters : j # k => \E i \in DOMAIN waiters' : waiters'[i] = waiters[j]
    <3>1. waiters \in Seq(Pool.callers) /\ k \in DOMAIN waiters
      BY <1>a, <1>4
    <3>2. \A i, j \in DOMAIN waiters : waiters[i] = waiters[j] => i = j
      BY <1>a
    <3> HIDE DEF Alone, Plain
    <3> QED
      BY ONLY <3>1, <3>2, <1>4, OneLeaves, SMT
  <2>2. waiters[k] \in Waiting
    BY <1>a, <1>4
  <2>3. Cardinality(Waiting \ {waiters[k]}) = Cardinality(Waiting) - 1
    BY <1>b, <2>2, FS_RemoveElement
  <2>4. {waiters'[i] : i \in DOMAIN waiters'} = Waiting \ {waiters[k]}
    <3>1. \A x : x \in Waiting \ {waiters[k]} <=> \E j \in DOMAIN waiters : j # k /\ waiters[j] = x
      BY <1>a, <1>4
    <3>2. \A x : x \in Waiting \ {waiters[k]} <=> \E i \in DOMAIN waiters' : waiters'[i] = x
      BY <2>1, <3>1
    <3> QED
      BY <3>2
  <2> QED
    BY <1>a, <2>1, <2>2, <2>3, <2>4
<1>5. ASSUME NEW c \in Pool.callers, Calm!Wake(c)
      PROVE  Calm!IInv'
  <2>1. /\ waiters # <<>> /\ c = Head(waiters) /\ Cardinality(Active) < Pool.concurrent
        /\ place' = [place EXCEPT ![c] = "active"] /\ waiters' = Calm!Without(waiters, c)
    BY <1>5, CalmSaid, Zenon DEF Calm!Wake, Calm!Grant
  <2>2. 1 \in DOMAIN waiters /\ c = waiters[1]
    BY <1>a, <2>1
  <2>3. /\ waiters' \in Seq(Pool.callers) /\ Alone' /\ c \in Waiting
        /\ {waiters'[i] : i \in DOMAIN waiters'} = Waiting \ {c}
        /\ Len(waiters') = Cardinality(Waiting \ {c})
    BY <1>4, <2>1, <2>2, Zenon
  <2>4. c \notin Active /\ Waiting' = Waiting \ {c} /\ Active' = Active \cup {c}
    BY <1>a, <2>1, <2>3 DEF Calm!In
  <2>5. place' \in [Pool.callers -> {"idle", "waiting", "active"}]
    BY <1>a, <2>1
  <2> HIDE DEF Active, Waiting, Alone
  <2>6. (Waiting \ {c}) \cup (Active \cup {c}) = Waiting \cup Active
    BY <2>3
  <2>7. Cardinality(Active \cup {c}) = Cardinality(Active) + 1
    BY <1>b, <2>4, FS_AddElement
  <2>8. Cardinality(Waiting \ {c}) = Cardinality(Waiting) - 1
    BY <1>b, <2>3, FS_RemoveElement
  <2>9. /\ Cardinality(Waiting \ {c}) <= Pool.queue
        /\ Cardinality(Active \cup {c}) <= Pool.concurrent
    BY <1>0, <1>a, <1>c, <2>1, <2>7, <2>8
  <2>10. Plain'
    BY <1>a, <2>3, <2>4, <2>5, <2>6, <2>9
  <2> QED
    BY <1>d, <2>10
<1>6. ASSUME NEW c \in Pool.callers, Calm!Finish(c)
      PROVE  Calm!IInv'
  <2>1. place[c] = "active" /\ place' = [place EXCEPT ![c] = "idle"] /\ waiters' = waiters
    BY <1>6 DEF Calm!Finish
  <2>2. Waiting' = Waiting /\ Active' = Active \ {c} /\ c \in Active
    BY <1>a, <2>1 DEF Calm!In
  <2>3. place' \in [Pool.callers -> {"idle", "waiting", "active"}]
    BY <1>a, <2>1
  <2> HIDE DEF Active, Waiting
  <2>4. Cardinality(Active \ {c}) = Cardinality(Active) - 1
    BY <1>b, <2>2, FS_RemoveElement
  <2>5. IsFiniteSet(Waiting \cup (Active \ {c}))
    BY <1>a, FS_Subset
  <2>6. Cardinality(Active \ {c}) <= Pool.concurrent
    BY <1>0, <1>a, <1>c, <2>4
  <2>7. Plain'
    BY <1>a, <2>1, <2>2, <2>3, <2>5, <2>6
  <2> QED
    BY <1>d, <2>7
<1>7. ASSUME NEW c \in Pool.callers, Calm!CancelWaiting(c)
      PROVE  Calm!IInv'
  <2>1. /\ place[c] = "waiting" /\ place' = [place EXCEPT ![c] = "idle"]
        /\ waiters' = Calm!Without(waiters, c)
    BY <1>7 DEF Calm!CancelWaiting
  <2>2. PICK k \in DOMAIN waiters : waiters[k] = c
    BY <1>a, <1>e, <2>1
  <2>3. /\ waiters' \in Seq(Pool.callers) /\ Alone' /\ c \in Waiting
        /\ {waiters'[i] : i \in DOMAIN waiters'} = Waiting \ {c}
        /\ Len(waiters') = Cardinality(Waiting \ {c})
    BY <1>4, <2>1, <2>2, Zenon
  <2>4. c \notin Active /\ Waiting' = Waiting \ {c} /\ Active' = Active
    BY <1>a, <2>1, <2>3 DEF Calm!In
  <2>5. place' \in [Pool.callers -> {"idle", "waiting", "active"}]
    BY <1>a, <2>1
  <2> HIDE DEF Active, Waiting, Alone
  <2>6. Cardinality(Waiting \ {c}) = Cardinality(Waiting) - 1
    BY <1>b, <2>3, FS_RemoveElement
  <2>7. IsFiniteSet((Waiting \ {c}) \cup Active)
    BY <1>a, FS_Subset
  <2>8. Cardinality(Waiting \ {c}) <= Pool.queue
    BY <1>0, <1>a, <1>c, <2>6
  <2>9. Plain'
    BY <1>a, <2>3, <2>4, <2>5, <2>7, <2>8
  <2> QED
    BY <1>d, <2>9
<1> QED
  BY <1>1, <1>2, <1>3, <1>5, <1>6, <1>7 DEF Calm!Next, Calm!Step

\* For any callers and bounds: who waits for the bulkhead is in its line, once, and
\* neither the calls under way nor the waiters exceed their number.
THEOREM WaitersAlwaysWait == PlatformSpec => [](Calm!WaitersWait /\ Calm!WithinBounds)
<1>1. PlatformInit => Calm!IInv
  <2>1. PlatformInit => Calm!Init
    BY DEF PlatformInit
  <2> SUFFICES ASSUME Calm!Init
               PROVE  Calm!IInv
    BY <2>1
  <2>2. place = [c \in Pool.callers |-> "idle"] /\ waiters = <<>>
    BY DEF Calm!Init
  <2>3. Calm!In("waiting") = {} /\ Calm!In("active") = {}
    BY <2>2 DEF Calm!In
  <2>4. IsFiniteSet({}) /\ Cardinality({}) = 0
    BY FS_EmptySet
  <2>5. Calm!IsFiniteSet({}) /\ Calm!Cardinality({}) = 0
    BY <2>4, CalmSaid, Zenon
  <2>6. Pool.concurrent \in Nat /\ Pool.queue \in Nat
    BY PlatformConstants
  <2>7. Calm!WithinBounds
    BY <2>3, <2>5, <2>6 DEF Calm!WithinBounds
  <2>8. Calm!ToSet(waiters) = {} /\ Len(waiters) = 0
    BY <2>2, CalmSaid
  <2>9. Calm!WaitersWait
    BY <2>3, <2>5, <2>8, Zenon DEF Calm!WaitersWait
  <2>10. Calm!IsFiniteSet(Calm!Inside)
    BY <2>3, <2>5 DEF Calm!Inside
  <2> QED
    BY <2>2, <2>7, <2>9, <2>10 DEF Calm!IInv
<1>2. Calm!IInv /\ [PlatformNext]_platformVars => Calm!IInv'
  <2> SUFFICES ASSUME Calm!IInv, [PlatformNext]_platformVars
               PROVE  Calm!IInv'
    OBVIOUS
  <2>1. [Calm!Next]_poolVars
    BY DEF PlatformNext, Only, platformVars
  <2> QED
    BY <2>1, CalmStepKeeps
<1>3. Calm!IInv => Calm!WaitersWait /\ Calm!WithinBounds
  BY DEF Calm!IInv
<1> QED
  BY <1>1, <1>2, <1>3, PTL DEF PlatformSpec

-----------------------------------------------------------------------------
(* The event bus and the dead letter queue.                                *)

\* A queue whose head is taken, or that gets an event it did not hold, holds nothing
\* twice, and otherwise what it held.
LEMMA QueueChanges ==
    ASSUME NEW S, NEW q \in Seq(S), \A i, j \in DOMAIN q : q[i] = q[j] => i = j
    PROVE  /\ \A e \in S : (\A i \in DOMAIN q : q[i] # e) =>
                /\ Append(q, e) \in Seq(S)
                /\ \A i, j \in DOMAIN Append(q, e) : Append(q, e)[i] = Append(q, e)[j] => i = j
                /\ \A i \in DOMAIN Append(q, e) :
                     Append(q, e)[i] = e \/ \E j \in DOMAIN q : q[j] = Append(q, e)[i]
           /\ q # <<>> =>
                /\ Head(q) \in S /\ Tail(q) \in Seq(S) /\ \E i \in DOMAIN q : q[i] = Head(q)
                /\ \A i, j \in DOMAIN Tail(q) : Tail(q)[i] = Tail(q)[j] => i = j
                /\ \A i \in DOMAIN Tail(q) :
                     Tail(q)[i] # Head(q) /\ \E j \in DOMAIN q : q[j] = Tail(q)[i]
<1>0. Len(q) \in Nat /\ DOMAIN q = 1..Len(q)
  OBVIOUS
<1>1. ASSUME NEW e \in S, \A i \in DOMAIN q : q[i] # e
      PROVE  /\ Append(q, e) \in Seq(S)
             /\ \A i, j \in DOMAIN Append(q, e) : Append(q, e)[i] = Append(q, e)[j] => i = j
             /\ \A i \in DOMAIN Append(q, e) :
                  Append(q, e)[i] = e \/ \E j \in DOMAIN q : q[j] = Append(q, e)[i]
  <2>1. /\ Append(q, e) \in Seq(S) /\ DOMAIN Append(q, e) = 1..Len(q) + 1
        /\ \A i \in 1..Len(q) : Append(q, e)[i] = q[i]
        /\ Append(q, e)[Len(q) + 1] = e
    BY <1>0
  <2> QED
    BY <1>0, <1>1, <2>1
<1>2. ASSUME q # <<>>
      PROVE  /\ Head(q) \in S /\ Tail(q) \in Seq(S) /\ \E i \in DOMAIN q : q[i] = Head(q)
             /\ \A i, j \in DOMAIN Tail(q) : Tail(q)[i] = Tail(q)[j] => i = j
             /\ \A i \in DOMAIN Tail(q) :
                  Tail(q)[i] # Head(q) /\ \E j \in DOMAIN q : q[j] = Tail(q)[i]
  <2>1. /\ Tail(q) \in Seq(S) /\ DOMAIN Tail(q) = 1..Len(q) - 1 /\ Head(q) = q[1]
        /\ 1 \in DOMAIN q /\ Head(q) \in S
    BY <1>0, <1>2
  <2>2. \A i \in 1..Len(q) - 1 : Tail(q)[i] = q[i + 1] /\ i + 1 \in DOMAIN q /\ i + 1 # 1
    BY <1>0, <1>2
  <2>3. \A i, j \in 1..Len(q) - 1 : i + 1 = j + 1 => i = j
    BY <1>0
  <2> QED
    BY <2>1, <2>2, <2>3
<1> QED
  BY <1>1, <1>2

\* A step of the bus or of the dead letter queue keeps both halves of the invariant,
\* and what a handler has done stays done.
LEMMA BusStepKeeps ==
    ASSUME Bus!IInv, [Bus!Next]_busVars
    PROVE  /\ Bus!IInv'
           /\ \A p \in Pairs : work[p] = "done" => work'[p] = "done" /\ p \notin retrying' \ retrying
<1> DEFINE DoneStays == \A p \in Pairs : work[p] = "done" =>
                          work'[p] = "done" /\ p \notin retrying' \ retrying
           Entered(e) == IF dlq[e].handler = "none" THEN dlq[e] = Bus!NoEntry
                         ELSE /\ <<e, dlq[e].handler>> \in Pairs
                              /\ work[<<e, dlq[e].handler>>] = "failed"
           Queued(e) == \E i \in DOMAIN queue : queue[i] = e
           Busy == /\ \A e, f \in busy : e = f
                   /\ \A p \in Pairs : priority[p[1]] <= 2 /\ work[p] = "trying" => p[1] \in busy
           Fresh == /\ queue \in Seq(Events)
                    /\ \A i, j \in DOMAIN queue : queue[i] = queue[j] => i = j
                    /\ \A i \in DOMAIN queue : queue[i] \in published
                    /\ \A p \in Pairs : p[1] \notin published \/ Queued(p[1]) => work[p] = "none"
           Letters == /\ \A e \in Events : Entered(e)
                      /\ \A p \in ready \cup retrying : p \in Pairs /\ work[p] = "failed"
                      /\ \A p \in retrying : p \notin ready /\ dlq[p[1]].handler # p[2]
                                             /\ retrying = {p}
                      /\ Bus!FailedIsQueued
           Typed == /\ work \in [Pairs -> Bus!Places]
                    /\ dlq \in [Events -> [handler : Handlers \cup {"none"}, attempts : Nat]]
<1>0. /\ MaxRetries \in Nat /\ "none" \notin Handlers
      /\ \A p \in Pairs : p[1] \in Events /\ p[2] \in Handlers /\ p = <<p[1], p[2]>>
  BY PlatformConstants DEF Bus!DeliveryConstants
<1>a. Busy /\ Fresh /\ Letters /\ Typed
  BY <1>0 DEF Bus!IInv, Bus!LoopInv, Bus!LetterInv, Bus!Critical, Bus!Trying
<1>b. ASSUME Busy', Fresh', Letters', Typed', DoneStays
      PROVE  Bus!IInv' /\ DoneStays
  BY <1>0, <1>b DEF Bus!IInv, Bus!LoopInv, Bus!LetterInv, Bus!Critical, Bus!Trying
<1>c. ASSUME UNCHANGED <<dlq, ready, retrying>>,
             \A p \in Pairs : work'[p] = "failed" <=> work[p] = "failed"
      PROVE  Letters'
  BY <1>0, <1>a, <1>c DEF Bus!FailedIsQueued, Bus!Alone, Bus!NoEntry
<1>d. ASSUME UNCHANGED <<busy, priority, queue, published>>,
             \A p \in Pairs : /\ work'[p] = "trying" => work[p] = "trying"
                              /\ work[p] = "none" => work'[p] = "none"
      PROVE  Busy' /\ Fresh'
  BY <1>0, <1>a, <1>d
<1>e. ASSUME NEW p \in Pairs, Bus!Enqueue(p), work[p] \in {"trying", "failed"},
             p \notin ready, p \notin retrying', dlq[p[1]].handler # p[2], ready' = ready,
             retrying' \subseteq retrying, \A q \in retrying : q = p \/ q \in retrying'
      PROVE  /\ Letters' /\ Typed'
             /\ work'[p] \in {"failed", "permanent"}
             /\ \A q \in Pairs : q # p => work'[q] = work[q]
  <2>0. p[1] \in Events /\ p[2] \in Handlers /\ p = <<p[1], p[2]>>
    BY <1>0
  <2>1. CASE dlq[p[1]].attempts + 1 > MaxRetries
    <3>1. work' = [work EXCEPT ![p] = "permanent"] /\ dlq' = dlq
      BY <1>e, <2>1 DEF Bus!Enqueue
    <3>2. Typed' /\ work'[p] = "permanent" /\ \A q \in Pairs : q # p => work'[q] = work[q]
      BY <1>a, <3>1 DEF Bus!Places
    <3>3. ASSUME NEW e \in Events
          PROVE  Entered(e)'
      BY <1>0, <1>a, <1>e, <2>0, <3>1, <3>2
    <3>4. Bus!FailedIsQueued'
      BY <1>a, <1>e, <3>1, <3>2 DEF Bus!FailedIsQueued, Bus!Alone
    <3>5. /\ \A q \in ready' \cup retrying' : q \in Pairs /\ work'[q] = "failed"
          /\ \A q \in retrying' : q \notin ready' /\ dlq'[q[1]].handler # q[2]
                                  /\ retrying' = {q}
      BY <1>a, <1>e, <3>1, <3>2
    <3> QED
      BY <3>2, <3>3, <3>4, <3>5
  <2>2. CASE ~(dlq[p[1]].attempts + 1 > MaxRetries)
    <3>1. /\ work' = [work EXCEPT ![p] = "failed"]
          /\ dlq' = [dlq EXCEPT ![p[1]] =
                       [handler |-> p[2], attempts |-> dlq[p[1]].attempts + 1]]
      BY <1>e, <2>2 DEF Bus!Enqueue
    <3>2. /\ Typed' /\ work'[p] = "failed" /\ \A q \in Pairs : q # p => work'[q] = work[q]
          /\ dlq'[p[1]].handler = p[2] /\ \A e \in Events : e # p[1] => dlq'[e] = dlq[e]
      BY <1>a, <2>0, <3>1 DEF Bus!Places
    <3>3. ASSUME NEW e \in Events
          PROVE  Entered(e)'
      <4>1. CASE e = p[1]
        <5>1. <<e, dlq'[e].handler>> = p /\ dlq'[e].handler # "none"
          BY <1>0, <2>0, <3>2, <4>1
        <5> QED
          BY <3>2, <5>1
      <4>2. CASE e # p[1]
        <5>1. dlq'[e] = dlq[e] /\ <<e, dlq[e].handler>> # p
          BY <2>0, <3>2, <4>2
        <5> QED
          BY <1>a, <3>2, <5>1
      <4> QED
        BY <4>1, <4>2
    <3>4. Bus!FailedIsQueued'
      BY <1>0, <1>a, <1>e, <3>2 DEF Bus!FailedIsQueued, Bus!Alone
    <3>5. /\ \A q \in ready' \cup retrying' : q \in Pairs /\ work'[q] = "failed"
          /\ \A q \in retrying' : q \notin ready' /\ retrying' = {q}
      BY <1>a, <1>e, <3>2
    <3>6. ASSUME NEW q \in retrying'
          PROVE  dlq'[q[1]].handler # q[2]
      <4>1. q \in Pairs /\ q # p /\ dlq[q[1]].handler # q[2]
        BY <1>a, <1>e, <3>6
      <4>2. q[1] \in Events /\ q = <<q[1], q[2]>>
        BY <1>0, <4>1
      <4>3. CASE q[1] = p[1]
        BY <2>0, <3>2, <4>1, <4>2, <4>3
      <4>4. CASE q[1] # p[1]
        BY <3>2, <4>1, <4>2, <4>4
      <4> QED
        BY <4>3, <4>4
    <3> QED
      BY <3>2, <3>3, <3>4, <3>5, <3>6
  <2> QED
    BY <2>1, <2>2
<1> HIDE DEF Busy, Fresh, Letters, Typed, DoneStays
<1>1. ASSUME UNCHANGED busVars
      PROVE  Bus!IInv' /\ DoneStays
  <2>1. UNCHANGED <<priority, published, queue, busy, work, dlq, ready, retrying>>
    BY <1>1 DEF busVars
  <2>2. Typed' /\ DoneStays
    BY <1>a, <2>1 DEF Typed, DoneStays
  <2> QED
    BY <1>b, <1>c, <1>d, <2>1, <2>2
<1>2. ASSUME NEW e \in Events, Bus!Publish(e)
      PROVE  Bus!IInv' /\ DoneStays
  <2>1. /\ e \notin published /\ published' = published \cup {e} /\ queue' = Append(queue, e)
        /\ UNCHANGED <<priority, busy, work, dlq, ready, retrying>>
    BY <1>2 DEF Bus!Publish, Bus!letters
  <2>2. /\ queue \in Seq(Events) /\ \A i, j \in DOMAIN queue : queue[i] = queue[j] => i = j
        /\ \A i \in DOMAIN queue : queue[i] # e /\ queue[i] \in published
    BY <1>a, <2>1 DEF Fresh
  <2>3. /\ queue' \in Seq(Events) /\ \A i, j \in DOMAIN queue' : queue'[i] = queue'[j] => i = j
        /\ \A i \in DOMAIN queue' : queue'[i] = e \/ \E j \in DOMAIN queue : queue[j] = queue'[i]
    BY ONLY <2>1, <2>2, QueueChanges, SMT
  <2>4. Fresh'
    BY <1>a, <2>1, <2>2, <2>3 DEF Fresh
  <2>5. Busy' /\ Typed' /\ DoneStays
    BY <1>a, <2>1 DEF Busy, Typed, DoneStays
  <2> QED
    BY <1>b, <1>c, <2>1, <2>4, <2>5
<1>3. ASSUME Bus!Take
      PROVE  Bus!IInv' /\ DoneStays
  <2> DEFINE e == Head(queue)
  <2>1. /\ busy = {} /\ queue # <<>> /\ queue' = Tail(queue)
        /\ work' = [p \in Pairs |-> IF p[1] = e THEN "trying" ELSE work[p]]
        /\ busy' = IF e \in Bus!Critical THEN {e} ELSE {}
        /\ UNCHANGED <<priority, published, dlq, ready, retrying>>
    BY <1>3 DEF Bus!Take, Bus!HoldsTheLoop, Bus!letters
  <2>2. /\ queue \in Seq(Events) /\ \A i, j \in DOMAIN queue : queue[i] = queue[j] => i = j
        /\ \A i \in DOMAIN queue : queue[i] \in published
    BY <1>a DEF Fresh
  <2>3. /\ e \in Events /\ queue' \in Seq(Events) /\ \E i \in DOMAIN queue : queue[i] = e
        /\ \A i, j \in DOMAIN queue' : queue'[i] = queue'[j] => i = j
        /\ \A i \in DOMAIN queue' : queue'[i] # e /\ \E j \in DOMAIN queue : queue[j] = queue'[i]
    BY ONLY <2>1, <2>2, QueueChanges, SMT
  <2> HIDE DEF e
  <2>4. e \in published /\ \A p \in Pairs : p[1] = e => work[p] = "none"
    BY <1>a, <2>2, <2>3 DEF Fresh
  <2>5. Fresh'
    BY <1>a, <2>1, <2>2, <2>3, <2>4 DEF Fresh
  <2>6. Busy'
    BY <1>0, <1>a, <2>1, <2>3 DEF Busy, Bus!Critical
  <2>7. Typed' /\ DoneStays
    BY <1>a, <2>1, <2>4 DEF Typed, DoneStays, Bus!Places
  <2>8. \A p \in Pairs : work'[p] = "failed" <=> work[p] = "failed"
    BY <2>1, <2>4
  <2> QED
    BY <1>b, <1>c, <2>1, <2>5, <2>6, <2>7, <2>8
<1>4. ASSUME Bus!Dispatched
      PROVE  Bus!IInv' /\ DoneStays
  <2>1. /\ \A f \in busy : ~Bus!Trying(f)
        /\ busy' = {} /\ UNCHANGED <<priority, published, queue, work, dlq, ready, retrying>>
    BY <1>4 DEF Bus!Dispatched, Bus!letters
  <2>2. Busy'
    BY <1>0, <1>a, <2>1 DEF Busy, Bus!Trying
  <2>3. Fresh' /\ Typed' /\ DoneStays
    BY <1>a, <2>1 DEF Fresh, Typed, DoneStays
  <2> QED
    BY <1>b, <1>c, <2>1, <2>2, <2>3
<1>5. ASSUME NEW p \in Pairs, Bus!Handled(p)
      PROVE  Bus!IInv' /\ DoneStays
  <2>1. /\ work[p] = "trying" /\ work' = [work EXCEPT ![p] = "done"]
        /\ UNCHANGED <<priority, published, queue, busy, dlq, ready, retrying>>
    BY <1>5 DEF Bus!Handled, Bus!bus, Bus!letters
  <2>2. Typed' /\ DoneStays /\ \A q \in Pairs : work'[q] = IF q = p THEN "done" ELSE work[q]
    BY <1>a, <2>1 DEF Typed, DoneStays, Bus!Places
  <2> QED
    BY <1>b, <1>c, <1>d, <2>1, <2>2
<1>6. ASSUME NEW p \in Pairs, Bus!Fails(p)
      PROVE  Bus!IInv' /\ DoneStays
  <2>1. work[p] = "trying" /\ UNCHANGED <<priority, published, queue, busy, ready, retrying>>
    BY <1>6 DEF Bus!Fails, Bus!bus
  <2>2. CASE Bus!GivesUp(p)
    <3>1. Bus!Enqueue(p)
      BY <1>6, <2>2 DEF Bus!Fails
    <3>2. p \notin ready /\ p \notin retrying /\ dlq[p[1]].handler # p[2]
      BY <1>0, <1>a, <2>1 DEF Letters
    <3>3. /\ Letters' /\ Typed' /\ work'[p] \in {"failed", "permanent"}
          /\ \A q \in Pairs : q # p => work'[q] = work[q]
      BY <1>e, <2>1, <3>1, <3>2
    <3>4. DoneStays
      BY <2>1, <3>3 DEF DoneStays
    <3> QED
      BY <1>b, <1>d, <2>1, <3>3, <3>4
  <2>3. CASE ~Bus!GivesUp(p)
    <3>1. UNCHANGED <<work, dlq>>
      BY <1>6, <2>3 DEF Bus!Fails
    <3>2. Typed' /\ DoneStays
      BY <1>a, <2>1, <3>1 DEF Typed, DoneStays
    <3> QED
      BY <1>b, <1>c, <1>d, <2>1, <3>1, <3>2
  <2> QED
    BY <2>2, <2>3
<1>7. ASSUME Bus!Stop
      PROVE  Bus!IInv' /\ DoneStays
  <2>1. /\ work' = [p \in Pairs |-> IF p[1] \in busy /\ work[p] = "trying" THEN "cancelled"
                                    ELSE work[p]]
        /\ busy' = {} /\ queue' = <<>> /\ UNCHANGED <<priority, published, dlq, ready, retrying>>
    BY <1>7 DEF Bus!Stop, Bus!letters
  <2>2. Typed' /\ DoneStays
    BY <1>a, <2>1 DEF Typed, DoneStays, Bus!Places
  <2>3. Busy'
    BY <1>a, <2>1 DEF Busy
  <2>4. Fresh'
    BY <1>a, <2>1 DEF Fresh
  <2>5. \A p \in Pairs : work'[p] = "failed" <=> work[p] = "failed"
    BY <2>1
  <2> QED
    BY <1>b, <1>c, <2>1, <2>2, <2>3, <2>4, <2>5
<1>8. ASSUME Bus!FindReady
      PROVE  Bus!IInv' /\ DoneStays
  <2>1. /\ retrying = {} /\ UNCHANGED <<priority, published, queue, busy, work, dlq, retrying>>
    BY <1>8 DEF Bus!FindReady, Bus!bus
  <2>2. PICK due \in SUBSET {e \in Events : dlq[e] # Bus!NoEntry} :
          ready' = {<<e, dlq[e].handler>> : e \in due}
    BY <1>8 DEF Bus!FindReady
  <2>3. \A p \in ready' : p \in Pairs /\ work[p] = "failed"
    <3> SUFFICES ASSUME NEW e \in due
                 PROVE  /\ <<e, dlq[e].handler>> \in Pairs
                        /\ work[<<e, dlq[e].handler>>] = "failed"
      BY <2>2
    <3> QED
      BY <1>a, <2>2 DEF Letters
  <2>4. Letters'
    BY <1>a, <2>1, <2>3 DEF Letters, Bus!FailedIsQueued, Bus!Alone
  <2>5. Typed' /\ DoneStays
    BY <1>a, <2>1 DEF Typed, DoneStays
  <2> QED
    BY <1>b, <1>d, <2>1, <2>4, <2>5
<1>9. ASSUME NEW p \in Pairs, Bus!StartRetry(p)
      PROVE  Bus!IInv' /\ DoneStays
  <2>1. /\ p \in ready /\ retrying = {} /\ ready' = ready \ {p} /\ retrying' = {p}
        /\ dlq' = [dlq EXCEPT ![p[1]] = Bus!NoEntry]
        /\ UNCHANGED <<priority, published, queue, busy, work>>
    BY <1>9 DEF Bus!StartRetry, Bus!TakenOut, Bus!bus
  <2>2. work[p] = "failed" /\ p[1] \in Events
    BY <1>0, <1>a, <2>1 DEF Letters
  <2>3. /\ dlq'[p[1]] = Bus!NoEntry /\ \A e \in Events : e # p[1] => dlq'[e] = dlq[e]
        /\ Typed' /\ DoneStays
    BY <1>a, <2>1, <2>2 DEF Typed, DoneStays, Bus!NoEntry
  <2>4. \A e \in Events : Entered(e)'
    BY <1>a, <2>1, <2>2, <2>3 DEF Letters, Bus!NoEntry
  <2>5. Bus!FailedIsQueued'
    BY <1>0, <1>a, <2>1, <2>3 DEF Letters, Bus!FailedIsQueued, Bus!Alone
  <2>6. dlq'[p[1]].handler # p[2]
    BY <1>0, <2>3 DEF Bus!NoEntry
  <2>7. Letters'
    BY <1>a, <2>1, <2>2, <2>4, <2>5, <2>6 DEF Letters
  <2> QED
    BY <1>b, <1>d, <2>1, <2>3, <2>7
<1>10. ASSUME NEW p \in Pairs, Bus!RetryHandled(p)
       PROVE  Bus!IInv' /\ DoneStays
  <2>1. /\ p \in retrying /\ retrying' = {} /\ work' = [work EXCEPT ![p] = "done"]
        /\ UNCHANGED <<priority, published, queue, busy, dlq, ready>>
    BY <1>10 DEF Bus!RetryHandled, Bus!bus
  <2>2. work[p] = "failed" /\ p \notin ready /\ dlq[p[1]].handler # p[2] /\ retrying = {p}
    BY <1>a, <2>1 DEF Letters
  <2>3. Typed' /\ DoneStays /\ \A q \in Pairs : work'[q] = IF q = p THEN "done" ELSE work[q]
    BY <1>a, <2>1 DEF Typed, DoneStays, Bus!Places
  <2>4. \A e \in Events : Entered(e)'
    BY <1>0, <1>a, <2>1, <2>2, <2>3 DEF Letters
  <2>5. Bus!FailedIsQueued'
    BY <1>a, <2>1, <2>2, <2>3 DEF Letters, Bus!FailedIsQueued, Bus!Alone
  <2>6. Letters'
    BY <1>a, <2>1, <2>2, <2>3, <2>4, <2>5 DEF Letters
  <2> QED
    BY <1>b, <1>d, <2>1, <2>2, <2>3, <2>6
<1>11. ASSUME NEW p \in Pairs, Bus!RetryFails(p)
       PROVE  Bus!IInv' /\ DoneStays
  <2>1. /\ p \in retrying /\ retrying' = {} /\ Bus!Enqueue(p)
        /\ UNCHANGED <<priority, published, queue, busy, ready>>
    BY <1>11 DEF Bus!RetryFails, Bus!bus
  <2>2. work[p] = "failed" /\ p \notin ready /\ dlq[p[1]].handler # p[2] /\ retrying = {p}
    BY <1>a, <2>1 DEF Letters
  <2>3. /\ Letters' /\ Typed' /\ work'[p] \in {"failed", "permanent"}
        /\ \A q \in Pairs : q # p => work'[q] = work[q]
    BY <1>e, <2>1, <2>2
  <2>4. DoneStays
    BY <2>1, <2>2, <2>3 DEF DoneStays
  <2> QED
    BY <1>b, <1>d, <2>1, <2>2, <2>3, <2>4
<1>12. ASSUME Bus!Drain \/ \E e \in Events : Bus!Save(e)
       PROVE  Bus!IInv' /\ DoneStays
  <2>1. UNCHANGED <<priority, published, queue, busy, work, dlq, ready, retrying>>
    BY <1>12 DEF Bus!Drain, Bus!Save, Bus!letters
  <2>2. Typed' /\ DoneStays
    BY <1>a, <2>1 DEF Typed, DoneStays
  <2> QED
    BY <1>b, <1>c, <1>d, <2>1, <2>2
<1>13. ASSUME Bus!BusTasks
       PROVE  Bus!IInv' /\ DoneStays
  BY <1>3, <1>4, <1>12, <1>13, Zenon DEF Bus!BusTasks
<1>14. ASSUME Bus!RetryTasks
       PROVE  Bus!IInv' /\ DoneStays
  BY <1>8, <1>9, <1>14, Zenon DEF Bus!RetryTasks
<1>15. ASSUME NEW p \in Pairs, Bus!Outcomes(p) \/ Bus!RetryOutcomes(p)
       PROVE  Bus!IInv' /\ DoneStays
  BY <1>5, <1>6, <1>10, <1>11, <1>15, Zenon DEF Bus!Outcomes, Bus!RetryOutcomes
<1>16. ASSUME Bus!StopRetries
       PROVE  Bus!IInv' /\ DoneStays
  <2>1. /\ ready' = {} /\ retrying' = {}
        /\ work' = [p \in Pairs |-> IF p \in retrying THEN "lost" ELSE work[p]]
        /\ UNCHANGED <<priority, published, queue, busy, dlq>>
    BY <1>16 DEF Bus!StopRetries, Bus!bus
  <2>2. \A p \in retrying : /\ p \in Pairs /\ work[p] = "failed"
                            /\ p \notin ready /\ dlq[p[1]].handler # p[2]
    BY <1>a DEF Letters
  <2>3. Typed' /\ DoneStays
    BY <1>a, <2>1, <2>2 DEF Typed, DoneStays, Bus!Places
  <2>4. \A e \in Events : Entered(e)'
    BY <1>0, <1>a, <2>1, <2>2 DEF Letters
  <2>5. Bus!FailedIsQueued'
    BY <1>a, <2>1, <2>2 DEF Letters, Bus!FailedIsQueued, Bus!Alone
  <2>6. Letters'
    BY <2>1, <2>4, <2>5 DEF Letters
  <2>7. \A p \in Pairs : /\ work'[p] = "trying" => work[p] = "trying"
                         /\ work[p] = "none" => work'[p] = "none"
    BY <2>1, <2>2
  <2>8. Busy' /\ Fresh'
    BY ONLY <1>d, <2>1, <2>7
  <2> QED
    BY <1>b, <2>3, <2>6, <2>8
<1>17. ASSUME Bus!StartRetries
       PROVE  Bus!IInv' /\ DoneStays
  <2>1. UNCHANGED <<priority, published, queue, busy, work, dlq, ready, retrying>>
    BY <1>17 DEF Bus!StartRetries, Bus!bus
  <2>2. Typed' /\ DoneStays
    BY <1>a, <2>1 DEF Typed, DoneStays
  <2> QED
    BY <1>b, <1>c, <1>d, <2>1, <2>2
<1>18. Bus!IInv' /\ DoneStays
  BY <1>1, <1>2, <1>7, <1>13, <1>14, <1>15, <1>16, <1>17, Zenon DEF Bus!Next
<1> QED
  BY <1>18 DEF DoneStays

\* Events of any number, with any handlers, priorities and bounds: critical events are
\* dispatched one by one, a failed event with one handler is in the dead letter queue
\* or being retried, until it is handled or that retry is cancelled by a stop, and what
\* a handler has done with an event it is not asked to do again.
THEOREM EventsAlwaysHeld ==
    PlatformSpec => [](Bus!CriticalOneByOne /\ Bus!FailedIsQueued) /\ Bus!HandledOnce
<1>1. PlatformInit => Bus!IInv
  <2>1. PlatformInit => Bus!Init
    BY DEF PlatformInit
  <2> SUFFICES ASSUME Bus!Init
               PROVE  Bus!IInv
    BY <2>1
  <2>2. /\ work = [p \in Pairs |-> "none"] /\ queue = <<>> /\ busy = {}
        /\ dlq = [e \in Events |-> Bus!NoEntry] /\ ready = {} /\ retrying = {}
    BY DEF Bus!Init
  <2>3. \A p \in Pairs : work[p] = "none"
    BY <2>2
  <2>4. \A e \in Events : dlq[e] = Bus!NoEntry /\ dlq[e].handler = "none"
    BY <2>2 DEF Bus!NoEntry
  <2>5. Bus!LoopInv
    BY <2>2, <2>3 DEF Bus!LoopInv, Bus!Trying
  <2>6. Bus!LetterInv
    BY <2>2, <2>3, <2>4 DEF Bus!LetterInv, Bus!FailedIsQueued, Bus!Alone
  <2>7. work \in [Pairs -> Bus!Places]
    BY <2>2 DEF Bus!Places
  <2>8. dlq \in [Events -> [handler : Handlers \cup {"none"}, attempts : Nat]]
    BY <2>2 DEF Bus!NoEntry
  <2> QED
    BY <2>5, <2>6, <2>7, <2>8 DEF Bus!IInv
<1>2. Bus!IInv /\ [PlatformNext]_platformVars => Bus!IInv'
  <2> SUFFICES ASSUME Bus!IInv, [PlatformNext]_platformVars
               PROVE  Bus!IInv'
    OBVIOUS
  <2>1. [Bus!Next]_busVars
    BY DEF PlatformNext, Only, platformVars
  <2> QED
    BY <2>1, BusStepKeeps
<1>3. Bus!IInv /\ [PlatformNext]_platformVars =>
        [\A p \in Pairs : work[p] = "done" =>
           work'[p] = "done" /\ p \notin retrying' \ retrying]_(Bus!vars)
  <2> SUFFICES ASSUME Bus!IInv, [PlatformNext]_platformVars
               PROVE  \A p \in Pairs : work[p] = "done" =>
                        work'[p] = "done" /\ p \notin retrying' \ retrying
    OBVIOUS
  <2>1. [Bus!Next]_busVars
    BY DEF PlatformNext, Only, platformVars
  <2> QED
    BY <2>1, BusStepKeeps
<1>4. Bus!IInv => Bus!CriticalOneByOne /\ Bus!FailedIsQueued
  <2> SUFFICES ASSUME Bus!IInv
               PROVE  Bus!CriticalOneByOne
    BY DEF Bus!IInv, Bus!LetterInv
  <2> DEFINE C == {e \in Bus!Critical : Bus!Trying(e)}
  <2>1. C \subseteq busy /\ \A e, f \in busy : e = f
    BY DEF Bus!IInv, Bus!LoopInv
  <2> HIDE DEF C
  <2>2. Cardinality(C) <= 1
    <3>1. CASE C = {}
      <4>1. Cardinality({}) = 0
        BY FS_EmptySet
      <4> QED
        BY <3>1, <4>1
    <3>2. CASE C # {}
      <4>1. PICK e : C = {e}
        BY <2>1, <3>2
      <4>2. Cardinality({e}) = 1
        BY FS_Singleton
      <4> QED
        BY <4>1, <4>2
    <3> QED
      BY <3>1, <3>2
  <2>3. \A S : Bus!IsFiniteSet(S) <=> IsFiniteSet(S)
    BY Zenon DEF Bus!IsFiniteSet, IsFiniteSet
  <2>4. Bus!Cardinality(C) = Cardinality(C)
    BY <2>3, Zenon DEF Bus!Cardinality, Cardinality
  <2> QED
    BY <2>2, <2>4 DEF Bus!CriticalOneByOne, C
<1> QED
  BY <1>1, <1>2, <1>3, <1>4, PTL DEF PlatformSpec, Bus!HandledOnce

-----------------------------------------------------------------------------
(* The websocket server.                                                   *)

\* The sizes of the websocket server are those of finite sets.
LEMMA SameSocketCount ==
    \A S : /\ Sockets!IsFiniteSet(S) <=> IsFiniteSet(S)
           /\ Sockets!Cardinality(S) = Cardinality(S)
<1>1. \A S : Sockets!IsFiniteSet(S) <=> IsFiniteSet(S)
  BY Zenon DEF Sockets!IsFiniteSet, IsFiniteSet
<1>2. \A S : Sockets!Cardinality(S) = Cardinality(S)
  BY Zenon DEF Sockets!Cardinality, Cardinality
<1> QED
  BY <1>1, <1>2

\* The invariant of the websocket server, in its parts.
LEMMA SocketsSaid ==
    Sockets!IInv <=>
        /\ \A c \in Clients, ch \in Channels : c \in channels[ch] <=> ch \in subscriptions[c]
        /\ \A ch \in Channels : channels[ch] \subseteq connections
        /\ \A c \in Clients :
             IsFiniteSet(subscriptions[c]) /\ Cardinality(subscriptions[c]) <= MaxSubscriptions
        /\ activeChannels = Cardinality({ch \in Channels : channels[ch] # {}})
        /\ connections \subseteq Clients
        /\ channels \in [Channels -> SUBSET Clients]
        /\ subscriptions \in [Clients -> SUBSET Channels]
        /\ IsFiniteSet({ch \in Channels : channels[ch] # {}})
BY SameSocketCount DEF Sockets!IInv, Sockets!SubscriptionsAgree

\* Pairs that are unsubscribed leave the indexes in agreement, the channels that they
\* leave empty are counted off.
LEMMA UnsubscribedKeeps ==
    ASSUME Sockets!SocketConstants, Sockets!IInv, NEW pairs, Sockets!Unsubscribed(pairs),
           connections' \subseteq Clients,
           \A c \in Clients, ch \in Channels :
               c \in channels[ch] /\ c \notin connections' => <<c, ch>> \in pairs
    PROVE  Sockets!IInv'
<1> DEFINE busyChannels == {ch \in Channels : channels[ch] # {}}
           stillBusy == {ch \in Channels : channels'[ch] # {}}
<1>1. /\ \A c \in Clients, ch \in Channels : c \in channels[ch] <=> ch \in subscriptions[c]
      /\ channels \in [Channels -> SUBSET Clients]
      /\ subscriptions \in [Clients -> SUBSET Channels]
      /\ activeChannels = Cardinality(busyChannels) /\ IsFiniteSet(busyChannels)
      /\ \A c \in Clients :
           IsFiniteSet(subscriptions[c]) /\ Cardinality(subscriptions[c]) <= MaxSubscriptions
  BY SocketsSaid
<1>2. /\ channels' = [ch \in Channels |-> {c \in channels[ch] : <<c, ch>> \notin pairs}]
      /\ subscriptions' =
           [c \in Clients |-> {ch \in subscriptions[c] : <<c, ch>> \notin pairs}]
      /\ activeChannels' = activeChannels - Cardinality(Sockets!Deleted)
  BY SameSocketCount DEF Sockets!Unsubscribed
<1>3. /\ channels' \in [Channels -> SUBSET Clients]
      /\ subscriptions' \in [Clients -> SUBSET Channels]
      /\ \A c \in Clients, ch \in Channels : c \in channels'[ch] <=> ch \in subscriptions'[c]
      /\ \A ch \in Channels : channels'[ch] \subseteq connections'
  BY <1>1, <1>2
<1>4. ASSUME NEW c \in Clients
      PROVE  IsFiniteSet(subscriptions'[c]) /\ Cardinality(subscriptions'[c]) <= MaxSubscriptions
  <2>1. subscriptions'[c] \subseteq subscriptions[c]
    BY <1>2
  <2>2. IsFiniteSet(subscriptions'[c])
        /\ Cardinality(subscriptions'[c]) <= Cardinality(subscriptions[c])
    BY <1>1, <2>1, FS_Subset
  <2>3. Cardinality(subscriptions'[c]) \in Nat /\ Cardinality(subscriptions[c]) \in Nat
    BY <1>1, <2>2, FS_CardinalityType
  <2> QED
    BY <1>1, <2>2, <2>3 DEF Sockets!SocketConstants
<1>5. stillBusy \subseteq busyChannels /\ Sockets!Deleted = busyChannels \ stillBusy
  BY <1>1, <1>2 DEF Sockets!Deleted
<1> HIDE DEF busyChannels, stillBusy
<1>6. /\ IsFiniteSet(stillBusy)
      /\ Cardinality(busyChannels \ stillBusy) = Cardinality(busyChannels) - Cardinality(stillBusy)
      /\ Cardinality(stillBusy) \in Nat /\ Cardinality(busyChannels) \in Nat
  <2>1. IsFiniteSet(stillBusy)
    BY <1>1, <1>5, FS_Subset
  <2>2. Cardinality(stillBusy) \in Nat /\ Cardinality(busyChannels) \in Nat
    BY <1>1, <2>1, FS_CardinalityType
  <2>3. Cardinality(busyChannels \ stillBusy)
          = Cardinality(busyChannels) - Cardinality(busyChannels \cap stillBusy)
    BY <1>1, FS_Difference
  <2>4. busyChannels \cap stillBusy = stillBusy
    BY <1>5
  <2> QED
    BY <2>1, <2>2, <2>3, <2>4
<1>7. activeChannels' = Cardinality(stillBusy)
  BY <1>1, <1>2, <1>5, <1>6
<1> QED
  BY <1>3, <1>4, <1>6, <1>7, SameSocketCount
  DEF Sockets!IInv, Sockets!SubscriptionsAgree, stillBusy

\* So does the end of connections.
LEMMA UnregisteredKeeps ==
    ASSUME Sockets!SocketConstants, Sockets!IInv, NEW gone, Sockets!Unregistered(gone)
    PROVE  Sockets!IInv'
<1> DEFINE pairs == UNION {{c} \X subscriptions[c] : c \in gone \cap connections}
<1>1. /\ connections \subseteq Clients /\ connections' = connections \ gone
      /\ Sockets!Unsubscribed(pairs)
  BY SocketsSaid DEF Sockets!Unregistered
<1>2. ASSUME NEW c \in Clients, NEW ch \in Channels, c \in channels[ch], c \notin connections'
      PROVE  <<c, ch>> \in pairs
  <2>1. c \in connections /\ c \in gone /\ ch \in subscriptions[c]
    BY <1>1, <1>2, SocketsSaid
  <2> QED
    BY <2>1
<1> HIDE DEF pairs
<1> QED
  BY <1>1, <1>2, UnsubscribedKeeps

\* A subscription enters both indexes, and counts a channel it is the first of.
LEMMA SubscribeKeeps ==
    ASSUME Sockets!SocketConstants, Sockets!IInv, NEW c \in Clients, NEW ch \in Channels,
           Sockets!Subscribe(c, ch)
    PROVE  Sockets!IInv'
<1> DEFINE busyChannels == {x \in Channels : channels[x] # {}}
           nowBusy == {x \in Channels : channels'[x] # {}}
<1>1. /\ \A x \in Clients, y \in Channels : x \in channels[y] <=> y \in subscriptions[x]
      /\ \A y \in Channels : channels[y] \subseteq connections
      /\ channels \in [Channels -> SUBSET Clients]
      /\ subscriptions \in [Clients -> SUBSET Channels] /\ connections \subseteq Clients
      /\ activeChannels = Cardinality(busyChannels) /\ IsFiniteSet(busyChannels)
      /\ \A x \in Clients :
           IsFiniteSet(subscriptions[x]) /\ Cardinality(subscriptions[x]) <= MaxSubscriptions
  BY SocketsSaid
<1>2. /\ c \in connections /\ Cardinality(subscriptions[c]) < MaxSubscriptions
      /\ activeChannels' = (IF channels[ch] = {} THEN activeChannels + 1 ELSE activeChannels)
      /\ channels' = [channels EXCEPT ![ch] = channels[ch] \cup {c}]
      /\ subscriptions' = [subscriptions EXCEPT ![c] = subscriptions[c] \cup {ch}]
      /\ UNCHANGED connections
  BY SameSocketCount DEF Sockets!Subscribe
<1>3. /\ channels' \in [Channels -> SUBSET Clients]
      /\ subscriptions' \in [Clients -> SUBSET Channels]
      /\ \A x \in Clients, y \in Channels : x \in channels'[y] <=> y \in subscriptions'[x]
      /\ \A y \in Channels : channels'[y] \subseteq connections'
  BY <1>1, <1>2
<1>4. ASSUME NEW x \in Clients
      PROVE  IsFiniteSet(subscriptions'[x]) /\ Cardinality(subscriptions'[x]) <= MaxSubscriptions
  <2> DEFINE before == subscriptions[x]
  <2>1. subscriptions'[x] = IF x = c THEN before \cup {ch} ELSE before
    BY <1>1, <1>2
  <2>2. /\ IsFiniteSet(before) /\ Cardinality(before) <= MaxSubscriptions
        /\ x = c => Cardinality(before) < MaxSubscriptions
        /\ Cardinality(before) \in Nat
    BY <1>1, <1>2, FS_CardinalityType
  <2> HIDE DEF before
  <2>3. /\ IsFiniteSet(before \cup {ch})
        /\ Cardinality(before \cup {ch}) = Cardinality(before)
           \/ Cardinality(before \cup {ch}) = Cardinality(before) + 1
    BY <2>2, FS_AddElement
  <2> QED
    BY <2>1, <2>2, <2>3 DEF Sockets!SocketConstants
<1>5. nowBusy = busyChannels \cup {ch} /\ (ch \in busyChannels <=> channels[ch] # {})
  BY <1>1, <1>2
<1> HIDE DEF busyChannels, nowBusy
<1>6. IsFiniteSet(nowBusy) /\ activeChannels' = Cardinality(nowBusy)
  <2>1. /\ IsFiniteSet(busyChannels \cup {ch})
        /\ Cardinality(busyChannels \cup {ch}) =
             (IF ch \in busyChannels THEN Cardinality(busyChannels)
              ELSE Cardinality(busyChannels) + 1)
    BY <1>1, FS_AddElement
  <2> QED
    BY <1>1, <1>2, <1>5, <2>1
<1> QED
  BY <1>1, <1>2, <1>3, <1>4, <1>6, SameSocketCount
  DEF Sockets!IInv, Sockets!SubscriptionsAgree, nowBusy

\* Whatever goes on in the middle of a broadcast.
LEMMA SocketsStepKeeps ==
    ASSUME Sockets!SocketConstants, Sockets!IInv, [Sockets!Next]_socketVars
    PROVE  Sockets!IInv'
<1>0. ASSUME UNCHANGED <<channels, subscriptions, activeChannels>>, connections \subseteq connections',
             connections' \subseteq Clients
      PROVE  Sockets!IInv'
  BY <1>0 DEF Sockets!IInv, Sockets!SubscriptionsAgree
<1>1. CASE UNCHANGED socketVars
  BY <1>0, <1>1, SocketsSaid DEF socketVars
<1>2. ASSUME NEW c \in Clients, Sockets!RegisterConnection(c)
      PROVE  Sockets!IInv'
  BY <1>0, <1>2, SocketsSaid DEF Sockets!RegisterConnection
<1>3. ASSUME NEW c \in Clients, Sockets!Disconnect(c) \/ Sockets!ReplyFails(c)
      PROVE  Sockets!IInv'
  BY <1>3, UnregisteredKeeps DEF Sockets!Disconnect, Sockets!ReplyFails
<1>4. ASSUME NEW c \in Clients, Sockets!Replied(c)
      PROVE  Sockets!IInv'
  BY <1>0, <1>4, SocketsSaid DEF Sockets!Replied
<1>5. ASSUME NEW c \in Clients, NEW ch \in Channels, Sockets!Unsubscribe(c, ch)
      PROVE  Sockets!IInv'
  <2>1. Sockets!Unsubscribed({<<c, ch>>}) /\ UNCHANGED connections
    BY <1>5 DEF Sockets!Unsubscribe
  <2> QED
    BY <2>1, SocketsSaid, UnsubscribedKeeps
<1>6. ASSUME NEW b \in Casts, NEW ch \in Channels, NEW exclude, Sockets!Broadcast(b, ch, exclude)
      PROVE  Sockets!IInv'
  BY <1>0, <1>6, SocketsSaid DEF Sockets!Broadcast
<1>7. ASSUME NEW b \in Casts, NEW c \in Clients, Sockets!SendToUser(b, c)
      PROVE  Sockets!IInv'
  BY <1>0, <1>7, SocketsSaid DEF Sockets!SendToUser
<1>8. ASSUME NEW b \in Casts, NEW silent, Sockets!Heartbeat(b, silent)
      PROVE  Sockets!IInv'
  BY <1>8, UnregisteredKeeps DEF Sockets!Heartbeat
<1>9. ASSUME NEW b \in Casts, Sockets!Sent(b)
      PROVE  Sockets!IInv'
  BY <1>0, <1>9, SocketsSaid DEF Sockets!Sent
<1>10. ASSUME NEW b \in Casts, Sockets!SendFails(b)
       PROVE  Sockets!IInv'
  BY <1>10, UnregisteredKeeps DEF Sockets!SendFails
<1> QED
  BY <1>1, <1>2, <1>3, <1>4, <1>5, <1>6, <1>7, <1>8, <1>9, <1>10, SubscribeKeeps
  DEF Sockets!Next

\* Whoever goes away in the middle of a broadcast, a subscription or a heartbeat: the
\* two indexes of the subscriptions agree, hold only connections that are registered
\* and no more than permitted, and the count of active channels is theirs.
THEOREM SubscriptionsAlwaysAgree == PlatformSpec => []SubscriptionsAgree
<1>0. Sockets!SocketConstants
  BY PlatformConstants
<1>1. PlatformInit => Sockets!IInv
  <2>1. PlatformInit => Sockets!Init
    BY DEF PlatformInit
  <2> SUFFICES ASSUME Sockets!Init
               PROVE  Sockets!IInv
    BY <2>1
  <2>2. {ch \in Channels : channels[ch] # {}} = {}
    BY DEF Sockets!Init
  <2>3. IsFiniteSet({}) /\ Cardinality({}) = 0 /\ 0 <= MaxSubscriptions
    BY <1>0, FS_EmptySet DEF Sockets!SocketConstants
  <2> QED
    BY <2>2, <2>3, SocketsSaid DEF Sockets!Init
<1>2. Sockets!IInv /\ [PlatformNext]_platformVars => Sockets!IInv'
  <2> SUFFICES ASSUME Sockets!IInv, [PlatformNext]_platformVars
               PROVE  Sockets!IInv'
    OBVIOUS
  <2>1. [Sockets!Next]_socketVars
    BY DEF PlatformNext, Only, platformVars
  <2> QED
    BY <1>0, <2>1, SocketsStepKeeps
<1>3. Sockets!IInv => SubscriptionsAgree
  BY DEF Sockets!IInv, SubscriptionsAgree
<1> QED
  BY <1>1, <1>2, <1>3, PTL DEF PlatformSpec

-----------------------------------------------------------------------------
(* The session replays.                                                    *)

\* A session is left playing only with a thread that plays it or is about to be
\* started: plays, pauses, stops, seeks and the threads' own steps keep that.
LEMMA FilmsStepKeeps ==
    ASSUME Films!IInv, [Films!Next]_replayVars
    PROVE  Films!IInv'
<1>0. Films!ReplayConstants
  BY PlatformConstants
<1> DEFINE TypeThreads == [of : Sessions \cup {Films!NoOne}, next : Int, at : Films!Stands]
           TypeSessions == [of : Requests \cup {Films!NoRequest}, date : Int,
                            zone : Films!Zones \cup {Films!None}, state : Films!States,
                            speed : Films!Speeds]
           Played(s) == \/ starting = s
                        \/ \E t \in Threads : threads[t].of = s /\ Films!Alive(t)
                        \/ Films!Died(s)
<1>a. /\ sessions \in [Sessions -> TypeSessions] /\ threads \in [Threads -> TypeThreads]
      /\ stopFlag \in BOOLEAN /\ starting \in Sessions \cup {Films!NoOne}
      /\ bars \in [range : {r.range : r \in Requests} \cup {Films!NoBars.range},
                   zone : Films!Zones \cup {Films!None}]
      /\ \A s \in Sessions : sessions[s].state = "playing" => Played(s)
      /\ \A t \in Threads : Films!ThreadSound(t)
      /\ \A s \in Sessions : Films!DateSound(s)
      /\ starting # Films!NoOne => Films!Created(starting)
  BY DEF Films!IInv, Films!TypeOK, Films!PlayingIsPlayed
<1>b. ASSUME Films!TypeOK', \A s \in Sessions : sessions'[s].state = "playing" => Played(s)',
             \A t \in Threads : Films!ThreadSound(t)', \A s \in Sessions : Films!DateSound(s)',
             starting' # Films!NoOne => Films!Created(starting)'
      PROVE  Films!IInv'
  <2>1. \A t \in Threads : threads'[t].at = "zones differ" => Films!ZonesMix(threads[t].of)'
    BY <1>b DEF Films!ThreadSound
  <2> QED
    BY <1>b, <2>1 DEF Films!IInv, Films!PlayingIsPlayed
<1>c. /\ bars.range[1] \in Int /\ Films!NoOne \notin Sessions
      /\ \A r \in Requests : r.range[1] \in Int /\ r.zones[1] \in Films!Zones
  BY <1>0, <1>a DEF Films!ReplayConstants, Films!NoBars, Films!NoOne
\* A call that changes one session, and may generate the bars.
<1>d. ASSUME NEW s \in Sessions, NEW new \in TypeSessions, sessions' = [sessions EXCEPT ![s] = new],
             UNCHANGED <<threads, starting>>, stopFlag' \in BOOLEAN,
             bars' = bars \/ bars = Films!NoBars,
             bars' \in [range : {r.range : r \in Requests} \cup {Films!NoBars.range},
                        zone : Films!Zones \cup {Films!None}],
             new.state # Films!None, new.zone = new.of.zones[1] \/ new.zone = sessions[s].zone,
             Films!Created(s) => new.of = sessions[s].of,
             ~Films!Created(s) => new.zone = new.of.zones[1],
             new.state = "playing" => sessions[s].state = "playing"
      PROVE  Films!IInv'
  <2>1. /\ Films!TypeOK'
        /\ \A r \in Sessions : sessions'[r] = IF r = s THEN new ELSE sessions[r]
    BY <1>a, <1>d DEF Films!TypeOK
  <2>2. \A r \in Sessions : sessions'[r].state = "playing" => Played(r)'
    BY <1>a, <1>d, <2>1 DEF Films!Alive, Films!Playing, Films!Died
  <2>3. \A r \in Sessions : Films!Created(r) => Films!Created(r)'
    BY <1>d, <2>1 DEF Films!Created
  <2>4. ASSUME NEW t \in Threads
        PROVE  Films!ThreadSound(t)'
    <3>1. Films!ThreadSound(t) /\ threads[t].of \in Sessions \cup {Films!NoOne}
          /\ threads' = threads /\ (bars # Films!NoBars => bars' = bars)
      BY <1>a, <1>d
    <3>2. \A r \in Sessions : Films!Created(r) => sessions'[r].of = sessions[r].of
      BY <1>d, <2>1
    <3>3. threads[t].at = "zones differ" => threads[t].at \in Films!Errors
      BY DEF Films!Errors
    <3>4. "zones differ" # "unborn"
      OBVIOUS
    <3> QED
      BY <2>3, <3>1, <3>2, <3>3, <3>4 DEF Films!ThreadSound, Films!Playing, Films!ZonesMix
  <2>5. ASSUME NEW r \in Sessions
        PROVE  Films!DateSound(r)'
    BY <1>a, <1>d, <2>1 DEF Films!DateSound, Films!Created
  <2>6. starting' # Films!NoOne => Films!Created(starting)'
    BY <1>a, <1>d, <2>1 DEF Films!Created
  <2> QED
    BY <1>b, <2>1, <2>2, <2>4, <2>5, <2>6
\* A step of one thread that goes on in its loop or dies.
<1>e. ASSUME NEW t \in Threads, NEW new \in TypeThreads, threads' = [threads EXCEPT ![t] = new],
             UNCHANGED <<bars, stopFlag, starting>>, sessions' \in [Sessions -> TypeSessions],
             Films!Alive(t), new.of = threads[t].of,
             new.at \in {"loop", "show", "pause", "end"} \cup Films!Errors,
             new.at # "end" => bars # Films!NoBars,
             new.at = "zones differ" => Films!ZonesMix(new.of),
             \A s \in Sessions : /\ sessions'[s].of = sessions[s].of
                                 /\ sessions'[s].state = sessions[s].state
                                 /\ \/ sessions'[s].zone = sessions[s].zone
                                    \/ bars # Films!NoBars /\ sessions'[s].zone = bars.zone
      PROVE  Films!IInv'
  <2>1. /\ Films!TypeOK'
        /\ \A u \in Threads : threads'[u] = IF u = t THEN new ELSE threads[u]
    BY <1>a, <1>e DEF Films!TypeOK
  <2>2. ASSUME NEW s \in Sessions, sessions'[s].state = "playing"
        PROVE  Played(s)'
    <3>1. Played(s)
      BY <1>a, <1>e, <2>2
    <3>2. threads'[t].of = threads[t].of /\ threads'[t].at = new.at
      BY <1>e, <2>1
    <3>3. \A u \in Threads : u # t => threads'[u] = threads[u]
      BY <2>1
    <3>4. CASE threads[t].of = s
      <4>1. CASE new.at \in Films!Errors
        BY <3>2, <3>4, <4>1 DEF Films!Died
      <4>2. CASE new.at \in {"loop", "show", "pause", "end"}
        BY <3>2, <3>4, <4>2 DEF Films!Alive, Films!Playing
      <4> QED
        BY <1>e, <4>1, <4>2
    <3>5. CASE threads[t].of # s
      <4>1. \A u \in Threads : threads[u].of = s => threads'[u] = threads[u]
        BY <3>3, <3>5
      <4> QED
        BY <1>e, <3>1, <4>1 DEF Films!Alive, Films!Playing, Films!Died
    <3> QED
      BY <3>4, <3>5
  <2>3. \A s \in Sessions : Films!Created(s)' <=> Films!Created(s)
    BY <1>e DEF Films!Created
  <2>4. \A s \in Sessions : Films!ZonesMix(s)' <=> Films!ZonesMix(s)
    BY <1>e DEF Films!ZonesMix
  <2>5. threads[t].of # Films!NoOne /\ Films!Created(threads[t].of)
    BY <1>a, <1>e DEF Films!ThreadSound, Films!Alive, Films!Playing
  <2>6. \A u \in Threads : threads[u].of \in Sessions \cup {Films!NoOne}
    BY <1>a
  <2>7. ASSUME NEW u \in Threads
        PROVE  Films!ThreadSound(u)'
    <3>1. CASE u = t
      <4>1. threads'[u] = new /\ new.of \in Sessions
        BY <1>e, <2>1, <2>5, <2>6, <3>1
      <4> QED
        BY <1>e, <2>3, <2>4, <2>5, <3>1, <4>1 DEF Films!ThreadSound, Films!Playing, Films!Errors
    <3>2. CASE u # t
      <4>1. threads'[u] = threads[u] /\ Films!ThreadSound(u)
        BY <1>a, <2>1, <3>2
      <4>2. threads[u].of # Films!NoOne => threads[u].of \in Sessions
        BY <2>6
      <4> QED
        BY <1>e, <2>3, <2>4, <4>1, <4>2 DEF Films!ThreadSound, Films!Playing, Films!Errors
    <3> QED
      BY <3>1, <3>2
  <2>8. ASSUME NEW s \in Sessions
        PROVE  Films!DateSound(s)'
    BY <1>a, <1>e, <2>3 DEF Films!DateSound
  <2>9. starting' # Films!NoOne => Films!Created(starting)'
    BY <1>a, <1>e, <2>3
  <2> QED
    BY <1>b, <2>1, <2>2, <2>7, <2>8, <2>9
<1> HIDE DEF TypeThreads, TypeSessions
<1>1. CASE UNCHANGED replayVars
  <2>1. UNCHANGED <<sessions, bars, stopFlag, starting, threads>>
    BY <1>1 DEF replayVars
  <2>2. \A s \in Sessions : sessions'[s].state = "playing" => Played(s)'
    BY <1>a, <2>1 DEF Films!Alive, Films!Playing, Films!Died
  <2>3. \A t \in Threads : Films!ThreadSound(t)'
    BY <1>a, <2>1
    DEF Films!ThreadSound, Films!Playing, Films!Errors, Films!Created, Films!ZonesMix
  <2>4. \A s \in Sessions : Films!DateSound(s)'
    BY <1>a, <2>1 DEF Films!DateSound, Films!Created
  <2>5. starting' # Films!NoOne => Films!Created(starting)'
    BY <1>a, <2>1 DEF Films!Created
  <2>6. Films!TypeOK'
    BY <1>a, <2>1 DEF Films!TypeOK, TypeSessions, TypeThreads
  <2> QED
    BY <1>b, <2>2, <2>3, <2>4, <2>5, <2>6
<1>2. ASSUME NEW s \in Sessions, NEW r \in Requests, Films!CreateSession(s, r)
      PROVE  Films!IInv'
  <2> DEFINE new == [of |-> r, date |-> r.range[1], zone |-> r.zones[1], state |-> "idle",
                     speed |-> "running"]
  <2>1. /\ ~Films!Created(s) /\ sessions' = [sessions EXCEPT ![s] = new]
        /\ bars' = IF bars # Films!NoBars \/ r.zones[1] # r.zones[2] THEN bars
                   ELSE [range |-> r.range, zone |-> r.zones[1]]
        /\ UNCHANGED <<stopFlag, starting, threads>>
    <3>1. ~(s < s)
      BY <1>0 DEF Films!ReplayConstants
    <3> QED
      BY <1>2, <3>1 DEF Films!CreateSession
  <2>2. new \in TypeSessions
    BY <1>c DEF TypeSessions, Films!States, Films!Speeds
  <2>3. /\ bars' = bars \/ bars = Films!NoBars
        /\ bars' \in [range : {q.range : q \in Requests} \cup {Films!NoBars.range},
                      zone : Films!Zones \cup {Films!None}]
    BY <1>a, <1>c, <2>1
  <2> HIDE DEF new
  <2>4. /\ new.state = "idle" /\ new.zone = new.of.zones[1] /\ UNCHANGED <<threads, starting>>
        /\ stopFlag' \in BOOLEAN
    BY <1>a, <2>1 DEF new
  <2>5. new.state # Films!None /\ new.state # "playing"
    BY <2>4 DEF Films!None
  <2> QED
    BY <1>d, <2>1, <2>2, <2>3, <2>4, <2>5
<1>3. ASSUME NEW s \in Sessions, Films!Play(s)
      PROVE  Films!IInv'
  <2>1. /\ starting = Films!NoOne /\ starting' = s /\ Films!Created(s)
        /\ sessions' = [sessions EXCEPT ![s].state = "playing"]
        /\ UNCHANGED <<bars, stopFlag, threads>>
    BY <1>3 DEF Films!Play, Films!CallsFree
  <2>2. \A r \in Sessions :
          /\ sessions'[r].of = sessions[r].of /\ sessions'[r].zone = sessions[r].zone
          /\ sessions'[r].speed = sessions[r].speed
          /\ r # s => sessions'[r] = sessions[r]
          /\ sessions'[s].state = "playing"
    BY <1>a, <2>1 DEF TypeSessions
  <2>3. sessions' \in [Sessions -> TypeSessions]
    BY <1>a, <2>1 DEF TypeSessions, Films!States
  <2>4. Films!TypeOK'
    BY <1>a, <2>1, <2>3 DEF Films!TypeOK, TypeSessions, TypeThreads
  <2>5. \A r \in Sessions : Films!Created(r)' <=> Films!Created(r)
    BY <2>1, <2>2 DEF Films!Created, Films!None
  <2>6. \A r \in Sessions : sessions'[r].state = "playing" => Played(r)'
    BY <1>a, <2>1, <2>2, <1>c DEF Films!Alive, Films!Playing, Films!Died
  <2>7. \A t \in Threads : threads[t].of \in Sessions \cup {Films!NoOne}
    BY <1>a DEF TypeThreads
  <2>8. ASSUME NEW t \in Threads
        PROVE  Films!ThreadSound(t)'
    <3>1. Films!ThreadSound(t) /\ threads[t].of \in Sessions \cup {Films!NoOne}
      BY <1>a, <2>7
    <3> QED
      BY <2>1, <2>2, <2>5, <3>1
      DEF Films!ThreadSound, Films!Playing, Films!Errors, Films!ZonesMix
  <2>9. \A r \in Sessions : Films!DateSound(r)'
    BY <1>a, <2>1, <2>2, <2>5 DEF Films!DateSound
  <2>10. starting' # Films!NoOne => Films!Created(starting)'
    BY <2>1, <2>5
  <2> QED
    BY <1>b, <2>4, <2>6, <2>8, <2>9, <2>10
<1>4. ASSUME NEW s \in Sessions, NEW to \in {"paused", "finished"}, Films!Halt(s, to)
      PROVE  Films!IInv'
  <2> DEFINE new == [sessions[s] EXCEPT !.state = to]
  <2>1. /\ Films!Created(s) /\ sessions' = [sessions EXCEPT ![s] = new] /\ stopFlag' = TRUE
        /\ UNCHANGED <<bars, starting, threads>>
    BY <1>4 DEF Films!Halt
  <2>2. /\ new \in TypeSessions /\ new.of = sessions[s].of /\ new.zone = sessions[s].zone
        /\ new.speed = sessions[s].speed /\ new.state = to
    BY <1>a DEF TypeSessions, Films!States
  <2>3. to # Films!None /\ to # "playing"
    BY DEF Films!None
  <2> HIDE DEF new
  <2> QED
    BY <1>a, <1>d, <2>1, <2>2, <2>3
<1>5. ASSUME NEW s \in Sessions, NEW speed \in Films!Speeds, Films!SetSpeed(s, speed)
      PROVE  Films!IInv'
  <2> DEFINE new == [sessions[s] EXCEPT !.speed = speed]
  <2>1. /\ Films!Created(s) /\ sessions' = [sessions EXCEPT ![s] = new]
        /\ UNCHANGED <<bars, starting, threads, stopFlag>>
    BY <1>5 DEF Films!SetSpeed
  <2>3. /\ new \in TypeSessions /\ new.of = sessions[s].of /\ new.zone = sessions[s].zone
        /\ new.state = sessions[s].state
    BY <1>a DEF TypeSessions
  <2> HIDE DEF new
  <2>4. new.state # Films!None
    BY <2>1, <2>3 DEF Films!Created
  <2> QED
    BY <1>a, <1>d, <2>1, <2>3, <2>4
<1>6. ASSUME NEW s \in Sessions, NEW d \in bars.range[1]..bars.range[2], Films!Seek(s, d)
      PROVE  Films!IInv'
  <2> DEFINE new == [sessions[s] EXCEPT !.date = d, !.zone = sessions[s].of.zones[1]]
  <2>1. /\ Films!Created(s) /\ sessions' = [sessions EXCEPT ![s] = new]
        /\ UNCHANGED <<bars, starting, threads, stopFlag>>
    BY <1>6 DEF Films!Seek
  <2>2. sessions[s].of.zones[1] \in Films!Zones \cup {Films!None}
    <3>1. sessions[s].of \in Requests \cup {Films!NoRequest}
      BY <1>a DEF TypeSessions
    <3> QED
      BY <1>c, <3>1 DEF Films!NoRequest
  <2>3. /\ new \in TypeSessions /\ new.of = sessions[s].of /\ new.zone = new.of.zones[1]
        /\ new.state = sessions[s].state
    <3>1. sessions[s] \in TypeSessions /\ d \in Int
      BY <1>a
    <3> HIDE DEF new
    <3>2. /\ new.of = sessions[s].of /\ new.date = d /\ new.zone = sessions[s].of.zones[1]
          /\ new.state = sessions[s].state /\ new.speed = sessions[s].speed
          /\ new = [of |-> new.of, date |-> new.date, zone |-> new.zone, state |-> new.state,
                    speed |-> new.speed]
      <4> DEFINE z == sessions[s].of.zones[1]
      <4>1. new = [sessions[s] EXCEPT !.date = d, !.zone = z]
        BY DEF new
      <4> HIDE DEF z
      <4>2. new = [of |-> sessions[s].of, date |-> d, zone |-> z, state |-> sessions[s].state,
                   speed |-> sessions[s].speed]
        BY ONLY <3>1, <4>1 DEF TypeSessions
      <4> QED
        BY <4>2 DEF z
    <3>3. new \in TypeSessions
      BY <2>2, <3>1, <3>2 DEF TypeSessions
    <3> QED
      BY <3>2, <3>3
  <2> HIDE DEF new
  <2>4. new.state # Films!None
    BY <2>1, <2>3 DEF Films!Created
  <2> QED
    BY <1>a, <1>d, <2>1, <2>3, <2>4
<1>7. ASSUME NEW t \in Threads, Films!StartThread(t)
      PROVE  Films!IInv'
  <2> DEFINE new == [of |-> starting, at |-> "born", next |-> 0]
  <2>1. /\ starting # Films!NoOne /\ threads[t].at = "unborn" /\ stopFlag' = FALSE
        /\ threads' = [threads EXCEPT ![t] = new] /\ starting' = Films!NoOne
        /\ UNCHANGED <<sessions, bars>>
    <3>1. t >= t
      BY <1>0 DEF Films!ReplayConstants
    <3> QED
      BY <1>7, <3>1 DEF Films!StartThread, Films!CallsFree
  <2>2. new \in TypeThreads /\ new.of = starting /\ new.at = "born"
    BY <1>a DEF TypeThreads, Films!Stands
  <2> HIDE DEF new
  <2>3. \A u \in Threads : threads'[u] = IF u = t THEN new ELSE threads[u]
    BY <1>a, <2>1
  <2>4. Films!TypeOK'
    BY <1>a, <2>1, <2>2 DEF Films!TypeOK, TypeSessions, TypeThreads
  <2>5. threads[t].of = Films!NoOne
    BY <1>a, <2>1 DEF Films!ThreadSound
  <2>6. ASSUME NEW s \in Sessions, sessions'[s].state = "playing"
        PROVE  Played(s)'
    <3>1. Played(s) /\ threads[t].of # s
      BY <1>a, <1>c, <2>1, <2>5, <2>6
    <3>2. starting = s => threads'[t].of = s /\ Films!Alive(t)'
      BY <2>2, <2>3 DEF Films!Alive
    <3>3. \A u \in Threads : threads[u].of = s => threads'[u] = threads[u]
      BY <2>3, <3>1
    <3> QED
      BY <3>1, <3>2, <3>3 DEF Films!Alive, Films!Playing, Films!Died
  <2>7. ASSUME NEW u \in Threads
        PROVE  Films!ThreadSound(u)'
    BY <1>a, <2>1, <2>2, <2>3
    DEF Films!ThreadSound, Films!Playing, Films!Errors, Films!Created, Films!ZonesMix
  <2>8. \A s \in Sessions : Films!DateSound(s)'
    BY <1>a, <2>1 DEF Films!DateSound, Films!Created
  <2> QED
    BY <1>b, <2>1, <2>4, <2>6, <2>7, <2>8
<1>8. ASSUME NEW t \in Threads,
             Films!Begin(t) \/ Films!LoopHead(t) \/ Films!ShowBar(t) \/ Films!Rest(t)
      PROVE  Films!IInv'
  <2>0. /\ threads[t] \in TypeThreads /\ threads[t].of \in Sessions \cup {Films!NoOne}
        /\ threads[t].next \in Int /\ Films!ThreadSound(t)
    BY <1>a DEF TypeThreads
  <2>1. CASE Films!Begin(t)
    <3> DEFINE new == [threads[t] EXCEPT !.at = IF bars = Films!NoBars THEN "end" ELSE "loop",
                                         !.next = bars.range[1]]
    <3>1. /\ threads[t].at = "born" /\ threads' = [threads EXCEPT ![t] = new]
          /\ UNCHANGED <<sessions, bars, stopFlag, starting>>
      BY <2>1 DEF Films!Begin
    <3>2. /\ new \in TypeThreads /\ new.of = threads[t].of
          /\ new.at = IF bars = Films!NoBars THEN "end" ELSE "loop"
      BY <1>c, <2>0 DEF TypeThreads, Films!Stands
    <3> HIDE DEF new
    <3>3. Films!Alive(t)
      BY <3>1 DEF Films!Alive
    <3> QED
      BY <1>a, <1>e, <3>1, <3>2, <3>3
  <2>2. CASE Films!LoopHead(t)
    <3> DEFINE new == Films!AtHead(threads[t])
    <3>1. /\ threads[t].at = "loop" /\ threads' = [threads EXCEPT ![t] = new]
          /\ UNCHANGED <<sessions, bars, stopFlag, starting>>
      BY <2>2 DEF Films!LoopHead
    <3>2. \/ new = [threads[t] EXCEPT !.at = "end"]
          \/ /\ new = [threads[t] EXCEPT !.at = "zones differ"]
             /\ sessions[threads[t].of].zone # bars.zone
          \/ new = [threads[t] EXCEPT !.next = @ + 1]
          \/ new = [threads[t] EXCEPT !.at = "show"]
      BY Zenon DEF Films!AtHead
    <3> HIDE DEF new
    <3>3. /\ new \in TypeThreads /\ new.of = threads[t].of
          /\ new.at \in {"loop", "show", "end", "zones differ"}
          /\ new.at = "zones differ" => sessions[threads[t].of].zone # bars.zone
      <4>1. CASE new = [threads[t] EXCEPT !.at = "end"]
        BY <2>0, <4>1 DEF TypeThreads, Films!Stands
      <4>2. CASE /\ new = [threads[t] EXCEPT !.at = "zones differ"]
                 /\ sessions[threads[t].of].zone # bars.zone
        BY <2>0, <4>2 DEF TypeThreads, Films!Stands, Films!Errors
      <4>3. CASE new = [threads[t] EXCEPT !.next = @ + 1]
        <5>1. threads[t].next + 1 \in Int
          BY <2>0
        <5>2. new \in TypeThreads /\ new.of = threads[t].of /\ new.at = threads[t].at
          BY <2>0, <4>3, <5>1 DEF TypeThreads
        <5> QED
          BY <3>1, <5>2
      <4>4. CASE new = [threads[t] EXCEPT !.at = "show"]
        BY <2>0, <4>4 DEF TypeThreads, Films!Stands
      <4> QED
        BY <3>2, <4>1, <4>2, <4>3, <4>4
    <3>4. /\ Films!Alive(t) /\ bars # Films!NoBars /\ threads[t].of \in Sessions
          /\ Films!Created(threads[t].of)
      BY <2>0, <3>1 DEF Films!Alive, Films!Playing, Films!ThreadSound
    <3>5. new.at = "zones differ" => Films!ZonesMix(new.of)
      BY <1>a, <3>3, <3>4 DEF Films!DateSound, Films!ZonesMix
    <3> QED
      BY <1>a, <1>e, <3>1, <3>3, <3>4, <3>5 DEF Films!Errors
  <2>3. CASE Films!ShowBar(t)
    <3> DEFINE s == threads[t].of
               at == IF sessions[s].speed = "PAUSED" THEN "loop" ELSE "pause"
               new == [threads[t] EXCEPT !.next = @ + 1, !.at = at]
    <3>1. /\ threads[t].at = "show" /\ threads' = [threads EXCEPT ![t] = new]
          /\ sessions' = [sessions EXCEPT ![s] =
               [sessions[s] EXCEPT !.date = threads[t].next, !.zone = bars.zone]]
          /\ UNCHANGED <<bars, stopFlag, starting>>
      BY <2>3 DEF Films!ShowBar
    <3>2. new \in TypeThreads /\ new.of = threads[t].of /\ new.at \in {"loop", "pause"}
      <4>1. at \in {"loop", "pause"} /\ at \in Films!Stands
        BY DEF Films!Stands
      <4> HIDE DEF at
      <4>2. threads[t].next + 1 \in Int
        BY <2>0
      <4> QED
        BY <2>0, <4>1, <4>2 DEF TypeThreads
    <3>3. Films!Alive(t) /\ bars # Films!NoBars
      BY <2>0, <3>1 DEF Films!Alive, Films!Playing, Films!ThreadSound
    <3>4. sessions' \in [Sessions -> TypeSessions]
      BY <1>a, <2>0, <3>1 DEF TypeSessions
    <3>5. \A r \in Sessions : /\ sessions'[r].of = sessions[r].of
                              /\ sessions'[r].state = sessions[r].state
                              /\ sessions'[r].speed = sessions[r].speed
                              /\ \/ sessions'[r].zone = sessions[r].zone
                                 \/ bars # Films!NoBars /\ sessions'[r].zone = bars.zone
      BY <1>a, <3>1, <3>3 DEF TypeSessions
    <3> HIDE DEF new, s
    <3> QED
      BY <1>e, <3>1, <3>2, <3>3, <3>4, <3>5
  <2>4. CASE Films!Rest(t)
    <3> DEFINE new == [threads[t] EXCEPT !.at =
                         IF sessions[threads[t].of].speed = "PAUSED" THEN "divided by 0"
                         ELSE "loop"]
    <3>1. /\ threads[t].at = "pause" /\ threads' = [threads EXCEPT ![t] = new]
          /\ UNCHANGED <<sessions, bars, stopFlag, starting>>
      BY <2>4 DEF Films!Rest
    <3>2. /\ new \in TypeThreads /\ new.of = threads[t].of /\ new.at \in {"loop", "divided by 0"}
      BY <2>0 DEF TypeThreads, Films!Stands, Films!Errors
    <3> HIDE DEF new
    <3>3. Films!Alive(t) /\ bars # Films!NoBars
      BY <2>0, <3>1 DEF Films!Alive, Films!Playing, Films!ThreadSound
    <3> QED
      BY <1>a, <1>e, <3>1, <3>2, <3>3 DEF Films!Errors
  <2> QED
    BY <1>8, <2>1, <2>2, <2>3, <2>4
<1>9. ASSUME NEW t \in Threads, Films!LoopEnds(t)
      PROVE  Films!IInv'
  <2> DEFINE s == threads[t].of
             new == [threads[t] EXCEPT !.at = "done"]
  <2>0. /\ threads[t] \in TypeThreads /\ s \in Sessions \cup {Films!NoOne}
        /\ Films!ThreadSound(t)
    BY <1>a DEF TypeThreads
  <2>1. /\ threads[t].at = "end" /\ threads' = [threads EXCEPT ![t] = new]
        /\ sessions' = [sessions EXCEPT ![s].state = "finished"]
        /\ UNCHANGED <<bars, stopFlag, starting>>
    BY <1>9 DEF Films!LoopEnds, Films!AtLoopEnd
  <2>2. s \in Sessions /\ Films!Created(s) /\ s # Films!NoOne
    BY <2>0, <2>1 DEF Films!ThreadSound
  <2>3. new \in TypeThreads /\ new.of = s /\ new.at = "done"
    BY <2>0 DEF TypeThreads, Films!Stands
  <2> HIDE DEF new
  <2>4. \A u \in Threads : threads'[u] = IF u = t THEN new ELSE threads[u]
    BY <1>a, <2>1
  <2>5. \A r \in Sessions :
          /\ sessions'[r].of = sessions[r].of /\ sessions'[r].zone = sessions[r].zone
          /\ sessions'[r].state = IF r = s THEN "finished" ELSE sessions[r].state
    BY <1>a, <2>1, <2>2 DEF TypeSessions
  <2>6. sessions' \in [Sessions -> TypeSessions]
    BY <1>a, <2>1, <2>2 DEF TypeSessions, Films!States
  <2>7. Films!TypeOK'
    BY <1>a, <2>1, <2>3, <2>6 DEF Films!TypeOK, TypeSessions, TypeThreads
  <2> HIDE DEF s
  <2>8. \A r \in Sessions : Films!Created(r)' <=> Films!Created(r)
    BY <2>2, <2>5 DEF Films!Created, Films!None
  <2>9. ASSUME NEW r \in Sessions, sessions'[r].state = "playing"
        PROVE  Played(r)'
    <3>1. r # s /\ Played(r)
      BY <1>a, <2>5, <2>9
    <3>2. \A u \in Threads : threads[u].of = r => threads'[u] = threads[u]
      BY <2>4, <3>1 DEF s
    <3> QED
      BY <2>1, <3>1, <3>2 DEF Films!Alive, Films!Playing, Films!Died
  <2>10. \A u \in Threads : threads[u].of \in Sessions \cup {Films!NoOne}
    BY <1>a DEF TypeThreads
  <2>11. ASSUME NEW u \in Threads
         PROVE  Films!ThreadSound(u)'
    <3>1. CASE u = t
      <4>1. threads'[u] = new
        BY <2>4, <3>1
      <4> QED
        BY <2>2, <2>3, <2>8, <4>1 DEF Films!ThreadSound, Films!Playing, Films!Errors
    <3>2. CASE u # t
      <4>1. threads'[u] = threads[u] /\ Films!ThreadSound(u)
            /\ threads[u].of \in Sessions \cup {Films!NoOne}
        BY <1>a, <2>4, <2>10, <3>2
      <4> QED
        BY <2>1, <2>5, <2>8, <4>1
        DEF Films!ThreadSound, Films!Playing, Films!Errors, Films!ZonesMix
    <3> QED
      BY <3>1, <3>2
  <2>12. \A r \in Sessions : Films!DateSound(r)'
    BY <1>a, <2>1, <2>5, <2>8 DEF Films!DateSound
  <2>13. starting' # Films!NoOne => Films!Created(starting)'
    BY <1>a, <2>1, <2>8
  <2> QED
    BY <1>b, <2>7, <2>9, <2>11, <2>12, <2>13
<1> QED
  BY <1>1, <1>2, <1>3, <1>4, <1>5, <1>6, <1>7, <1>8, <1>9
  DEF Films!Next, Films!ThreadSteps, Films!Pause, Films!Stop

\* Of the replays, for any sessions, threads and requests: whatever the shared stop flag
\* ends, none is left playing without a thread but by one of its threads that died, of
\* a speed that became PAUSED or of time zones that differ.
THEOREM PlayingIsAlwaysPlayed == PlatformSpec => []Films!PlayingIsPlayed
<1>1. PlatformInit => Films!IInv
  <2>1. PlatformInit => Films!Init
    BY DEF PlatformInit
  <2>2. Films!Init => Films!IInv
    <3> SUFFICES ASSUME Films!Init
                 PROVE  Films!IInv
      OBVIOUS
    <3>1. /\ \A s \in Sessions : sessions[s] = Films!NoSession
          /\ \A t \in Threads : threads[t] = Films!NoThread
      BY DEF Films!Init
    <3>2. Films!TypeOK
      <4>1. sessions \in [Sessions -> [of : Requests \cup {Films!NoRequest}, date : Int,
                 zone : Films!Zones \cup {Films!None}, state : Films!States, speed : Films!Speeds]]
        BY DEF Films!Init, Films!NoSession, Films!States, Films!Speeds
      <4>2. threads \in [Threads -> [of : Sessions \cup {Films!NoOne}, next : Int, at : Films!Stands]]
        BY DEF Films!Init, Films!NoThread, Films!Stands
      <4>3. /\ bars \in [range : {r.range : r \in Requests} \cup {Films!NoBars.range},
                         zone : Films!Zones \cup {Films!None}]
            /\ stopFlag \in BOOLEAN /\ starting \in Sessions \cup {Films!NoOne}
        BY DEF Films!Init, Films!NoBars
      <4> QED
        BY <4>1, <4>2, <4>3 DEF Films!TypeOK
    <3>3. /\ \A s \in Sessions : sessions[s].state = "none"
          /\ \A t \in Threads : threads[t].of = Films!NoOne /\ threads[t].at = "unborn"
      BY <3>1 DEF Films!NoSession, Films!NoThread, Films!None
    <3>3a. Films!PlayingIsPlayed
      BY <3>3 DEF Films!PlayingIsPlayed
    <3>4. \A t \in Threads : Films!ThreadSound(t)
      BY <3>3 DEF Films!ThreadSound, Films!Playing, Films!Errors
    <3>5. \A s \in Sessions : Films!DateSound(s)
      BY <3>1 DEF Films!DateSound, Films!Created, Films!NoSession
    <3> QED
      BY <3>2, <3>3a, <3>4, <3>5 DEF Films!IInv, Films!Init
  <2> QED
    BY <2>1, <2>2
<1>2. Films!IInv /\ [PlatformNext]_platformVars => Films!IInv'
  <2> SUFFICES ASSUME Films!IInv, [PlatformNext]_platformVars
               PROVE  Films!IInv'
    OBVIOUS
  <2>1. [Films!Next]_replayVars
    BY DEF PlatformNext, Only, platformVars
  <2> QED
    BY <2>1, FilmsStepKeeps
<1>3. Films!IInv => Films!PlayingIsPlayed
  BY DEF Films!IInv
<1> QED
  BY <1>1, <1>2, <1>3, PTL DEF PlatformSpec

-----------------------------------------------------------------------------
(* The streaming of ticks.                                                 *)

Bars == [minute : Int, ticks : Nat]

(* Whoever is told something has an event; what ticks and bars are counted *)
(* is inductive then.                                                      *)
StreamIInv ==
    /\ ticks \in Nat
    /\ open \in [Timeframes -> Bars]
    /\ completed \in [Timeframes -> Seq(Bars)]
    /\ listeners \subseteq Callbacks
    /\ events \in [Publishers -> SUBSET ({0} \cup Timeframes)]
    /\ telling \in [Publishers -> SUBSET Callbacks]
    /\ forgotten \in [Timeframes -> [bars : Nat, ticks : Int]]
    /\ told \in [Timeframes -> Nat]
    /\ \A p \in Publishers : events[p] = {} => telling[p] = {}
    /\ Stream!TicksAreBarred

\* The counts and sums of the stream are those of finite sets.
LEMMA StreamCounts ==
    /\ \A S : Stream!IsFiniteSet(S) <=> IsFiniteSet(S)
    /\ \A S : Stream!Cardinality(S) = Cardinality(S)
    /\ \A f, S : Stream!SumFunctionOnSet(f, S) = SumFunctionOnSet(f, S)
<1>1. \A S : Stream!IsFiniteSet(S) <=> IsFiniteSet(S)
  BY Zenon DEF Stream!IsFiniteSet, IsFiniteSet
<1>2. \A S : Stream!Cardinality(S) = Cardinality(S)
  BY Zenon DEF Stream!Cardinality, Cardinality
<1>3. \A f, S : Stream!SumFunctionOnSet(f, S) = SumFunctionOnSet(f, S)
  BY Zenon DEF Stream!SumFunctionOnSet, Stream!FoldFunctionOnSet, Stream!MapThenFoldSet,
     SumFunctionOnSet, FoldFunctionOnSet, MapThenFoldSet
<1> QED
  BY <1>1, <1>2, <1>3

\* Of what a publisher has to tell, the least comes next.
LEMMA LeastIsUpcoming ==
    ASSUME Stream!StreamConstants, StreamIInv, NEW p \in Publishers, events[p] # {}
    PROVE  Stream!Upcoming(p) \in events[p]
<1>1. events[p] \in SUBSET Nat
  BY DEF StreamIInv, Stream!StreamConstants
<1>2. \E e \in events[p] : \A f \in events[p] : e <= f
  BY <1>1, LeastNatural
<1> QED
  BY <1>2 DEF Stream!Upcoming

\* A publisher more or less that has a bar to tell.
LEMMA UntoldChanges ==
    ASSUME NEW S \in SUBSET Publishers, IsFiniteSet(Publishers), NEW p \in Publishers
    PROVE  /\ Cardinality(S) \in Nat
           /\ Cardinality(S \cup {p}) = Cardinality(S) + (IF p \in S THEN 0 ELSE 1)
           /\ Cardinality(S \ {p}) = Cardinality(S) - (IF p \in S THEN 1 ELSE 0)
<1>1. IsFiniteSet(S)
  BY FS_Subset
<1>2. Cardinality(S) \in Nat
  BY <1>1, FS_CardinalityType
<1>3. Cardinality(S \cup {p}) = Cardinality(S) + (IF p \in S THEN 0 ELSE 1)
  <2>1. CASE p \in S
    <3>1. S \cup {p} = S
      BY <2>1
    <3> QED
      BY <1>2, <2>1, <3>1
  <2>2. CASE p \notin S
    BY <1>1, <2>2, FS_AddElement
  <2> QED
    BY <2>1, <2>2
<1>4. Cardinality(S \ {p}) = Cardinality(S) - (IF p \in S THEN 1 ELSE 0)
  <2>1. CASE p \notin S
    <3>1. S \ {p} = S
      BY <2>1
    <3> QED
      BY <1>2, <2>1, <3>1
  <2>2. CASE p \in S
    BY <1>1, <2>2, FS_RemoveElement
  <2> QED
    BY <2>1, <2>2
<1> QED
  BY <1>2, <1>3, <1>4

\* A bar more brings its ticks.
LEMMA TicksOfOneMore ==
    ASSUME NEW s \in Seq(Bars), NEW bar \in Bars
    PROVE  /\ Stream!TicksIn(s) \in Int
           /\ Stream!TicksIn(Append(s, bar)) = Stream!TicksIn(s) + bar.ticks
<1> DEFINE f == [i \in DOMAIN s |-> s[i].ticks]
           k == [i \in DOMAIN Append(s, bar) |-> Append(s, bar)[i].ticks]
           n == Len(s)
<1>1. n \in Nat /\ DOMAIN s = 1..n /\ DOMAIN Append(s, bar) = (1..n) \cup {n + 1}
      /\ n + 1 \notin 1..n /\ IsFiniteSet(1..n)
  <2>1. n \in Nat /\ DOMAIN s = 1..n /\ DOMAIN Append(s, bar) = 1..(n + 1)
    OBVIOUS
  <2>2. 1..(n + 1) = (1..n) \cup {n + 1} /\ n + 1 \notin 1..n
    BY <2>1, OneNumberMore
  <2>3. IsFiniteSet(1..n)
    BY <2>1, FS_Interval
  <2> QED
    BY <2>1, <2>2, <2>3
<1>2. \A i \in 1..n : s[i] \in Bars /\ Append(s, bar)[i] = s[i]
  BY <1>1
<1>3. Append(s, bar)[n + 1] = bar /\ bar.ticks \in Int
  BY DEF Bars
<1>4. \A i \in 1..n : f[i] \in Int /\ k[i] = f[i]
  BY <1>1, <1>2 DEF Bars
<1>5. k[n + 1] = bar.ticks
  BY <1>1, <1>3
<1>6. Stream!TicksIn(s) = SumFunctionOnSet(f, 1..n)
  BY <1>1, StreamCounts DEF Stream!TicksIn
<1>7. Stream!TicksIn(Append(s, bar)) = SumFunctionOnSet(k, (1..n) \cup {n + 1})
  BY <1>1, StreamCounts DEF Stream!TicksIn
<1>10. k[n + 1] \in Int /\ \A i \in 1..n : f[i] \in Int /\ k[i] = f[i]
  BY <1>3, <1>4, <1>5
<1> HIDE DEF f, k, n
<1>8. SumFunctionOnSet(f, 1..n) \in Int
  BY <1>1, <1>4, SumInt
<1>9. SumFunctionOnSet(k, (1..n) \cup {n + 1}) = SumFunctionOnSet(f, 1..n) + k[n + 1]
  <2> DEFINE S == 1..n
             x == n + 1
  <2>1. IsFiniteSet(S) /\ x \notin S /\ k[x] \in Int /\ \A i \in S : f[i] \in Int /\ k[i] = f[i]
    BY <1>1, <1>10
  <2> HIDE DEF S, x
  <2>2. SumFunctionOnSet(k, S \cup {x}) = SumFunctionOnSet(f, S) + k[x]
    BY ONLY <2>1, SumGains
  <2> QED
    BY ONLY <2>2 DEF S, x
<1> QED
  BY <1>5, <1>6, <1>7, <1>8, <1>9

\* The oldest bar takes its ticks away.
LEMMA TicksOfOneLess ==
    ASSUME NEW s \in Seq(Bars), Len(s) > 0
    PROVE  /\ Tail(s) \in Seq(Bars) /\ Len(Tail(s)) = Len(s) - 1 /\ Head(s) \in Bars
           /\ Stream!TicksIn(Tail(s)) = Stream!TicksIn(s) - Head(s).ticks
<1> DEFINE n == Len(s)
           f == [i \in DOMAIN s |-> s[i].ticks]
           k == [i \in DOMAIN Tail(s) |-> Tail(s)[i].ticks]
           h == [a \in 0..(n - 1) |-> s[a + 1].ticks]
<1>1. /\ n \in Nat /\ n > 0 /\ DOMAIN s = 1..n /\ DOMAIN Tail(s) = 1..(n - 1)
      /\ Tail(s) \in Seq(Bars) /\ Len(Tail(s)) = n - 1 /\ Head(s) = s[1]
      /\ \A i \in 1..n : s[i] \in Bars
      /\ \A i \in 1..(n - 1) : Tail(s)[i] = s[i + 1]
  OBVIOUS
<1>2. \A i \in 1..n : s[i].ticks \in Int
  BY <1>1 DEF Bars
<1>3. /\ \A a \in 0..(n - 1) : h[a] \in Int /\ f[a + 1] = h[a]
      /\ \A i \in 1..(n - 1) : h[i] \in Int /\ h[i] = k[i]
      /\ h[0] = Head(s).ticks
  BY <1>1, <1>2
<1>4. Stream!TicksIn(s) = SumFunctionOnSet(f, 1..n)
      /\ Stream!TicksIn(Tail(s)) = SumFunctionOnSet(k, 1..(n - 1))
  BY <1>1, StreamCounts DEF Stream!TicksIn
<1> HIDE DEF f, k, h, n
<1>5. SumFunctionOnSet(f, 1..n) = SumFunctionOnSet(h, 0..(n - 1))
  BY <1>1, <1>3, SumShifts
<1>6. SumFunctionOnSet(h, 0..(n - 1)) = h[0] + SumFunctionOnSet(h, 1..(n - 1))
  <2> DEFINE S == 1..(n - 1)
  <2>1. 0..(n - 1) = S \cup {0} /\ 0 \notin S /\ IsFiniteSet(S)
        /\ \A a \in S \cup {0} : h[a] \in Int
    <3>1. 0..(n - 1) = S \cup {0} /\ 0 \notin S
      BY <1>1
    <3>2. IsFiniteSet(S)
      BY <1>1, FS_Interval
    <3> QED
      BY <1>3, <3>1, <3>2
  <2> HIDE DEF S
  <2>2. SumFunctionOnSet(h, S \cup {0}) = h[0] + SumFunctionOnSet(h, S)
    BY ONLY <2>1, SumAdds
  <2> QED
    BY ONLY <2>1, <2>2 DEF S
<1>7. SumFunctionOnSet(h, 1..(n - 1)) = SumFunctionOnSet(k, 1..(n - 1))
      /\ SumFunctionOnSet(h, 1..(n - 1)) \in Int
  <2>1. IsFiniteSet(1..(n - 1))
    BY <1>1, FS_Interval
  <2> QED
    BY <1>3, <2>1, SumSame, SumInt
<1>8. h[0] \in Int
  BY <1>1, <1>3
<1> QED
  BY <1>1, <1>3, <1>4, <1>5, <1>6, <1>7, <1>8 DEF n

\* No bars have no ticks.
LEMMA TicksOfNone == Stream!TicksIn(<<>>) = 0
<1>1. DOMAIN <<>> = {}
  OBVIOUS
<1> QED
  BY <1>1, StreamCounts, SumEmpty DEF Stream!TicksIn

\* Nothing was published when the stream begins.
LEMMA StreamStarts == ASSUME Stream!StreamConstants, Stream!Init PROVE StreamIInv
<1>1. ASSUME NEW tf \in Timeframes
      PROVE  /\ ticks = forgotten[tf].ticks + Stream!TicksIn(completed[tf]) + open[tf].ticks
             /\ forgotten[tf].bars + Len(completed[tf]) = told[tf] + Stream!Cardinality(Stream!Untold(tf))
             /\ Len(completed[tf]) <= MaxBars
  <2>1. Stream!Untold(tf) = {}
    BY DEF Stream!Init, Stream!Untold
  <2>2. Stream!Cardinality(Stream!Untold(tf)) = 0
    BY <2>1, StreamCounts, FS_EmptySet
  <2>3. Len(completed[tf]) = 0 /\ completed[tf] = <<>>
    BY DEF Stream!Init
  <2> QED
    BY <2>2, <2>3, TicksOfNone DEF Stream!Init, Stream!NoBar, Stream!StreamConstants
<1>2. Stream!TicksAreBarred
  BY <1>1 DEF Stream!TicksAreBarred
<1> QED
  BY <1>2 DEF StreamIInv, Stream!Init, Stream!NoBar, Bars

\* A tick is counted by the open bar or opens one; a bar it completes is to be told.
LEMMA PublishKeeps ==
    ASSUME Stream!StreamConstants, StreamIInv, NEW p \in Publishers,
           NEW minute \in 0..LastMinute, Stream!PublishTick(p, minute)
    PROVE  StreamIInv'
<1> DEFINE new == {tf \in Timeframes : Stream!Completes(tf, minute)}
           full == {tf \in new : Len(completed[tf]) = MaxBars}
<1>1. /\ events[p] = {} /\ events' = [events EXCEPT ![p] = {0} \cup new] /\ ticks' = ticks + 1
      /\ open' = [tf \in Timeframes |-> Stream!AddTick(tf, minute)]
      /\ completed' = [tf \in Timeframes |->
           IF tf \in full THEN Append(Tail(completed[tf]), open[tf])
           ELSE IF tf \in new THEN Append(completed[tf], open[tf]) ELSE completed[tf]]
      /\ forgotten' = [tf \in Timeframes |->
           IF tf \in full THEN [bars |-> forgotten[tf].bars + 1,
                                ticks |-> forgotten[tf].ticks + Head(completed[tf]).ticks]
           ELSE forgotten[tf]]
      /\ UNCHANGED <<listeners, telling, told>>
  BY DEF Stream!PublishTick
<1>2. telling[p] = {} /\ telling'[p] = {}
  BY <1>1 DEF StreamIInv
<1>3. events'[p] = {0} \cup new /\ \A q \in Publishers \ {p} : events'[q] = events[q]
  BY <1>1 DEF StreamIInv
<1>4. \A q \in Publishers \ {p} : Stream!Upcoming(q)' = Stream!Upcoming(q)
  BY <1>3 DEF Stream!Upcoming
<1>5. ASSUME NEW tf \in Timeframes
      PROVE  /\ open'[tf] \in Bars /\ completed'[tf] \in Seq(Bars)
             /\ ticks' = forgotten'[tf].ticks + Stream!TicksIn(completed'[tf]) + open'[tf].ticks
             /\ forgotten'[tf].bars + Len(completed'[tf])
                  = told'[tf] + Stream!Cardinality(Stream!Untold(tf)')
             /\ Len(completed'[tf]) <= MaxBars /\ forgotten'[tf] \in [bars : Nat, ticks : Int]
  <2> DEFINE U == Stream!Untold(tf)
  <2>1. /\ open[tf] \in Bars /\ open[tf].ticks \in Nat /\ completed[tf] \in Seq(Bars)
        /\ forgotten[tf].ticks \in Int /\ forgotten[tf].bars \in Nat /\ told[tf] \in Nat
        /\ ticks \in Nat /\ MaxBars \in Nat \ {0} /\ forgotten[tf] \in [bars : Nat, ticks : Int]
    BY DEF StreamIInv, Bars, Stream!StreamConstants
  <2>2. /\ ticks = forgotten[tf].ticks + Stream!TicksIn(completed[tf]) + open[tf].ticks
        /\ forgotten[tf].bars + Len(completed[tf]) = told[tf] + Cardinality(U)
        /\ Len(completed[tf]) <= MaxBars
    BY StreamCounts DEF StreamIInv, Stream!TicksAreBarred
  <2>3. U \in SUBSET Publishers /\ p \notin U
    BY <1>1 DEF Stream!Untold
  <2>4. IsFiniteSet(Publishers)
    BY StreamCounts DEF Stream!StreamConstants
  <2>5. minute \in Int /\ tf \in Nat \ {0}
    BY DEF Stream!StreamConstants
  <2>6. Stream!BarKey(tf, minute) \in Int
    <3>1. \A m \in Int, t \in Nat \ {0} : (m \div t) * t \in Int
      OBVIOUS
    <3> QED
      BY <2>5, <3>1 DEF Stream!BarKey
  <2>7. Stream!TicksIn(completed[tf]) \in Int
        /\ Stream!TicksIn(Append(completed[tf], open[tf]))
             = Stream!TicksIn(completed[tf]) + open[tf].ticks
    BY <2>1, TicksOfOneMore
  <2>8. /\ Cardinality(U) \in Nat /\ Cardinality(U \cup {p}) = Cardinality(U) + 1
    BY <2>3, <2>4, UntoldChanges
  <2>9. open'[tf] = Stream!AddTick(tf, minute)
    BY <1>1
  <2>10. CASE tf \in new
    <3> DEFINE was == IF tf \in full THEN Tail(completed[tf]) ELSE completed[tf]
               gone == IF tf \in full THEN 1 ELSE 0
    <3>1. open'[tf].ticks = 1 /\ open'[tf] \in Bars
      BY <2>6, <2>9, <2>10 DEF Stream!AddTick, Bars
    <3>2. completed'[tf] = Append(was, open[tf])
      BY <1>1, <2>10
    <3>3. /\ was \in Seq(Bars) /\ Len(was) = Len(completed[tf]) - gone /\ Len(completed[tf]) \in Nat
          /\ Stream!TicksIn(was) \in Int
          /\ forgotten'[tf].ticks + Stream!TicksIn(was)
               = forgotten[tf].ticks + Stream!TicksIn(completed[tf])
          /\ forgotten'[tf].bars = forgotten[tf].bars + gone
          /\ forgotten'[tf] \in [bars : Nat, ticks : Int] /\ Len(was) < MaxBars
      <4>1. CASE tf \in full
        <5>1. Len(completed[tf]) > 0 /\ Len(completed[tf]) = MaxBars
          BY <2>1, <4>1
        <5>2. /\ was = Tail(completed[tf]) /\ was \in Seq(Bars) /\ Len(was) = Len(completed[tf]) - 1
              /\ Head(completed[tf]).ticks \in Nat
              /\ Stream!TicksIn(was) = Stream!TicksIn(completed[tf]) - Head(completed[tf]).ticks
          BY <2>1, <4>1, <5>1, TicksOfOneLess DEF Bars
        <5>3. forgotten'[tf] = [bars |-> forgotten[tf].bars + 1,
                                ticks |-> forgotten[tf].ticks + Head(completed[tf]).ticks]
          BY <1>1, <4>1
        <5>4. gone = 1
          BY <4>1
        <5>5. forgotten'[tf].bars = forgotten[tf].bars + 1 /\ forgotten'[tf].bars \in Nat
          BY <2>1, <5>3
        <5>6. /\ forgotten'[tf].ticks = forgotten[tf].ticks + Head(completed[tf]).ticks
              /\ forgotten'[tf].ticks \in Int
          BY <2>1, <5>2, <5>3
        <5>7. forgotten'[tf] \in [bars : Nat, ticks : Int]
          BY ONLY <5>3, <5>5, <5>6
        <5>8. Len(completed[tf]) \in Nat
          BY <2>1
        <5> HIDE DEF full, was, gone
        <5>9. forgotten'[tf].ticks + Stream!TicksIn(was)
                = forgotten[tf].ticks + Stream!TicksIn(completed[tf])
              /\ Stream!TicksIn(was) \in Int
          BY ONLY <2>1, <2>7, <5>2, <5>6
        <5>10. Len(was) = Len(completed[tf]) - gone /\ Len(was) < MaxBars
          BY ONLY <2>1, <5>1, <5>2, <5>4, <5>8
        <5> QED
          BY ONLY <5>2, <5>4, <5>5, <5>7, <5>8, <5>9, <5>10
      <4>2. CASE tf \notin full
        <5>1. /\ was = completed[tf] /\ gone = 0 /\ forgotten'[tf] = forgotten[tf]
              /\ Len(completed[tf]) # MaxBars
          BY <1>1, <2>10, <4>2
        <5> HIDE DEF full, was, gone
        <5> QED
          BY <2>1, <2>2, <2>7, <5>1
      <4> QED
        BY <4>1, <4>2
    <3>3a. gone \in Int
      OBVIOUS
    <3>4. Stream!Untold(tf)' = U \cup {p}
      BY <1>1, <1>2, <1>3, <1>4, <2>10 DEF Stream!Untold
    <3>5. Stream!Cardinality(Stream!Untold(tf)') = Cardinality(U) + 1
      BY <2>8, <3>4, StreamCounts
    <3> HIDE DEF was, gone
    <3>6. Stream!TicksIn(completed'[tf]) = Stream!TicksIn(was) + open[tf].ticks
      BY <2>1, <3>2, <3>3, TicksOfOneMore
    <3>7. ticks' = ticks + 1 /\ told'[tf] = told[tf]
      BY <1>1
    <3>8. Len(completed'[tf]) = Len(was) + 1 /\ completed'[tf] \in Seq(Bars) /\ Len(was) \in Nat
      BY <2>1, <3>2, <3>3
    <3> HIDE DEF U, new, full
    <3>9. ticks' = forgotten'[tf].ticks + Stream!TicksIn(completed'[tf]) + open'[tf].ticks
      <4>1. forgotten'[tf].ticks \in Int /\ Stream!TicksIn(completed[tf]) \in Int
        BY ONLY <2>7, <3>3
      <4> QED
        BY ONLY <2>1, <2>2, <3>1, <3>3, <3>6, <3>7, <4>1
    <3>10. forgotten'[tf].bars + Len(completed'[tf])
             = told'[tf] + Stream!Cardinality(Stream!Untold(tf)')
      <4>1. /\ forgotten[tf].bars \in Int /\ told[tf] \in Int /\ Len(completed[tf]) \in Int
            /\ Cardinality(U) \in Int
            /\ forgotten[tf].bars + Len(completed[tf]) = told[tf] + Cardinality(U)
        BY ONLY <2>1, <2>2, <2>8, <3>3
      <4>2. /\ Len(completed'[tf]) = Len(completed[tf]) - gone + 1
            /\ Stream!Cardinality(Stream!Untold(tf)') = Cardinality(U) + 1
            /\ forgotten'[tf].bars = forgotten[tf].bars + gone /\ told'[tf] = told[tf]
        BY ONLY <3>3, <3>5, <3>7, <3>8
      <4>3. \A f, c, t, u, g \in Int : f + c = t + u => (f + g) + (c - g + 1) = t + (u + 1)
        OBVIOUS
      <4>4. (forgotten[tf].bars + gone) + (Len(completed[tf]) - gone + 1)
              = told[tf] + (Cardinality(U) + 1)
        BY ONLY <3>3a, <4>1, <4>3
      <4> QED
        BY ONLY <4>2, <4>4
    <3>11. Len(completed'[tf]) <= MaxBars
      BY ONLY <2>1, <3>3, <3>8
    <3> QED
      BY ONLY <3>1, <3>3, <3>8, <3>9, <3>10, <3>11
  <2>11. CASE tf \notin new
    <3>1. open'[tf].ticks = open[tf].ticks + 1 /\ open'[tf] \in Bars
      BY <2>1, <2>6, <2>9, <2>11 DEF Stream!AddTick, Bars
    <3>2. completed'[tf] = completed[tf]
      BY <1>1, <2>11
    <3>3. Stream!Untold(tf)' = U
      <4>1. tf \notin events'[p] /\ tf \notin events[p]
        BY <1>1, <1>3, <2>5, <2>11
      <4> QED
        BY <1>1, <1>3, <1>4, <4>1 DEF Stream!Untold
    <3>4. Stream!Cardinality(Stream!Untold(tf)') = Cardinality(U)
      BY <3>3, StreamCounts
    <3>5. Len(completed[tf]) \in Nat
      BY <2>1
    <3>6. ticks' = ticks + 1 /\ forgotten'[tf] = forgotten[tf] /\ told'[tf] = told[tf]
      BY <1>1, <2>11
    <3>6a. Len(completed'[tf]) <= MaxBars /\ forgotten'[tf] \in [bars : Nat, ticks : Int]
      BY <2>1, <2>2, <3>2, <3>6
    <3> HIDE DEF U, new, full
    <3>7. Stream!TicksIn(completed[tf]) \in Int
      BY <2>7
    <3>8. ticks' = forgotten'[tf].ticks + Stream!TicksIn(completed'[tf]) + open'[tf].ticks
      BY ONLY <2>1, <2>2, <3>1, <3>2, <3>6, <3>7
    <3>9. forgotten'[tf].bars + Len(completed'[tf])
            = told'[tf] + Stream!Cardinality(Stream!Untold(tf)')
      BY ONLY <2>1, <2>2, <2>8, <3>2, <3>4, <3>5, <3>6
    <3> QED
      BY ONLY <2>1, <3>1, <3>2, <3>6a, <3>8, <3>9
  <2> QED
    BY <2>10, <2>11
<1>6. Stream!TicksAreBarred'
  BY <1>5 DEF Stream!TicksAreBarred, Stream!TicksIn
<1>6a. forgotten' \in [Timeframes -> [bars : Nat, ticks : Int]]
  <2>1. forgotten' = [tf \in Timeframes |-> forgotten'[tf]]
    BY <1>1
  <2>2. \A tf \in Timeframes : forgotten'[tf] \in [bars : Nat, ticks : Int]
    BY <1>5
  <2> QED
    BY ONLY <2>1, <2>2
<1>7. open' \in [Timeframes -> Bars] /\ completed' \in [Timeframes -> Seq(Bars)]
  <2>1. open' = [tf \in Timeframes |-> open'[tf]]
        /\ completed' = [tf \in Timeframes |-> completed'[tf]]
    BY <1>1
  <2>2. \A tf \in Timeframes : open'[tf] \in Bars /\ completed'[tf] \in Seq(Bars)
    BY <1>5
  <2> QED
    BY ONLY <2>1, <2>2
<1>8. events' \in [Publishers -> SUBSET ({0} \cup Timeframes)]
  BY <1>1 DEF StreamIInv
<1>9. \A q \in Publishers : events'[q] = {} => telling'[q] = {}
  BY <1>1, <1>2, <1>3 DEF StreamIInv
<1>10. ticks' \in Nat
  BY <1>1 DEF StreamIInv
<1> QED
  BY <1>1, <1>6, <1>6a, <1>7, <1>8, <1>9, <1>10 DEF StreamIInv

\* A dispatch that begins is counted; the bar is no longer to be told.
LEMMA DispatchKeeps ==
    ASSUME Stream!StreamConstants, StreamIInv, NEW p \in Publishers, Stream!BeginDispatch(p)
    PROVE  StreamIInv'
<1> DEFINE next == Stream!Upcoming(p)
<1>1. /\ events[p] # {} /\ telling[p] = {} /\ telling' = [telling EXCEPT ![p] = listeners]
      /\ events' = [events EXCEPT ![p] = IF listeners = {} THEN @ \ {next} ELSE @]
      /\ told' = [tf \in Timeframes |-> IF tf = next THEN told[tf] + 1 ELSE told[tf]]
      /\ UNCHANGED <<open, completed, listeners, ticks, forgotten>>
  BY DEF Stream!BeginDispatch
<1>2. next \in events[p]
  BY <1>1, LeastIsUpcoming
<1>3. /\ telling'[p] = listeners
      /\ events'[p] = IF listeners = {} THEN events[p] \ {next} ELSE events[p]
      /\ \A q \in Publishers \ {p} : events'[q] = events[q] /\ telling'[q] = telling[q]
  BY <1>1 DEF StreamIInv
<1>4. \A q \in Publishers \ {p} : Stream!Upcoming(q)' = Stream!Upcoming(q)
  BY <1>3 DEF Stream!Upcoming
<1>5. ASSUME NEW tf \in Timeframes
      PROVE  /\ told'[tf] \in Nat
             /\ forgotten'[tf].bars + Len(completed'[tf])
                  = told'[tf] + Stream!Cardinality(Stream!Untold(tf)')
  <2> DEFINE U == Stream!Untold(tf)
  <2>1. U \in SUBSET Publishers /\ (p \in U <=> tf \in events[p])
    BY <1>1 DEF Stream!Untold
  <2>2. IsFiniteSet(Publishers)
    BY StreamCounts DEF Stream!StreamConstants
  <2>3. Cardinality(U) \in Nat /\ (p \in U => Cardinality(U \ {p}) = Cardinality(U) - 1)
    BY <2>1, <2>2, UntoldChanges
  <2>4. forgotten[tf].bars + Len(completed[tf]) = told[tf] + Cardinality(U) /\ told[tf] \in Nat
    BY StreamCounts DEF StreamIInv, Stream!TicksAreBarred
  <2>5. CASE tf = next
    <3>1. p \in U
      BY <1>2, <2>1, <2>5
    <3>2. ~(tf \in events'[p] /\ (telling'[p] = {} \/ tf # Stream!Upcoming(p)'))
      <4>1. CASE listeners = {}
        BY <1>3, <2>5, <4>1
      <4>2. CASE listeners # {}
        <5>1. events'[p] = events[p] /\ telling'[p] # {}
          BY <1>3, <4>2
        <5>2. Stream!Upcoming(p)' = next
          BY <5>1 DEF Stream!Upcoming
        <5> QED
          BY <2>5, <5>1, <5>2
      <4> QED
        BY <4>1, <4>2
    <3>3. Stream!Untold(tf)' = U \ {p}
      BY <1>3, <1>4, <3>2 DEF Stream!Untold
    <3>4. Stream!Cardinality(Stream!Untold(tf)') = Cardinality(U) - 1
      BY <2>3, <3>1, <3>3, StreamCounts
    <3>5. told'[tf] = told[tf] + 1 /\ UNCHANGED <<forgotten, completed>>
      BY <1>1, <2>5
    <3> HIDE DEF U, next
    <3> QED
      BY ONLY <2>3, <2>4, <3>4, <3>5
  <2>6. CASE tf # next
    <3>1. (tf \in events'[p] /\ (telling'[p] = {} \/ tf # Stream!Upcoming(p)'))
            <=> tf \in events[p]
      <4>1. CASE listeners = {}
        BY <1>3, <2>6, <4>1
      <4>2. CASE listeners # {}
        <5>1. events'[p] = events[p]
          BY <1>3, <4>2
        <5>2. Stream!Upcoming(p)' = next
          BY <5>1 DEF Stream!Upcoming
        <5> QED
          BY <2>6, <5>1, <5>2
      <4> QED
        BY <4>1, <4>2
    <3>2. Stream!Untold(tf)' = U
      BY <1>1, <1>3, <1>4, <3>1 DEF Stream!Untold
    <3>3. told'[tf] = told[tf] /\ UNCHANGED <<forgotten, completed>>
      BY <1>1, <2>6
    <3> QED
      BY <2>4, <3>2, <3>3, StreamCounts
  <2> QED
    BY <2>5, <2>6
<1>6. Stream!TicksAreBarred'
  BY <1>1, <1>5 DEF StreamIInv, Stream!TicksAreBarred, Stream!TicksIn
<1>7. /\ told' \in [Timeframes -> Nat] /\ telling' \in [Publishers -> SUBSET Callbacks]
      /\ events' \in [Publishers -> SUBSET ({0} \cup Timeframes)]
  BY <1>1, <1>5 DEF StreamIInv
<1>8. \A q \in Publishers : events'[q] = {} => telling'[q] = {}
  BY <1>1, <1>3 DEF StreamIInv
<1> QED
  BY <1>1, <1>6, <1>7, <1>8 DEF StreamIInv

\* A call tells what was counted when its dispatch began.
LEMMA CallKeeps ==
    ASSUME Stream!StreamConstants, StreamIInv, NEW p \in Publishers, NEW cb \in Callbacks,
           Stream!Call(p, cb)
    PROVE  StreamIInv'
<1> DEFINE next == Stream!Upcoming(p)
<1>1. /\ cb \in telling[p] /\ telling' = [telling EXCEPT ![p] = @ \ {cb}]
      /\ events' = [events EXCEPT ![p] = IF telling[p] = {cb} THEN @ \ {next} ELSE @]
      /\ UNCHANGED <<open, completed, listeners, ticks, forgotten, told>>
  BY DEF Stream!Call
<1>2. /\ telling'[p] = telling[p] \ {cb}
      /\ events'[p] = IF telling[p] = {cb} THEN events[p] \ {next} ELSE events[p]
      /\ \A q \in Publishers \ {p} : events'[q] = events[q] /\ telling'[q] = telling[q]
  BY <1>1 DEF StreamIInv
<1>3. \A q \in Publishers \ {p} : Stream!Upcoming(q)' = Stream!Upcoming(q)
  BY <1>2 DEF Stream!Upcoming
<1>4. ASSUME NEW tf \in Timeframes
      PROVE  Stream!Untold(tf)' = Stream!Untold(tf)
  <2>1. (tf \in events'[p] /\ (telling'[p] = {} \/ tf # Stream!Upcoming(p)'))
          <=> (tf \in events[p] /\ (telling[p] = {} \/ tf # next))
    <3>1. CASE telling[p] = {cb}
      BY <1>1, <1>2, <3>1
    <3>2. CASE telling[p] # {cb}
      <4>1. events'[p] = events[p] /\ telling'[p] # {} /\ telling[p] # {}
        BY <1>1, <1>2, <3>2
      <4>2. Stream!Upcoming(p)' = next
        BY <4>1 DEF Stream!Upcoming
      <4> QED
        BY <4>1, <4>2
    <3> QED
      BY <3>1, <3>2
  <2> QED
    BY <1>2, <1>3, <2>1 DEF Stream!Untold
<1>5. Stream!TicksAreBarred'
  BY <1>1, <1>4 DEF StreamIInv, Stream!TicksAreBarred, Stream!TicksIn
<1>6. /\ telling' \in [Publishers -> SUBSET Callbacks]
      /\ events' \in [Publishers -> SUBSET ({0} \cup Timeframes)]
  BY <1>1 DEF StreamIInv
<1>7. \A q \in Publishers : events'[q] = {} => telling'[q] = {}
  BY <1>1, <1>2 DEF StreamIInv
<1> QED
  BY <1>1, <1>5, <1>6, <1>7 DEF StreamIInv

\* What is cleared is forgotten with its count.
LEMMA ClearKeeps ==
    ASSUME Stream!StreamConstants, StreamIInv, Stream!ClearSymbol
    PROVE  StreamIInv'
<1>1. /\ forgotten' = [tf \in Timeframes |->
           [bars |-> forgotten[tf].bars + Len(completed[tf]),
            ticks |-> forgotten[tf].ticks + Stream!TicksIn(completed[tf])]]
      /\ completed' = [tf \in Timeframes |-> <<>>]
      /\ UNCHANGED <<open, listeners, events, telling, ticks, told>>
  BY DEF Stream!ClearSymbol
<1>2. ASSUME NEW tf \in Timeframes
      PROVE  /\ forgotten'[tf] \in [bars : Nat, ticks : Int] /\ Len(completed'[tf]) <= MaxBars
             /\ ticks' = forgotten'[tf].ticks + Stream!TicksIn(completed'[tf]) + open'[tf].ticks
             /\ forgotten'[tf].bars + Len(completed'[tf])
                  = told'[tf] + Stream!Cardinality(Stream!Untold(tf)')
  <2>1. /\ completed[tf] \in Seq(Bars) /\ forgotten[tf].ticks \in Int /\ forgotten[tf].bars \in Nat
        /\ open[tf].ticks \in Nat
    BY DEF StreamIInv, Bars
  <2>2. Stream!TicksIn(completed[tf]) \in Int
    <3>1. [minute |-> 0, ticks |-> 0] \in Bars
      BY DEF Bars
    <3> QED
      BY <2>1, <3>1, TicksOfOneMore
  <2>3. Len(completed[tf]) \in Nat
    BY <2>1
  <2>4. completed'[tf] = <<>> /\ Len(completed'[tf]) = 0 /\ Stream!TicksIn(completed'[tf]) = 0
    BY <1>1, TicksOfNone
  <2>5. forgotten'[tf] = [bars |-> forgotten[tf].bars + Len(completed[tf]),
                          ticks |-> forgotten[tf].ticks + Stream!TicksIn(completed[tf])]
    BY <1>1
  <2>6. Stream!Untold(tf)' = Stream!Untold(tf)
    BY <1>1 DEF Stream!Untold, Stream!Upcoming
  <2>7. /\ ticks = forgotten[tf].ticks + Stream!TicksIn(completed[tf]) + open[tf].ticks
        /\ forgotten[tf].bars + Len(completed[tf])
             = told[tf] + Stream!Cardinality(Stream!Untold(tf))
    BY DEF StreamIInv, Stream!TicksAreBarred
  <2>8. UNCHANGED <<open, ticks, told>>
    BY <1>1
  <2>9. ticks' = forgotten'[tf].ticks + Stream!TicksIn(completed'[tf]) + open'[tf].ticks
    BY ONLY <2>1, <2>2, <2>4, <2>5, <2>7, <2>8
  <2>10. forgotten'[tf].bars + Len(completed'[tf])
           = told'[tf] + Stream!Cardinality(Stream!Untold(tf)')
    BY ONLY <2>1, <2>3, <2>4, <2>5, <2>6, <2>7, <2>8
  <2>11. Len(completed'[tf]) <= MaxBars
    BY <2>4 DEF Stream!StreamConstants
  <2> QED
    BY <2>1, <2>2, <2>3, <2>5, <2>9, <2>10, <2>11
<1>3. Stream!TicksAreBarred'
  BY <1>2 DEF Stream!TicksAreBarred, Stream!TicksIn
<1>4. forgotten' \in [Timeframes -> [bars : Nat, ticks : Int]]
      /\ completed' \in [Timeframes -> Seq(Bars)]
  <2>1. <<>> \in Seq(Bars)
    OBVIOUS
  <2>2. forgotten' \in [Timeframes -> [bars : Nat, ticks : Int]]
    <3>1. DOMAIN forgotten' = Timeframes /\ forgotten' = [tf \in Timeframes |-> forgotten'[tf]]
      BY <1>1
    <3>2. \A tf \in Timeframes : forgotten'[tf] \in [bars : Nat, ticks : Int]
      BY <1>2
    <3> QED
      BY ONLY <3>1, <3>2
  <2> QED
    BY <1>1, <2>1, <2>2
<1> QED
  BY <1>1, <1>3, <1>4 DEF StreamIInv

\* Every step of the stream keeps the counts, and so does one beside it.
LEMMA StreamStepKeeps ==
    ASSUME Stream!StreamConstants, StreamIInv, [Stream!Next]_streamVars
    PROVE  StreamIInv'
<1>1. ASSUME NEW cb \in Callbacks, Stream!Subscribe(cb) \/ Stream!Unsubscribe(cb)
      PROVE  StreamIInv'
  <2>1. listeners' \subseteq Callbacks
        /\ UNCHANGED <<open, completed, events, telling, ticks, forgotten, told>>
    BY <1>1 DEF StreamIInv, Stream!Subscribe, Stream!Unsubscribe
  <2>2. Stream!TicksAreBarred' <=> Stream!TicksAreBarred
    BY <2>1 DEF Stream!TicksAreBarred, Stream!TicksIn, Stream!Untold, Stream!Upcoming
  <2> QED
    BY <2>1, <2>2 DEF StreamIInv
<1>2. CASE UNCHANGED streamVars
  <2>1. UNCHANGED <<open, completed, listeners, events, telling, ticks, forgotten, told>>
    BY <1>2 DEF streamVars
  <2>2. Stream!TicksAreBarred' <=> Stream!TicksAreBarred
    BY <2>1 DEF Stream!TicksAreBarred, Stream!TicksIn, Stream!Untold, Stream!Upcoming
  <2> QED
    BY <2>1, <2>2 DEF StreamIInv
<1>3. ASSUME NEW p \in Publishers, NEW minute \in 0..LastMinute, Stream!PublishTick(p, minute)
      PROVE  StreamIInv'
  BY <1>3, PublishKeeps
<1>4. ASSUME NEW p \in Publishers, NEW cb \in Callbacks, Stream!Call(p, cb)
      PROVE  StreamIInv'
  BY <1>4, CallKeeps
<1>5. ASSUME NEW p \in Publishers, Stream!BeginDispatch(p) PROVE StreamIInv'
  BY <1>5, DispatchKeeps
<1>6. CASE Stream!ClearSymbol
  BY <1>6, ClearKeeps
<1> QED
  BY <1>1, <1>2, <1>3, <1>4, <1>5, <1>6 DEF Stream!Next

\* Whichever threads publish, in time or late, and whatever is cleared or displaced
\* in between: in every timeframe each tick is counted by exactly one bar, open, kept
\* or forgotten, and each completed bar is told exactly once.
THEOREM TicksAreAlwaysBarred == PlatformSpec => []TicksAreBarred
<1>0. Stream!StreamConstants
  BY PlatformConstants
<1>1. PlatformInit => StreamIInv
  BY <1>0, StreamStarts DEF PlatformInit
<1>2. StreamIInv /\ [PlatformNext]_platformVars => StreamIInv'
  <2> SUFFICES ASSUME StreamIInv, [PlatformNext]_platformVars PROVE StreamIInv'
    OBVIOUS
  <2>1. [Stream!Next]_streamVars
    BY DEF PlatformNext, Only, platformVars
  <2> QED
    BY <1>0, <2>1, StreamStepKeeps
<1>3. StreamIInv => TicksAreBarred
  BY DEF StreamIInv, TicksAreBarred
<1> QED
  BY <1>1, <1>2, <1>3, PTL DEF PlatformSpec
===============================================================================
