CONSTANTS
    b1 = b1
    b2 = b2
    b3 = b3
    b4 = b4
    e1 = e1
    e2 = e2
    h1 = h1
    h2 = h2
    Callers = {c1, c2}
    FailureThreshold = 2
    SuccessThreshold = 2
    HalfOpenMaxCalls = 2
    Pool <- MCPool
    Events = {e1, e2}
    Handlers = {h1, h2}
    Pairs <- MCPairs
    Priorities = {1, 3, 8}
    MaxQueueSize = 1
    MaxAttempts = 2
    MaxRetries = 1
    Clients = {w1, w2}
    Channels = {ch1, ch2}
    Casts = {k1}
    MaxSubscriptions = 1
    Sessions = {1, 2}
    Threads = {1, 2}
    Requests <- MCRequests
    Paced = {1}
    Publishers = {p1, p2}
    Callbacks = {l1}
    Timeframes = {1, 2}
    MaxBars = 1
    LastMinute = 2
    MaxTicks = 4
SPECIFICATION PlatformSpec
INVARIANTS
    BreakerKeepsCount
    SubscriptionsAgree
    TicksAreBarred
PROPERTIES
    WaitersServed
    EventsAreHandled
    ReplaysRun
CHECK_DEADLOCK FALSE
