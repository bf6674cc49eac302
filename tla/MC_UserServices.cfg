CONSTANTS
    u1 = u1
    h1 = h1
    h2 = h2
    u2 = u2
    u3 = u3
    n1 = n1
    n2 = n2
    n3 = n3
    q1 = q1
    q2 = q2
    q3 = q3
    q4 = q4
    w1 = w1
    w2 = w2
    Holders = {m1}
    Members = {m1, m2}
    Amounts = {1, 2}
    MaxBookings = 4
    Ids = {t1, t2, t3}
    MaxCompletions = 2
    Flows = {f1, f2}
    Kyc <- MCKyc
    Requests = {r1, r2, r3}
    Deposits = {2}
    Seconds = 2
    Traders = {tr1}
    Balances = {10}
    Copying <- MCCopying
    Invited = {i1, i2, i3}
    Commission <- MCCommission
    Payouts = {o1, o2}
    LastAlert = 2
    Definitions <- MCDefinitions
    Watch <- MCWatch
    Names = {"trend", "reversion"}
    Regimes = {"trending", "ranging"}
    Suitable <- MCSuitable
    Builds <- MCBuilds
    Controllers = {h1, h2}
    Feed = h1
    Crew <- MCCrew
    Depth <- MCDepth
    Stored <- MCStored
    Feeds <- MCFeeds
SPECIFICATION ServicesSpec
INVARIANTS
    MoneyIsAccounted
    ReversalsAreBacked
    PaymentsHold
    FollowerLossBounded
    AlertsKeepTheirPace
    MembersWereInvited
    LadderIsTrue
    SeriesIsRecent
    ControlReachesAll
PROPERTIES
    PricesAreShared
CHECK_DEADLOCK FALSE
