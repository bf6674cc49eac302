CONSTANTS
    Callers = {c1, c2}
    Messages = {m1, m2, m3, m4, m5}
    SecondLimit = 2
    MinuteLimit = 3
    Second = 1
    Minute = 3
    Cooldown = 1
    MaxModifies = 1
    Orders = {o1, o2}
    ManyOrders = {o1, o2, o3}
    Loops = {l1, l2}
    Symbols = {s1, s2}
    PaperPrices = {2, 5}
    BookPrices = {4, 8}
    MaxUnits = 2
    MaxFills = 3
    Accounts = {a1, a2}
    Strategies = {g1}
    PriceLevels = {1, 2}
    Sizes = {1, 2}
    Fia <- MCFia
    Traders = {t1, t2}
    Positions = {p1, p2}
    Limits <- MCLimits
    Venues = {v1, v2}
    Quotes <- MCQuotes
    Executions = {e1}
    MinProfit = 1
    Routed = {r1}
    Brokers = {b1, b2, b3, b4}
    Test <- MCTest
SPECIFICATION DeskSpec
INVARIANTS
    RateBounded
    FillsAreBookedOnce
    AccountsBalance
    ControlsHold
    LossesBounded
    ExecutionsAreContained
PROPERTIES
    RequestsSettle
CHECK_DEADLOCK FALSE
