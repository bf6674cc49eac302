CONSTANTS
    Users = {u1, u2}
    Subs = {s1, s2}
    Codes = {c1}
    Payments = {p1}
    Durations = {0, 1}
    Day = 2
    Horizon = 1
    None = None
SPECIFICATION Spec
INVARIANTS
    OneSubscriptionPerCode
    InvoiceMatchesPayment
SYMMETRY Symmetry
CHECK_DEADLOCK FALSE
