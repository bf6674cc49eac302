\* One order is enough.
CONSTANTS
    Orders = {o1}
    Quantities = {1, 3}
    Prices = {1}
SPECIFICATION Spec
INVARIANT AuditComplete
CHECK_DEADLOCK FALSE
