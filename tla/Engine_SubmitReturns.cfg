CONSTANTS
    Orders = {o1, o2}
SPECIFICATION FairSpec
PROPERTY SubmitReturns
CHECK_DEADLOCK FALSE
