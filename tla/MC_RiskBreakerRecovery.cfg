CONSTANTS
    Orders = {o1}
    Balances = {1000, 980, 960}
    MaxRetries = 2
    Cooldown = 3
    MaxOrderRate = 2
    MaxLosses = 2
    MaxExposure = 1
    MaxHalvings = 2
SPECIFICATION CalmSpec
PROPERTY HaltEnds
CHECK_DEADLOCK FALSE
