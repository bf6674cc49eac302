\* A pair and a bracket, two units each, so that every fill can be partial; reports
\* of three units together, so that every order is reported again after its fill or
\* beyond it; one cancellation; one stop over three prices.  An order of its own
\* behaves as an entry without exits and would double the states.
CONSTANTS
    Ocos = {oco1}
    Brackets = {b1}
    Plains = {}
    Quantity = 2
    MaxFilled = 3
    MaxCancels = 1
    Stops = {s1}
    Prices = {3, 4, 5}
    Trails = {1}
SPECIFICATION ManagerSpec
INVARIANTS
    LegsAreSafe
    FilledAreCounted
    TrailsTheBestPrice
CHECK_DEADLOCK FALSE
