\* Two requests of any kind, with room for what their callbacks add: of two
\* brackets the first may fill before the second is asked for and then take one
\* pair of exits, the second two, which makes eight orders; or the first fills
\* when both have their callbacks and takes two pairs. An OCO pair beside a filled
\* bracket needs five. Orders of two units, so that every fill can be partial.
CONSTANTS
    Orders = {1, 2, 3, 4, 5, 6, 7, 8}
    MaxOrders = 8
    MaxRequests = 2
    Lots = {2}
    DisplaySize = 1
    Quantities = {1, 2}
    Sides = {"BUY"}
    Prices = {1}
SPECIFICATION ComplexSpec
INVARIANTS
    FilledEntryIsProtected
PROPERTIES
    NoSiblingWorksAfterFill
CHECK_DEADLOCK FALSE
