\* Two orders; a quantity of 2 or 3 takes partial fills of 1.
CONSTANTS
    Orders = {o1, o2}
    Quantities = {1, 3}
    Prices = {1, 2}
SPECIFICATION FairSpec
INVARIANTS
    FilledMeansComplete
    AverageWithinLimit
    BookMatchesStatus
    AnswerPending
PROPERTIES
    KeepsPromise
    SubmissionAnswered
CHECK_DEADLOCK FALSE
