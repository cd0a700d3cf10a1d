\* Every start second, intervals of 1 to 12 seconds, four days.
CONSTANTS
    DaySecs = 5
    SecMs = 2
    IntMax = 15
    Quantifier <- SmallQuantifier
    NumberMax = 5
    Starts = {0, 1, 2, 3, 4, 5}
    Numbers = {0, 1, 2, 3, 4, 5, 6}
    WeekdayLists <- SmallLists
    NowMax = 20
SPECIFICATION Spec
INVARIANTS FirstExpiration NoneMissed OneActionPerExpiration
\* an invalid line ends the daemon, and time is bounded
CHECK_DEADLOCK FALSE
