\* The documented example of a repeated long press: one edge is requested, no faults.
CONSTANTS
    Requests = {"falling"}
    KernelQueueMax = 3
    GPIO_EVENT_BUF_SIZE = 2
    Faults = FALSE
    EdgesMax = 4
SPECIFICATION FairSpec
PROPERTIES RepetitionStops
\* the daemon waits in poll when the button is left alone
CHECK_DEADLOCK FALSE
