\* Two connections, long polls, and requests that raise events.
CONSTANTS
    Conns = {c1, c2}
    EventsMax = 2
    RequestsMax = 3
SPECIFICATION FairSpec
INVARIANTS SuspendedListOk RequestDataOk FirstEvent NoPanic
PROPERTIES ResumedIsServed
\* the daemon may be stopped
CHECK_DEADLOCK FALSE
