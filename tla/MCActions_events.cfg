\* Input events, triggers, actions and scripts beside an MPD that comes and goes.
CONSTANTS
    NaN = NaN
    GPIOS_MAX = 9
    TIMEOUT_MS_MAX = 10
    UINT_MAX = 200
    EventsMax = 2
    Threads = {t1}
    t1 = t1
    Codes <- MCCodes
    Installation <- MCInstallation
    Functions <- MCFunctions
    Scripts <- MCScripts
    InputEvents <- MCInputEvents
SPECIFICATION FairSpec
INVARIANTS InputStateTracks
PROPERTIES OneLossPerBreak EventsServed
CHECK_DEADLOCK FALSE
