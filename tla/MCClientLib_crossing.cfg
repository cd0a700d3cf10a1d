\* A session that leaves the idle mode while an event is on its way.
CONSTANTS
    NaN = NaN
    GPIOS_MAX = 3
    TIMEOUT_MS_MAX = 2
    WAITING_EVENTS_MAX = 1
    Settings <- MCSettings
    CmdLines <- MCCmdLines
    Commands <- MCCommands
    CmdsMax = 2
    EventsMax = 1
    ConnsMax = 1
SPECIFICATION Spec
INVARIANT InputEmptied
\* callers may stop
CHECK_DEADLOCK FALSE
