\* Callers of every kind, GPIOs the library cannot read among them.
CONSTANTS
    NaN = NaN
    GPIOS_MAX = 3
    TIMEOUT_MS_MAX = 2
    WAITING_EVENTS_MAX = 1
    Settings <- MCSettings
    CmdLines <- MCCmdLines
    Commands <- MCCommands
    CmdsMax = 2
    EventsMax = 2
    ConnsMax = 2
SPECIFICATION FairSpec
INVARIANTS OwnAnswer  ElementsFaithful
PROPERTIES CallReturns
\* callers may stop
CHECK_DEADLOCK FALSE
