\* One client, every kind of line, more events than can wait.
CONSTANTS
    Conns = {c1}
    CLIENT_CONNECTIONS_MAX = 1
    WAITING_EVENTS_MAX = 2
    InputChunksMax = 2
    OutChunks = 2
    SigpipeIgnored = TRUE
    NetMax = 2
    LinesMax = 4
    EventsMax = 5
SPECIFICATION Spec
INVARIANTS ResponseDiscipline IdleHasNoEvents EventStream ReportStillValid
PROPERTIES ResponseKept
