\* Three clients for two places; no symmetry because of liveness.
CONSTANTS
    Conns = {c1, c2, c3}
    CLIENT_CONNECTIONS_MAX = 2
    WAITING_EVENTS_MAX = 2
    InputChunksMax = 2
    OutChunks = 1
    SigpipeIgnored = FALSE
    NetMax = 1
    LinesMax = 1
    EventsMax = 0
SPECIFICATION FairSpec
INVARIANTS ClientListOk PollSetCurrent
PROPERTIES TimeoutYieldsToData TimeoutServed HangupServed
\* the daemon may be killed by SIGPIPE
CHECK_DEADLOCK FALSE
