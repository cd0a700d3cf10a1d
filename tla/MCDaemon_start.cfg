\* From start to stop: the poll set, the GPIOs and the reaction to signals.
CONSTANTS
    NaN = NaN
    GPIOS_MAX = 3
    TIMEOUT_MS_MAX = 10
    UINT_MAX = 200
    CLIENT_CONNECTIONS_MAX = 1
    EventsMax = 3
    Codes <- MCCodes
    Installations <- MCInstallations
SPECIFICATION FairSpec
INVARIANTS PollSetComplete GpiosAsConfigured
PROPERTIES StopsOnSignal
