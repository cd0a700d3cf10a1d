\* Two script threads, spurious wake-ups; no symmetry because of liveness.
CONSTANTS
    Threads = {t1, t2}
    MaxCalls = 3
    Spurious = TRUE
SPECIFICATION FairSpec
INVARIANTS EventFdCounts NeverNull InOrderOnce SleepersAreOwedSignals
PROPERTIES CallReturns ImplementsRemoteCall
