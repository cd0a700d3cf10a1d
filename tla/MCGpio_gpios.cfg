\* A button (both edges; edges may be lost, reads may fail), or two outputs whose
\* descriptors run out and are reused.
CONSTANTS
    Requests = {"both"}
    KernelQueueMax = 3
    GPIO_EVENT_BUF_SIZE = 2
    Faults = TRUE
    EdgesMax = 7
    GpiosMax = 2
    Fds = {f1, f2}
    Timeouts = {0, 1}
    OutFaults = TRUE
    OpsMax = 4
SPECIFICATION MCSpec
INVARIANTS OwnTimer
PROPERTIES LongPressWhilePressed ImplementsButton ReleaseEndsPress OnlyBlinkingToggles BlinkGoesOn
\* the daemon waits in poll when the button is left alone and nothing blinks
CHECK_DEADLOCK FALSE
