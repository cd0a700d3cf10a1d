\* Two scripts that call once each.
CONSTANTS
    Threads = {t1, t2}
    MaxCalls = 1
    Spurious = FALSE
SPECIFICATION Spec
INVARIANTS VmExclusive
