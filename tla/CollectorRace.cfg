\* two CPUs, a ring of one record, a window of two kept events
CONSTANTS
    CPUS = {c1, c2}
    RingCap = 1
    MaxHits = 3
    CountsFailures = TRUE
    P = 7
    Q = 3
    Word = 256
    Limit = 2
    ExcerptLen = 1
    Hash <- SomeHashes
SPECIFICATION SafetySpec
INVARIANT FailuresMeasured
\* the collector exits, and the tracepoints may never be hit again
CHECK_DEADLOCK FALSE
