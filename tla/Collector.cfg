\* two CPUs, a ring of two records, a window of three kept events
CONSTANTS
    CPUS = {c1, c2}
    RingCap = 2
    MaxHits = 4
    CountsFailures = TRUE
    P = 7
    Q = 3
    Word = 256
    Limit = 3
    ExcerptLen = 2
    Hash <- SomeHashes
SPECIFICATION Spec
INVARIANTS
    FailuresVisible
    PerCpuOrder
    LiveEvidence
    Excerpts
    ReportComplete
    NothingCountedTwice
PROPERTIES
    ImplementsKSentry
    Drains
    Concludes
\* the collector exits, and the tracepoints may never be hit again
CHECK_DEADLOCK FALSE
