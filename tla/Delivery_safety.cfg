\* Every channel holds one task, so that each timeout, spill and drop happens.
SPECIFICATION Spec
CONSTANTS
    Tasks = {t1, t2}
    Workers = {w1, w2}
    Priority <- HighPriority
    MaxRetries = 1
    EntryQueueSize = 1
    PriorityQueueSize = 1
    WorkerQueueSize = 1
    WorkerChanSize = 1
    RetryQueueSize = 1
INVARIANTS TypeOK SingleCopy ResolvedIsGone PushedOnceStored CountedOnce
PROPERTIES LostOnlyWhenFull ImplementsContract
SYMMETRY TasksSymmetry
