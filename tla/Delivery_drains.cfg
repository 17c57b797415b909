\* Liveness when every channel can be full; the tasks use the queue polled last.
SPECIFICATION FairSpec
CONSTANTS
    Tasks = {t1, t2}
    Workers = {w1}
    Priority <- LowPriority
    MaxRetries = 1
    EntryQueueSize = 1
    PriorityQueueSize = 1
    WorkerQueueSize = 1
    WorkerChanSize = 1
    RetryQueueSize = 1
PROPERTY Drains
