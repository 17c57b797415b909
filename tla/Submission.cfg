\* One message and a batch of four, so five calls of ShouldAccept, over a queue of
\* one; priorities below and above the limits, and the default.
SPECIFICATION FairSpec
CONSTANTS
    Requests = {r1, r2}
    Singles = {r1}
    BatchSize = 4
    Size <- Sizes
    Priorities = {0, 3, 8}
    QueueLimit = 1
    Readers = {s1}
INVARIANTS TypeOK AnswersAreTrue StatsShowAnswers ThrottleNeedsCritical
PROPERTIES ReleasedStaysReleased EveryRequestAnswered
CHECK_DEADLOCK FALSE
