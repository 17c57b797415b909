\* Two workers and a channel of one slot; the system may have stopped for good.
SPECIFICATION FairSpec
CONSTANTS
    Workers = {w1, w2}
    Capacity = 1
    MaxResends = 2
INVARIANT TypeOK
PROPERTIES WaitMeansOver StartedWaitsForEver LoopsEnd OnlyFullInputKeepsResends
CHECK_DEADLOCK FALSE
