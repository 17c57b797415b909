\* Two clients and two messages of any users; a queue holds one message, so that
\* it is full while the pump has another one in hand.
SPECIFICATION FairSpec
CONSTANTS
    Clients = {c1, c2}
    Messages = {m1, m2}
    Users = {alice, bob}
    BufSize = 1
    HubRuns = TRUE
    None = None
INVARIANTS TypeOK NoSendOnClosed LeftIsRemoved DrainNeverBlocks OwnMessagesOnce
PROPERTIES QueuedIsWritten ClosedIsCleanedUp
CHECK_DEADLOCK FALSE
