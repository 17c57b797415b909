\* Two users, two messages and two workers over one connection.
SPECIFICATION FairSpec
CONSTANTS
    Users = {u1, u2}
    Default = u1
    None = None
    Messages = {m1, m2}
    Conns = {c1}
    Workers = {w1, w2}
    MaxRetries = 1
INVARIANTS TypeOK PushedIsStored HandedOutComplete
PROPERTIES ImplementsContract EveryMessageEnds
CHECK_DEADLOCK FALSE
