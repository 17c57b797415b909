\* Three users share two slots: entries are evicted, expire and are overwritten.
SPECIFICATION FairSpec
CONSTANTS
    Users = {alice, bob, carol}
    Requests = {r1, r2, r3}
    MaxSize = 2
    None = None
INVARIANTS CachedIsUsable NoConcurrentCreation
PROPERTIES OnlyOvertakenLeak RequestsEnd
CHECK_DEADLOCK FALSE
