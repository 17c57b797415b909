\* cache.go:53: the goroutine removes an expired entry.
SPECIFICATION Spec
CONSTANTS
    Users = {alice, bob}
    Requests = {r1, r2, r3}
    MaxSize = 1
    None = None
PROPERTY RemovesOnlyExpired
CHECK_DEADLOCK FALSE
