\* worker.go:98 and :122: a message is stored for a user and pushed to that user.
SPECIFICATION Spec
CONSTANTS
    Users = {u1, u2}
    Default = u1
    None = None
    Messages = {m1}
    Conns = {c1}
    Workers = {w1}
    MaxRetries = 0
INVARIANT PushedCanBeFetched
CHECK_DEADLOCK FALSE
