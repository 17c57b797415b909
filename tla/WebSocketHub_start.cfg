\* main.go starts the server and not the hub.
SPECIFICATION FairSpec
CONSTANTS
    Clients = {c1, c2}
    Messages = {m1, m2}
    Users = {alice}
    BufSize = 1
    HubRuns = FALSE
    None = None
PROPERTY UpgradedIsRegistered
CHECK_DEADLOCK FALSE
