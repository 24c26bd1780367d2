SPECIFICATION Spec
CONSTANTS
    Conns = {0}
    Tunnels = {1}
    PendIds = 2
    QueueDepth = 2
    RingCap = 1
    MaxSession = 3
    MaxSegs = 1
    MaxConsole = 0
INVARIANT TypeOK
INVARIANT NoInheritedState
INVARIANT StaleStateHasTeardown
INVARIANT SessionsSeparated
