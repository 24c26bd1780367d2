SPECIFICATION FairSpec
CONSTANTS
    Conns = {0}
    Tunnels = {}
    PendIds = 2
    QueueDepth = 2
    RingCap = 1
    MaxSession = 3
    MaxSegs = 2
    MaxConsole = 1
INVARIANT ReplyIsolation
PROPERTY TeardownCompletes
