SPECIFICATION Spec
CONSTANTS
    Conns = {0, 1}
    Tunnels = {}
    PendIds = 2
    QueueDepth = 2
    RingCap = 1
    MaxSession = 3
    MaxSegs = 2
    MaxConsole = 0
INVARIANT ParkedInOrder
