SPECIFICATION MCSpec
CONSTANTS
  Size = 4
  IndexMod = 8
  Data = {0, 1}
  Hosts = {h1, h2}
  OldHosts = {h2}
  Proxy = px
  None = None
  BackoffStart = 2
  BackoffMax = 7
  MaxFaults = 2
  MaxReloads = 1
  Reqs = {r1, r2}
  NoReq = NoReq
  RxCap = 1
  QDepth = 1
  MaxChunks = 2
  MaxTunnels = 1
  MaxDrops = 1
  MaxOpens = 3
  MaxStackChanges = 2
  MaxOom = 2
  CloseFails = {"poll"}
  Wnd = 3
  Hello = 2
  Overhead = 1
  BufSize = 2
  Pool = 2
  MaxConns = 2
  SndBuf = 6
  Expansion = 2
  TxHello = 3
  Sizes = {1, 3}
  MaxWrites = 4
  MaxShort = 2
  RetiredMax = 1
  MaxSess = 2
  MaxCerts = 2
  MaxTries = 2
  W = 16
  LeaseMax = 5
  MaxLag = 2
  MaxPolicySets = 2
  MaxBoots = 1
INVARIANTS TypesOK StreamsIntact StacksSound OnlyAuthorised
PROPERTIES RefinesFifo NeverLoosened LinksComeBack
CHECK_DEADLOCK FALSE
