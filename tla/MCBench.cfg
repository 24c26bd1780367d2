SPECIFICATION MCSpec
CONSTANTS
  Conns = {c1, c2}
  NoConn = NoConn
  MaxOps = 4
  Triggers = {t1}
  Off = Off
  MaxChunks = 2
  LaSet = {p1, p7, p9}
  UpPins = {p1}
  DownPins = {p7}
  SpiWidth = 2
  NoPin = NoPin
  MaxCmds = 3
  MaxEvents = 2
  MaxFaults = 1
  MaxStores = 3
  MaxFails = 1
  MaxTraces = 3
  Old = 1
  New = 2
  MaxImageOps = 2
  MaxResets = 1
  Cells = 3
  RespBuf = 2
  Ring = 2
  MinChunk = 1
  Stall = 2
  ErrQueue = 1
  MaxLines = 2
  MaxJson = 2
INVARIANTS TypesOK GateSafe DataIntact PinsSafe FabricKnown
PROPERTIES StartsInOrder BusyEnds
CHECK_DEADLOCK FALSE
