SPECIFICATION MCSpec
CONSTANTS
  Configs = {p1, p2}
  Versions = {1, 2}
  HalfSeq = 2
  Zeros = {1, 2}
  Fits = {1, 2}
  MaxReboots = 2
  None = None
  Idle = Idle
  Blank = Blank
  Torn = Torn
  Tombstone = Tombstone
  Blobs = {long, short}
  Pages = 2
  Long = {long}
  MaxCertFaults = 2
  MaxCertCmds = 4
  Sectors = 3
  ReadTries = 2
  SectorTries = 2
  Blocks = 2
  SyncAttempts = 2
  DataAttempts = 2
  Md5Attempts = 2
  Chunks = 2
  OtaTries = 2
  MaxForced = 1
  MaxTrouble = 3
  SafeAfter = 2
  MaxEvents = 6
INVARIANTS TypesOK StoresWhole UpdatesTrue
PROPERTIES ConfigAtomic UpdatesEnd
CHECK_DEADLOCK FALSE
