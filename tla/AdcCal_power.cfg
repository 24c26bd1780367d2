SPECIFICATION CalSpec
CONSTANTS
  Zeros = {1, 2}
  Fits = {1, 2}
  MaxReboots = 2
  Payloads <- Records
  Versions = {1, 2}
  Version = 2
  HalfSeq = 2
  HasLegacy = FALSE
  Faulty = FALSE
  None = None
  Idle = Idle
  Blank = Blank
  Torn = Torn
  Tombstone = Tombstone
CHECK_DEADLOCK FALSE
INVARIANT CalibrationSurvives
