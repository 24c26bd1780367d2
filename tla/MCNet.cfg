SPECIFICATION MCSpec
CONSTANTS
  MaxCalls = 5
  Links = {cloud, wifi}
  MaxWait = 3
  Settle = 1
  MaxRequests = 3
  RxCnt = 3
  RxDesc = 2
  TxDesc = 1
  Rekick = 2
  Escalate = 2
  MaxCmds = 1
  TxRoom = 2
  RssiMaxMisses = 2
  ScanReadMax = 1
  MaxAps = 2
  MaxTrouble = 1
  MaxScans = 1
  MaxSets = 1
  Types = {"FACTORY_RESET"}
  Tries = 1
  SeqMax = 3
  CMax = 4
  Cable = 2
  MaxUser = 1
  Nets = {n1, n2}
  Pods = {p1, p2}
  Factory = Factory
  None = None
  LeavesIn = {"joined"}
  MaxPlugs = 2
  MaxKicks = 1
  QMax = 4
  MaxFaults = 2
INVARIANTS TypesOK CallSound NetSound
PROPERTIES ReloadReplyFirst NetComesUp
CHECK_DEADLOCK FALSE
