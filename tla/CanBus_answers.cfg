SPECIFICATION Spec
CONSTANTS
  RxRing = 2
  RxFifo = 2
  TxFifo = 2
  MaxFrames = 3
  MaxSends = 2
  MaxBusOffs = 1
  MaxConfigs = 2
INVARIANTS EveryMatchAnswered
CHECK_DEADLOCK FALSE
