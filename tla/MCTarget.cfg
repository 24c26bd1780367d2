SPECIFICATION MCSpec
CONSTANTS
  Fuses = {f1, f2}
  MaxBusFails = 2
  MaxOrders = 2
  MaxBoots = 2
  Conns = {a, b}
  Cloud = cloud
  NoConn = nc
  Keeps = {0, 1, 3}
  FrameSamples = 1
  MaxErrors = 2
  MaxReadings = 5
  MaxProfiles = 2
  MaxLeaves = 1
  RxRing = 2
  MaxFrames = 3
  MaxSends = 2
  MaxBusOffs = 1
  MaxConfigs = 2
  RecMax = 3
  QBytes = 7
  QReads = 2
  WaitRetry = 1
  Words = 5
  MaxReqs = 4
  Limit = 16
  Page = 2
  Sector = 4
  Block = 8
  Starts = {3, 6}
  Lens = {2, 9}
  MaxFaults = 1
  MaxSpiCmds = 3
  Ring = 2
  Fifo2 = 2
  Epoch = 3
  ClientRoom = 1
  MaxBytes = 5
  MaxDut = 2
  MaxEpochs = 1
  MaxSwaps = 1
  Models = {"mpu6050", "bmp280"}
  MaxWrites = 3
  MaxSensorCmds = 3
  MaxSensorFaults = 1
  Codes = 3
  TxFifo = 2
  RxFifo = 2
INVARIANTS TypesOK ToldIsTrue LinesInOrder WireAgrees
PROPERTIES KeptThrough EnginesEnd
CHECK_DEADLOCK FALSE
