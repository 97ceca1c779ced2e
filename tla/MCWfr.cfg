SPECIFICATION SettingSpec
INVARIANTS
  TypeOK
  BufferStable
  OneAcquisitionPerNumber
  AckedBlocksReceived
  TransfersOfQuietCounts
PROPERTY ArchiveSpec
CONSTANTS
  NRec = 2
  Used = {1}
  Capacity = 5
  Payload = 2
  FixedPretrigger = 2
  RetryLimit = 2
  AcqValues = {0, 6}
  PretrigValues = {}
  InitialCount = 3
  MaxWaveform = 3
  MaxAcq = 2
  MaxAllocFailures = 1
  Disarmed = {1}
  MaxLag = 1
