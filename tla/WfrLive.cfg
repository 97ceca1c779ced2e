\* Two recorders in rotation, one block each, one allocation that may fail.
CONSTANTS
  NRec = 2
  Used = {0, 1}
  Capacity = 1
  Payload = 1
  FixedPretrigger = 0
  RetryLimit = 2
  AcqValues = {}
  PretrigValues = {}
  InitialCount = 1
  MaxWaveform = 2
  MaxAcq = 1
  MaxAllocFailures = 1
  Disarmed = {0, 1}
  MaxLag = 1
SPECIFICATION FairSpec
PROPERTIES
  TransferEnds
  FullIsServed
  WaveformIsAnnounced
