\* The links of the cell, the delay of the ADC clock and the event receiver.
SPECIFICATION LinksSpec
INVARIANTS
  LinksResetByTheirState
  AfeTypeOK
  DelayNearScan
  SystemTriggersHold
  TimeIsConsistent
PROPERTIES
  CellLinksComeBack
  AfeOscillatorsStayInStep
  AfeReferenceIsScanned
CONSTANTS
  Wrap = 6
  Modulus = 32
  Long = 3
  Middle = 1
  Short = 0
  Training = 1
  Capacity = 2
  Indices = {1}
  MaxFaults = 1
  Range = 6
  Adc = {1, 2}
  RelockTime = 1
  SyncTime = 1
  MaxUpsets = 2
  Events = {120, 122, 125}
  Heartbeat = 122
  Pps = 125
  SinglePass = 120
  AutoTrim = 122
  IocTriggers = {4}
  FifoDepth = 1
  Patience = 1
  Ticks = 2
  MaxSeconds = 2
CHECK_DEADLOCK FALSE
