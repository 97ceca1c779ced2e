\* One IOC and a network that keeps its datagrams in order; commands are
\* repeated and abandoned, one restart.  In one setting the reset sequence is
\* mixed with a setting and resets fail, in the other the points are those
\* whose handlers write the autotrim CSR and the self-trigger level.  The IOC
\* stops at MaxNumber, or HwNumber.
SPECIFICATION KindSpec
INVARIANTS
  AcceptedWriteHolds
  ResetBySequence
PROPERTY CarriedOutOnce
CONSTANTS
  Ioc = {"a"}
  InOrder = TRUE
  Point = {"acqCount", "fpgaReset", "atEnable", "atFilter", "dspType", "selfTrigLevel"}
  Value = {0, 1, 100, 10000}
  PlainPoint = {"acqCount", "fpgaReset"}
  PlainValue = {0, 100, 10000}
  HwPoint = {"atEnable", "atFilter", "dspType", "selfTrigLevel"}
  HwValue = {1}
  HwNumber = 3
  FullScale = 3
  Capacity = 3
  MaxNumber = 4
  MaxRestarts = 1
CHECK_DEADLOCK FALSE
