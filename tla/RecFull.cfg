\* One acquisition, and AXI slower than the samples.
SPECIFICATION Spec
INVARIANT FullMeansStored
CONSTANTS
  Capacity = 4
  Multi = 2
  PauseTime = 0
  FifoDepth = 3
  Pretrig = {1}
  AcqCount = {3}
  MaxSample = 5
  MaxArm = 1
  MayFail = FALSE
CHECK_DEADLOCK FALSE
