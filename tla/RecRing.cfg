\* A ring of four samples, transfers of two with a pause between them and AXI
\* errors, and software that arms, disarms and changes the count at any clock;
\* more pretrigger samples than one of the counts has.
SPECIFICATION Spec
INVARIANTS RingHoldsWindow TransferInRing
CONSTANTS
  Capacity = 4
  Multi = 2
  PauseTime = 1
  FifoDepth = 4
  Pretrig = {2}
  AcqCount = {1, 3}
  MaxSample = 5
  MaxArm = 2
  MayFail = TRUE
CHECK_DEADLOCK FALSE
