SPECIFICATION FlashSpec
INVARIANTS FlashTypeOK UndisturbedPoll StoredInFlash RestsInArrayMode
PROPERTIES OnlyWhatIsWritten WriteEnds
CONSTANTS
  Pages = 3
  Page = 8
  Block = 4
  Buffer = 2
  Chunk = 4
  Lengths = {3, 4}
  Data = {{"data"}, {"ready"}}
  Params = 16
  MaxDepth = 2
  MaxNested = 1
  MaxFaults = 1
  MaxUploads = 3
CHECK_DEADLOCK FALSE
