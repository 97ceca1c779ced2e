SPECIFICATION TftpSpec
INVARIANTS TypeOK UploadStored
PROPERTY DownloadIntact
CONSTANTS
  FlashFile = {BPM_bin}
  TableFile = {Parameters_csv}
  MaxSize = 5
  Full = 2
  Page = 4
  Modulus = 8
  Transfers = 2
  Ops = {"get", "put"}
  Lengths = {5, 7}
  Sizes <- UploadSizes
  InOrder = TRUE
  MayTimeOut = TRUE
  FaultKinds = {"write", "size", "alloc", "power"}
  MaxFaults = 1
CHECK_DEADLOCK FALSE
