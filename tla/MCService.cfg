\* The system parameters, the detection of a second IOC (with times in
\* the proportion of those of the code) and the calibration tables.
SPECIFICATION ServiceSpec
INVARIANTS
  ServiceTypesHold
  FlagTellsContention
  GainFollowsTable
  WholeTablesInUse
  FaShiftIsLargest
PROPERTIES
  SavedSurvives
  NoMixAtBoot
  StoredTablesComeBack
CONSTANTS
  Version = {"v1"}
  OddFields = {2, 3, 4}
  IOC = {i1, i2}
  NoIOC = NoIOC
  Change = 6
  Hold = 9
  Period = 2
  Channel = {"A", "B"}
  AttenRow = {0, 1}
  Startup = 0
  FullScale = 8
  AttenTables <- UploadedTables
  Decibels = {1, 2}
  Gains <- CommandedGains
  Trims <- UploadedTrims
  MaxSteps = 6
  MinRows = 2
  Rows = 5
  Texts = {"x", "y"}
  Lengths = {1, 2, 4, 5, 6}
  SamplesPerFa = 20
  Decimation = 8
  Stages = 2
  Shifts <- CommandedShifts
  MaxChanges = 3
  MaxFailures = 1
