SPECIFICATION FairSpec
CONSTANTS
  NRecords = 2
  OldRecords = {2}
  Askers <- MCAskers
  TenantOf <- MCTenantOf
  Tenants = {"a", "b"}
  NQueries = 2
  DayLength = 1440
  Instants = {1439, 1440, 1456, 1470, 2880}
  Windows = {1}
  RowLimits = {1, 2}
  Fetchers = 1
  PageSize = 1
  Grace = 15
  OpenTTL = 1
  FinalTTL = 44640
  ReadTime = 1
INVARIANTS TypeOK ShownIsRecorded MissingIsExcused
PROPERTY QueryEnds
CHECK_DEADLOCK FALSE
