SPECIFICATION FairSpec
CONSTANTS
  Files <- MCFiles
  Settings <- MCSettings
  KiB = 2
  IntMax = 31
  DefaultBytes = 8
  Ceiling = 20
  MaxStreams = 2
  MaxDepth = 2
  MinNulls = 2
INVARIANTS TypeOK BundleFitsSetting CutsTheTail UnflaggedIsComplete FlaggedIsCut
PROPERTY Terminates
CHECK_DEADLOCK FALSE
