SPECIFICATION FairSpec
CONSTANTS
  o1 = o1  o2 = o2  e1 = e1  e2 = e2  k1 = k1
  Objects <- Other
  Versioned <- NoObject
  Keys = {k1}
  KeyOf <- OneKey
  Events <- OneEvent
  Queued <- OneEvent
  RecordsOf <- Unversioned
  Workers = {w1}
  Settings <- AllSettings
  Outcomes <- ScanOutcomes
  MaxWrites = 2
INVARIANT AlertsMeanMalware
CHECK_DEADLOCK FALSE
