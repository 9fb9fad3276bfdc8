SPECIFICATION FairSpec
CONSTANTS
  o1 = o1  o2 = o2  e1 = e1  e2 = e2  k1 = k1
  Objects <- TwoVersions
  Versioned <- TwoVersions
  Keys = {k1}
  KeyOf <- OneKey
  Events <- OneEvent
  Queued <- OneEvent
  RecordsOf <- SameKey
  Workers = {w1}
  Settings <- AllSettings
  Outcomes <- MCOutcomes
  MaxWrites = 0
PROPERTY QuarantineRetains
CHECK_DEADLOCK FALSE
