SPECIFICATION FairSpec
CONSTANTS
  o1 = o1  o2 = o2  e1 = e1  e2 = e2  k1 = k1
  Objects <- TwoVersions
  Versioned <- OneObject
  Keys = {k1}
  KeyOf <- OneKey
  Events <- OneEvent
  Queued <- OneEvent
  RecordsOf <- SameKey
  Workers = {w1}
  Settings <- Quarantining
  Outcomes <- MCOutcomes
  MaxWrites = 1
INVARIANT ActionsAreBacked
CHECK_DEADLOCK FALSE
