SPECIFICATION FairSpec
CONSTANTS
  o1 = o1  o2 = o2  e1 = e1  e2 = e2  k1 = k1
  Objects <- OneObject
  Versioned <- OneObject
  Keys = {k1}
  KeyOf <- OneKey
  Events <- TwoEvents
  Queued <- OneEvent
  RecordsOf <- Duplicates
  Workers = {w1, w2}
  Settings <- AllSettings
  Outcomes <- MCOutcomes
  MaxWrites = 0
INVARIANTS TypeOK ActionsAreBacked NothingIsLost AckedIsSettled
PROPERTY EventuallyAcknowledged
CHECK_DEADLOCK FALSE
