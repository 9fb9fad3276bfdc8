\* One scan; every exit of every subprocess; clamd replies at most twice.
SPECIFICATION FairSpec
CONSTANT MaxReplies = 2
INVARIANTS TypeOK NoHitIsLost FoundHasEvidence CleanIsComplete NoTempFileLeft
PROPERTIES ImplementsScanCall ReturnsAfterClamd
CHECK_DEADLOCK FALSE
