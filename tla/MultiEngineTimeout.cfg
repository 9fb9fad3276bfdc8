\* One scan; every exit of every subprocess; clamd replies at most twice.
SPECIFICATION FairSpec
CONSTANT MaxReplies = 2
PROPERTY AlwaysReturns
CHECK_DEADLOCK FALSE
