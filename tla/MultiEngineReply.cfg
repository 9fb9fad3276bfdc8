\* One scan; every exit of every subprocess; clamd replies at most twice.
SPECIFICATION FairSpec
CONSTANT MaxReplies = 2
INVARIANT CleanMeansClamAVReplied
CHECK_DEADLOCK FALSE
