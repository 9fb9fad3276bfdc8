SPECIFICATION FairSpec
CONSTANTS
  Tenants = {t1}
  Requests = {r1, r2}
  UrlRequests = {r2}
  MaxAttempts = 2
  MaxRestarts = 1
  TTL = 1
  Timeout = 1
  MaxTime = 3
INVARIANTS TypeOK CodesMeanVerdicts StoredIsScanned TempFileLifetime HandledIsAuthorized AdminsAreUsers
PROPERTIES NotFoundIsRecent StartsOrEnds
CHECK_DEADLOCK FALSE
