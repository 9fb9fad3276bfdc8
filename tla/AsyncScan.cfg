\* One scan: its handler, its worker, its webhook, Redis and crashes.  Scans
\* share nothing but the process they die with.
SPECIFICATION FairSpec
CONSTANT Scans = {s1}
INVARIANTS TypeOK StoreIsAccurate HookAgreesWithPoll DownloadIsSafe TempFileLifetime
PROPERTIES ImplementsScanTicket AcceptedIsPublished
CHECK_DEADLOCK FALSE
