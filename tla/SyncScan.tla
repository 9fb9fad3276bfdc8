------------------------------- MODULE SyncScan ------------------------------
(***************************************************************************)
(* The synchronous endpoints (clamrest.go, url_scanner.go) in the service  *)
(* that serves them (Service), behind their middleware (Auth), with the    *)
(* hash lookups their scans share (HashReputation): requests are handled   *)
(* concurrently, each remote call may fail, an answer may come too late    *)
(* for its client, and the container may end at any moment.                *)
(***************************************************************************)
EXTENDS Service, HashReputation, ScanTypes

CONSTANT UrlRequests      \* POST /scan/url; the others are POST /scan/file

VARIABLE request          \* where the handler of each request is

vars == <<request, reputationVars, serviceVars>>

\* scan: what RunMultiEngineScan returned.  file, audit: what persistScannedFile
\* left in S3; path, link: the s3_path and download_url it returned.  code: the
\* status of the answer, or "none".
Codes == {"none", "200", "400", "401", "403", "405", "406", "412", "413", "415", "500"}
Stages == {"new", "form", "copy", "scan", "put", "presign", "audit", "answer",
           "done", "lost"}
HandlerStates ==
  [at : Stages, tenant : Tenants \cup {"none"}, temp : BOOLEAN,
   scan : ScanOutcomes \cup {"none"}, file : {"none", "clean", "quarantine"},
   path : BOOLEAN, link : BOOLEAN, audit : BOOLEAN, code : Codes]

New == [at |-> "new", tenant |-> "none", temp |-> FALSE, scan |-> "none",
        file |-> "none", path |-> FALSE, link |-> FALSE, audit |-> FALSE, code |-> "none"]

\* The handler of r moves on with these changes.
Becomes(r, new) ==
  /\ request' = [request EXCEPT ![r] = new]
  /\ UNCHANGED serviceVars
Goes(r, there) == Becomes(r, [request[r] EXCEPT !.at = there])
Alone == UNCHANGED reputationVars

\* BUG: os.Remove is called where a scan ends, and not deferred.
LeaveFile(r) == [request[r] EXCEPT !.at = "done"]

\* The handler returns, or panics: the deferred os.Remove runs.
Leave(r) == [request[r] EXCEPT !.at = "done", !.temp = FALSE]

\* The return, and the status written before it.  Whether it reaches the client is
\* not followed: the client may be gone, or WriteTimeout may have passed.
Answer(r, code) == Becomes(r, [Leave(r) EXCEPT !.code = code])

IsURL(r) == r \in UrlRequests

\* Any token.
Arrive(r) ==
  /\ request[r].at = "new" /\ phase = "serving"
  /\ \E t \in Tokens : LET auth == AuthMiddleware(jwks, issuerSet, t)
                       IN  IF auth.code = "none"
                           THEN Becomes(r, [request[r] EXCEPT !.at = "form",
                                                              !.tenant = auth.tenant])
                           ELSE Answer(r, auth.code)
  /\ Alone

\* Once the request is read, os.CreateTemp fails or makes the temp file.
CreateTemp(r) ==
  \/ Answer(r, "500")
  \/ Becomes(r, [request[r] EXCEPT !.at = "copy", !.temp = TRUE])

\* scanHandler: the method (405), the form (500) and its size (413), the first
\* part with a file name and that name's type (415).
ReadForm(r) ==
  /\ request[r].at = "form" /\ ~IsURL(r)
  /\ \/ \E code \in {"405", "413", "415", "500"} : Answer(r, code)
     \* the form ends without a file: the loop breaks and net/http writes a 200
     \/ Answer(r, "200")
     \* NextPart fails: part is nil, the handler panics, net/http drops the client
     \/ Answer(r, "none")
     \/ CreateTemp(r)
  /\ Alone

\* scanURLHandler: the method (405), the JSON (400 or 413), the URL's type (415),
\* the fetch and its status (400).
FetchURL(r) ==
  /\ request[r].at = "form" /\ IsURL(r)
  /\ \/ \E code \in {"400", "405", "413", "415"} : Answer(r, code)
     \/ CreateTemp(r)
  /\ Alone

\* io.Copy of the part (413 or 500) or of the body (500, whatever its size), and
\* IsEncryptedZip (415), which lets pass what it cannot read.
CopyBody(r) ==
  /\ request[r].at = "copy"
  /\ \/ \E code \in {"415", "500"} : Answer(r, code)
     \/ ~IsURL(r) /\ Answer(r, "413")
     \/ Goes(r, "scan")
  /\ Alone

\* A step of the lookup that this request's scan makes.
LookUp(r) ==
  /\ request[r].at = "scan"
  /\ Begin(r) \/ Tell(r) \/ TellFails(r) \/ Store(r)
  /\ UNCHANGED <<request, serviceVars>>

\* What the scan returns, from what the engines on this host say and what the
\* lookup found: a hit of either counts.
ScanResult(engines, r) ==
  IF engines # "clamErr" /\ lookup[r].answer = "signature" THEN "FOUND" ELSE engines

\* The scan ends when its lookup has, and clamd answers when it is ready.  Of the
\* lookup's result only a signature is kept.
Scanned(r, result) ==
  /\ request[r].at = "scan" /\ lookup[r].at = "done"
  /\ \E engines \in ScanOutcomes :
       /\ engines # "clamErr" => clamd = "ready"
       /\ result = ScanResult(engines, r)
  /\ lookup' = [lookup EXCEPT ![r].answer = IF @ = "signature" THEN @ ELSE "none"]
  /\ UNCHANGED <<now, known, cache>>

ScanFails(r) ==
  /\ Scanned(r, "clamErr")
  /\ Becomes(r, [Leave(r) EXCEPT !.scan = "clamErr", !.code = "500"])

\* Only the upload's handler sorts out a parse error here, as a 413.
IsUnparsed(r, result) == result = "PARSE ERROR" /\ ~IsURL(r)

ScanUnparsed(r) ==
  /\ Scanned(r, "PARSE ERROR") /\ IsUnparsed(r, "PARSE ERROR")
  /\ Becomes(r, [Leave(r) EXCEPT !.scan = "PARSE ERROR", !.code = "413"])

\* BUG: persistScannedFile takes every status that is not INFECTED for CLEAN.
BucketOfTheRest(result) ==
  IF formatStatus(result) = "INFECTED" THEN "quarantine" ELSE "clean"

bucketFor(result) ==
  CASE formatStatus(result) = "CLEAN" -> "clean"
    [] formatStatus(result) = "INFECTED" -> "quarantine"
    [] OTHER -> "none"

\* Without a bucket for the verdict nothing is stored.
ScanEnds(r) ==
  \E result \in Statuses :
    /\ Scanned(r, result) /\ ~IsUnparsed(r, result)
    /\ Becomes(r, [request[r] EXCEPT !.scan = result,
                     !.at = IF bucketFor(result) = "none" THEN "answer" ELSE "put"])

\* uploadAndPresign: the PutObject, which may fail or have no bucket configured.
PutFile(r) ==
  /\ request[r].at = "put"
  /\ \/ Goes(r, "answer")
     \/ Becomes(r, [request[r] EXCEPT !.at = "presign",
                                      !.file = bucketFor(request[r].scan)])
  /\ Alone

\* A file whose link cannot be signed is kept, and nobody is told of it; of a
\* quarantined one only the path is told.
Presign(r) ==
  /\ request[r].at = "presign"
  /\ \/ Goes(r, "answer")
     \/ /\ request[r].file = "quarantine"
        /\ Becomes(r, [request[r] EXCEPT !.at = "answer", !.path = TRUE])
     \/ /\ request[r].file = "clean"
        /\ Becomes(r, [request[r] EXCEPT !.at = "audit", !.path = TRUE, !.link = TRUE])
  /\ Alone

\* writeAuditRecord logs its failure, and the answer keeps the link.
WriteAudit(r) ==
  /\ request[r].at = "audit"
  /\ \/ Goes(r, "answer")
     \/ Becomes(r, [request[r] EXCEPT !.at = "answer", !.audit = TRUE])
  /\ Alone

\* BUG: every verdict comes with a 200, as its body says the rest.
AlwaysOK(result) == "200"

\* writeScanResponse
StatusCode(result) ==
  CASE result = "OK" -> "200"
    [] result = "FOUND" -> "406"
    [] result = "ERROR" -> "400"
    [] result = "PARSE ERROR" -> "412"

WriteAnswer(r) ==
  /\ request[r].at = "answer"
  /\ Becomes(r, [Leave(r) EXCEPT !.code = StatusCode(request[r].scan)])
  /\ Alone

Handle(r) ==
  \/ Arrive(r) \/ ReadForm(r) \/ FetchURL(r) \/ CopyBody(r)
  \/ LookUp(r) \/ ScanFails(r) \/ ScanUnparsed(r) \/ ScanEnds(r)
  \/ PutFile(r) \/ Presign(r) \/ WriteAudit(r) \/ WriteAnswer(r)

-----------------------------------------------------------------------------
InFlight(r) == request[r].at \notin {"new", "done", "lost"}

\* The container ends, with every handler in it; Redis, S3 and, where the
\* container is restarted, its disk remain.
Crash ==
  /\ ContainerEnds
  /\ request' = [r \in Requests |-> IF InFlight(r) THEN [request[r] EXCEPT !.at = "lost"]
                                                   ELSE request[r]]
  /\ lookup' = [r \in Requests |-> IF InFlight(r) THEN Quiet ELSE lookup[r]]
  /\ UNCHANGED <<now, known, cache>>

\* Bounds of the model: a container nobody sends a request to is not followed,
\* nor a silence that neither the start nor a request can notice.
Life ==
  \/ InitJWKS \/ waitForClamD \/ ClamdLoads \/ ReloadEnds
  \/ /\ Reload \/ FallsSilent
     /\ \/ phase = "waiting"
        \/ \E r \in Requests : request[r].at \in {"form", "copy", "scan"}
  \/ ContainerStarts /\ \E r \in Requests : request[r].at = "new"

\* Bound of the model: time passes while there is a process and a lookup may
\* still be made.
Environment ==
  /\ phase = "serving"
  /\ \E r \in Requests : request[r].at \in {"new", "form", "copy", "scan"}
  /\ Tick \/ Expire \/ Publish

Init == /\ request = [r \in Requests |-> New]
        /\ ReputationInit /\ ServiceInit

Next ==
  \/ \E r \in Requests : Handle(r)
  \/ Life /\ UNCHANGED <<request, reputationVars>>
  \/ Environment /\ UNCHANGED <<request, serviceVars>>
  \/ Crash

Spec == Init /\ [][Next]_vars

\* A process waits for clamd by the clock.  Nothing makes a request arrive, clamd
\* load or speak, or a handler go on: neither clamd's stream nor an S3 call has a
\* deadline.
Fairness == WF_vars(waitForClamD /\ UNCHANGED <<request, reputationVars>>)

FairSpec == Spec /\ Fairness
-----------------------------------------------------------------------------
(* Properties *)

TypeOK ==
  /\ request \in [Requests -> HandlerStates]
  /\ now \in 0..MaxTime /\ known \in 0..Never
  /\ cache \in Entries /\ lookup \in [Requests -> Lookups]
  /\ phase \in {"down", "init", "waiting", "serving"} /\ attempt \in 0..MaxAttempts
  /\ jwks \in BOOLEAN /\ issuerSet \in BOOLEAN
  /\ clamd \in {"loading", "ready", "busy"} /\ restarts \in 0..MaxRestarts

\* What a client may read from a status code (the list at README.md:545-551).  A
\* 200 says that no engine on the host found anything and that the hash lookup did
\* not report the file; 406 that one did, and a reported file gets no other code
\* unless clamd failed.  400 is an engine's ERROR, 412 an answer that could not be
\* parsed, and after a 415 nothing was scanned.  The exceptions to the list: a form
\* without a file is a 200 (clamrest.go:81), a URL that is no good or cannot be
\* fetched a 400, and an upload whose scan could not be parsed a 413, like one that
\* is too large (clamrest.go:147-149).
CodesMeanVerdicts ==
  \A r \in Requests : request[r].at = "done" =>
    LET q == request[r]
    IN  /\ q.code = "200" =>
             \/ q.scan = "OK" /\ lookup[r].answer # "signature"
             \/ q.scan = "none" /\ lookup[r].at = "idle" /\ ~IsURL(r)
        /\ q.code = "406" <=> q.scan = "FOUND"
        /\ lookup[r].answer = "signature" => q.code = "406" \/ q.scan = "clamErr"
        /\ q.scan = "ERROR" => q.code = "400"
        /\ q.code = "400" => q.scan = "ERROR" \/ (q.scan = "none" /\ IsURL(r))
        /\ q.code = "412" => q.scan = "PARSE ERROR"
        /\ q.scan = "PARSE ERROR" => q.code = "412" \/ (q.code = "413" /\ ~IsURL(r))
        /\ q.code = "415" => q.scan = "none" /\ lookup[r].at = "idle"

\* What S3 holds and the client is told of it agree with what the scan said,
\* whatever step of storing it failed and whether or not an answer was written: a
\* file in the clean bucket was found clean, one in quarantine was not, a path is
\* of a file that is there, a link and an audit record are of clean ones, and an
\* answer without a verdict leaves nothing behind (persistScannedFile).  That an
\* infected file gets no link is what s3_storage.go:140-142 and README.md:561 say;
\* the comment at shared.go:110-113 promises one.
StoredIsScanned ==
  \A r \in Requests :
    LET q == request[r]
    IN  /\ q.file = "clean" => q.scan = "OK" /\ lookup[r].answer # "signature"
        /\ q.file = "quarantine" => q.scan = "FOUND"
        /\ q.path => q.file # "none"
        /\ q.link \/ q.audit => q.path /\ q.file = "clean"
        /\ q.at = "done" /\ q.file # "none" => q.code \in {"200", "406"}

\* The temp file is there as long as its handler needs it, and longer only if
\* the container ended under the handler (defer os.Remove, which also runs when
\* a form's broken part makes the handler panic).
TempFileLifetime ==
  \A r \in Requests :
    /\ request[r].at \in {"new", "form", "done"} => ~request[r].temp
    /\ request[r].at \in {"scan", "put", "presign", "audit"} => request[r].temp

\* A request is worked on only by a process that has the keys and the issuer to
\* check its token with: not when the keys' fetch failed, and not across a
\* restart whose fetch failed (AuthMiddleware, jwks == nil).
HandledIsAuthorized ==
  \A r \in Requests :
    InFlight(r) =>
      phase = "serving" /\ jwks /\ issuerSet /\ request[r].tenant \in Tenants

\* The two copies of the token checks agree: whoever is let in as an
\* administrator would be let in as a user, as the same tenant.
AdminsAreUsers ==
  \A t \in Tokens :
    LET admin == AdminAuthMiddleware(jwks, issuerSet, t)
    IN  admin.code = "none" => AuthMiddleware(jwks, issuerSet, t) = admin

\* "Not found" is never old news: when a lookup ends with it, MalwareBazaar did
\* not know the hash at some moment within the cache's TTL and one call's time,
\* whatever lookups overlap and overwrite each other's entry (a slow "not found"
\* can overwrite a signature).  A failed call never looks like it.  Only a 200
\* with neither ("mute", such as an unexpected query_status), which the code
\* takes for "not found" and caches as that, is excepted.
NotFoundIsRecent ==
  [][\A r \in Requests :
       lookup'[r].at = "done" /\ lookup[r].at # "done"
         /\ lookup'[r].answer = "not found"
       => now <= known + TTL + Timeout]_vars

\* A process does not hang between its start and its service: it serves, or it
\* ends and can be replaced (waitForClamD's 90 attempts), unless it keeps meeting a
\* clamd that accepts connections and says nothing, which no deadline and no count
\* covers (clamrest.go:172-186).
StartsOrEnds ==
  \/ phase = "waiting" ~> phase \in {"serving", "down"}
  \/ []<>(phase = "waiting" /\ clamd = "busy")
=============================================================================
