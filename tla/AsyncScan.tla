------------------------------ MODULE AsyncScan ------------------------------
(***************************************************************************)
(* The asynchronous scan endpoints (async_scanner.go, s3_storage.go): a    *)
(* handler accepts a file or a URL, marks the scan PROCESSING in Redis and *)
(* answers 202, while a goroutine it started scans, stores the file in S3  *)
(* and publishes the result to Redis and to a webhook; clients poll.       *)
(*                                                                         *)
(* A scan has at most two threads of control, its handler and its worker.  *)
(* Every remote call can fail; the process can crash, which loses every    *)
(* goroutine and keeps Redis, S3 and the temp directory.                   *)
(***************************************************************************)
EXTENDS ScanTypes

CONSTANT Scans          \* the scan ids, one per request

VARIABLES
  kind,       \* "file" or "url": the endpoint of each request
  handler,    \* where each handler is
  worker,     \* where each background goroutine is
  reply,      \* the answer to the POST: "none", "202" or "refused"
  temp,       \* whether the staged temp file is on disk
  payload,    \* the result the worker publishes: word, s3_path?, download_url?
  stored,     \* what S3 holds of the scan: the file, and its audit record
  store,      \* Redis, tenant:<t>:scan:<id>
  gaps,       \* history: why Redis may not show the scan's state
  hook        \* the webhook POST: its target and its fate

vars == <<kind, handler, worker, reply, temp, payload, stored, store, gaps, hook>>
-----------------------------------------------------------------------------
(* Payloads *)

Payload(word, path, link) == [word |-> word, path |-> path, link |-> link]
NoPayload == Payload("none", FALSE, FALSE)
Payloads  == [word : FinalWords \cup {"none"}, path : BOOLEAN, link : BOOLEAN]

ErrorPayload == Payload("ERROR", FALSE, FALSE)

Processing == Payload("PROCESSING", FALSE, FALSE)
Absent     == Payload("absent", FALSE, FALSE)

\* The bucket persistScannedFile picks for a verdict.
bucketFor(word) ==
  CASE word = "CLEAN" -> "clean"
    [] word = "INFECTED" -> "quarantine"
    [] OTHER -> "none"

At(pc, s, here, there) == pc[s] = here /\ pc' = [pc EXCEPT ![s] = there]
-----------------------------------------------------------------------------
(* The handlers: scanAsyncHandler and scanURLAsyncHandler *)

\* BUG: the handler forgets os.Remove before it answers.
RefuseKeepingFile(s) ==
  /\ reply' = [reply EXCEPT ![s] = "refused"]
  /\ UNCHANGED temp

\* The handler gives up with a 4xx or 5xx, and removes what it staged.
Refuse(s) ==
  /\ reply' = [reply EXCEPT ![s] = "refused"]
  /\ temp' = [temp EXCEPT ![s] = FALSE]

\* A bad method, body, field or file type: nothing was staged yet.
RejectRequest(s) ==
  /\ At(handler, s, "new", "done")
  /\ Refuse(s)
  /\ UNCHANGED <<kind, worker, payload, stored, store, gaps, hook>>

\* A URL scan goes straight to its mark; an upload is staged first.
AcceptURL(s) ==
  /\ At(handler, s, "new", "marking")
  /\ kind' = [kind EXCEPT ![s] = "url"]
  /\ UNCHANGED <<worker, reply, temp, payload, stored, store, gaps, hook>>

StageUpload(s) ==
  /\ kind' = [kind EXCEPT ![s] = "file"]
  /\ \/ /\ At(handler, s, "new", "staging")
        /\ temp' = [temp EXCEPT ![s] = TRUE]
        /\ UNCHANGED reply
     \/ At(handler, s, "new", "done") /\ Refuse(s)
  /\ UNCHANGED <<worker, payload, stored, store, gaps, hook>>

\* The copy fails (500), the archive is encrypted (415), or the upload stands.
CheckUpload(s) ==
  /\ \/ At(handler, s, "staging", "done") /\ Refuse(s)
     \/ At(handler, s, "staging", "marking") /\ UNCHANGED <<reply, temp>>
  /\ UNCHANGED <<kind, worker, payload, stored, store, gaps, hook>>

\* A SET of Redis that succeeds, or fails and is only logged.
SetStore(s, value, what) ==
  \/ store' = [store EXCEPT ![s] = value] /\ UNCHANGED gaps
  \/ gaps' = [gaps EXCEPT ![s] = @ \cup {what}] /\ UNCHANGED store

\* BUG: the handler starts the goroutine first and marks the scan afterwards.
MarkAfterStart(s) ==
  \/ /\ handler[s] = "marking" /\ worker[s] = "none"
     /\ worker' = [worker EXCEPT ![s] = IF kind[s] = "url" THEN "fetch" ELSE "open"]
     /\ UNCHANGED <<kind, handler, reply, temp, payload, stored, store, gaps, hook>>
  \/ /\ worker[s] # "none"
     /\ At(handler, s, "marking", "started")
     /\ SetStore(s, Processing, "mark")
     /\ UNCHANGED <<kind, worker, reply, temp, payload, stored, hook>>

\* markScanProcessing
MarkScanProcessing(s) ==
  /\ At(handler, s, "marking", "marked")
  /\ SetStore(s, Processing, "mark")
  /\ UNCHANGED <<kind, worker, reply, temp, payload, stored, hook>>

StartWorker(s) ==
  /\ At(handler, s, "marked", "started")
  /\ worker' = [worker EXCEPT ![s] = IF kind[s] = "url" THEN "fetch" ELSE "open"]
  /\ UNCHANGED <<kind, reply, temp, payload, stored, store, gaps, hook>>

\* The 202 is written before the go statement, but reaches the client only when
\* the handler returns and net/http flushes it: the worker may be ahead by then.
AnswerAccepted(s) ==
  /\ At(handler, s, "started", "done")
  /\ reply' = [reply EXCEPT ![s] = "202"]
  /\ UNCHANGED <<kind, worker, temp, payload, stored, store, gaps, hook>>

Handler(s) ==
  \/ RejectRequest(s) \/ AcceptURL(s) \/ StageUpload(s) \/ CheckUpload(s)
  \/ MarkScanProcessing(s) \/ StartWorker(s) \/ AnswerAccepted(s)
-----------------------------------------------------------------------------
(* The worker: staging and scanning *)

\* A step of the worker that decides what is published, or not yet.
WorkerStep(s, here, there, result) ==
  /\ At(worker, s, here, there)
  /\ payload' = [payload EXCEPT ![s] = result]
  /\ UNCHANGED <<kind, handler, reply, stored, store, gaps, hook>>

\* Every error path publishes an ERROR with neither path nor link.
WorkerFails(s, here) ==
  WorkerStep(s, here, "config", ErrorPayload) /\ UNCHANGED temp

\* os.Open of the staged upload
OpenUpload(s) ==
  \/ WorkerFails(s, "open")
  \/ WorkerStep(s, "open", "scan", NoPayload) /\ UNCHANGED temp

\* The GET of the URL: an error or a status other than 200, or a body.
FetchURL(s) ==
  \/ WorkerFails(s, "fetch")
  \/ WorkerStep(s, "fetch", "create", NoPayload) /\ UNCHANGED temp

CreateTemp(s) ==
  \/ WorkerFails(s, "create")
  \/ /\ WorkerStep(s, "create", "copy", NoPayload)
     /\ temp' = [temp EXCEPT ![s] = TRUE]

\* The body is copied and tested for an encrypted ZIP, which is published as
\* INFECTED without being scanned or stored.
CopyBody(s) ==
  \/ WorkerFails(s, "copy")
  \/ WorkerStep(s, "copy", "config", Payload("INFECTED", FALSE, FALSE)) /\ UNCHANGED temp
  \/ WorkerStep(s, "copy", "scan", NoPayload) /\ UNCHANGED temp

\* BUG: an engine error returns without publishing.
ScanErrorReturns(s) ==
  \E outcome \in ScanOutcomes :
    /\ IF outcome = "clamErr" THEN WorkerStep(s, "scan", "return", NoPayload)
       ELSE WorkerStep(s, "scan", "persist", Payload(formatStatus(outcome), FALSE, FALSE))
    /\ UNCHANGED temp

\* RunMultiEngineScanTimed returns one of the outcomes ScanCall allows.
RunScan(s) ==
  \E outcome \in ScanOutcomes :
    IF outcome = "clamErr" THEN WorkerFails(s, "scan")
    ELSE /\ WorkerStep(s, "scan", "persist", Payload(formatStatus(outcome), FALSE, FALSE))
         /\ UNCHANGED temp
-----------------------------------------------------------------------------
(* The worker: persistScannedFile *)

PersistStep(s, there) ==
  /\ At(worker, s, "persist", there)
  /\ UNCHANGED <<kind, handler, reply, temp, store, gaps, hook>>

\* No bucket is configured for the verdict, or the PutObject fails, in which
\* case S3 may have kept the object all the same.
PersistNothing(s) ==
  /\ PersistStep(s, "config")
  /\ UNCHANGED payload
  /\ \/ UNCHANGED stored
     \/ /\ bucketFor(payload[s].word) # "none"
        /\ stored' = [stored EXCEPT ![s] = @ \cup {bucketFor(payload[s].word)}]

\* The file is uploaded but the presigning fails: no path, no audit record.
PersistUnsigned(s) ==
  /\ bucketFor(payload[s].word) # "none"
  /\ PersistStep(s, "config")
  /\ stored' = [stored EXCEPT ![s] = @ \cup {bucketFor(payload[s].word)}]
  /\ UNCHANGED payload

\* BUG: the presigned URL is returned for either bucket.
LinkAlways(s) ==
  /\ bucketFor(payload[s].word) # "none"
  /\ PersistStep(s, IF payload[s].word = "CLEAN" THEN "audit" ELSE "config")
  /\ stored' = [stored EXCEPT ![s] = @ \cup {bucketFor(payload[s].word)}]
  /\ payload' = [payload EXCEPT ![s].path = TRUE, ![s].link = TRUE]

\* BUG: that a verdict has no bucket is not looked at.
UploadAnyVerdict(s) ==
  /\ PersistStep(s, IF payload[s].word = "CLEAN" THEN "audit" ELSE "config")
  /\ stored' = [stored EXCEPT ![s] = @ \cup {bucketFor(payload[s].word)}]
  /\ payload' = [payload EXCEPT ![s].path = TRUE, ![s].link = payload[s].word = "CLEAN"]

\* The file is uploaded and signed; only a CLEAN file's URL is handed out, and
\* only a CLEAN file gets an audit record.
PersistSigned(s) ==
  /\ bucketFor(payload[s].word) # "none"
  /\ PersistStep(s, IF payload[s].word = "CLEAN" THEN "audit" ELSE "config")
  /\ stored' = [stored EXCEPT ![s] = @ \cup {bucketFor(payload[s].word)}]
  /\ payload' = [payload EXCEPT ![s].path = TRUE, ![s].link = payload[s].word = "CLEAN"]

\* writeAuditRecord; a failure is only logged.
WriteAudit(s) ==
  /\ At(worker, s, "audit", "config")
  /\ \/ stored' = [stored EXCEPT ![s] = @ \cup {"audit"}]
     \/ UNCHANGED stored
  /\ UNCHANGED <<kind, handler, reply, temp, payload, store, gaps, hook>>

PersistFile(s) == PersistNothing(s) \/ PersistUnsigned(s) \/ PersistSigned(s)
-----------------------------------------------------------------------------
(* The worker: publishAsyncResultFull, then the deferred os.Remove *)

\* The webhook of the tenant's configuration, when there is one and it can be
\* read, overrides the request's, which may be absent too.
ReadTenantConfig(s) ==
  /\ At(worker, s, "config", "cache")
  /\ \E to \in {"tenant", "request", "nobody"} :
       hook' = [hook EXCEPT ![s] = [to |-> to, state |-> "idle"]]
  /\ UNCHANGED <<kind, handler, reply, temp, payload, stored, store, gaps>>

\* BUG: the webhook is posted before the result is in Redis.
PostFirst(s) ==
  /\ \/ /\ At(worker, s, "cache", "cache last")
        /\ IF hook[s].to = "nobody" THEN UNCHANGED hook
           ELSE hook' = [hook EXCEPT ![s].state = "sending"]
        /\ UNCHANGED <<store, gaps>>
     \/ /\ At(worker, s, "cache last", "return")
        /\ SetStore(s, payload[s], "final")
        /\ UNCHANGED hook
  /\ UNCHANGED <<kind, handler, reply, temp, payload, stored>>

CacheResult(s) ==
  /\ At(worker, s, "cache", "post")
  /\ SetStore(s, payload[s], "final")
  /\ UNCHANGED <<kind, handler, reply, temp, payload, stored, hook>>

\* The POST runs in a goroutine of its own.
StartPost(s) ==
  /\ At(worker, s, "post", "return")
  /\ IF hook[s].to = "nobody" THEN UNCHANGED hook
     ELSE hook' = [hook EXCEPT ![s].state = "sending"]
  /\ UNCHANGED <<kind, handler, reply, temp, payload, stored, store, gaps>>

\* One attempt, no retry: the receiver gets it, or it is lost.
DeliverPost(s) ==
  /\ hook[s].state = "sending"
  /\ \E fate \in {"delivered", "lost"} : hook' = [hook EXCEPT ![s].state = fate]
  /\ UNCHANGED <<kind, handler, worker, reply, temp, payload, stored, store, gaps>>

WorkerReturns(s) ==
  /\ At(worker, s, "return", "ended")
  /\ temp' = [temp EXCEPT ![s] = FALSE]
  /\ UNCHANGED <<kind, handler, reply, payload, stored, store, gaps, hook>>

Worker(s) ==
  \/ OpenUpload(s) \/ FetchURL(s) \/ CreateTemp(s) \/ CopyBody(s) \/ RunScan(s)
  \/ PersistFile(s) \/ WriteAudit(s)
  \/ ReadTenantConfig(s) \/ CacheResult(s) \/ StartPost(s) \/ WorkerReturns(s)
-----------------------------------------------------------------------------
(* Polling, Redis' TTL and crashes *)

\* handleAsyncPolling, by the tenant that owns the scan: 404 when the key is
\* absent, 202 while it reads PROCESSING, 200 with a result.  (A 500 on a Redis
\* error tells the client nothing.)
pollAnswer(s) == CASE store[s] = Absent -> "404"
                   [] store[s] = Processing -> "202"
                   [] OTHER -> "200"

\* The 24 h TTL of the key runs out.
ExpireKey(s) ==
  /\ store[s] # Absent
  /\ store' = [store EXCEPT ![s] = Absent]
  /\ gaps' = [gaps EXCEPT ![s] = @ \cup {"expired"}]
  /\ UNCHANGED <<kind, handler, worker, reply, temp, payload, stored, hook>>

\* The process dies: handlers and goroutines are gone, and so is the answer of
\* a handler that had not returned.
Crash ==
  /\ handler' = [s \in Scans |-> IF handler[s] \in {"new", "done"} THEN handler[s]
                                 ELSE "lost"]
  /\ worker' = [s \in Scans |-> IF worker[s] \in {"none", "ended"} THEN worker[s]
                                ELSE "lost"]
  /\ hook' = [s \in Scans |-> IF hook[s].state = "sending"
                              THEN [hook[s] EXCEPT !.state = "lost"] ELSE hook[s]]
  /\ UNCHANGED <<kind, reply, temp, payload, stored, store, gaps>>
-----------------------------------------------------------------------------
Init ==
  /\ kind = [s \in Scans |-> "file"]
  /\ handler = [s \in Scans |-> "new"]
  /\ worker = [s \in Scans |-> "none"]
  /\ reply = [s \in Scans |-> "none"]
  /\ temp = [s \in Scans |-> FALSE]
  /\ payload = [s \in Scans |-> NoPayload]
  /\ stored = [s \in Scans |-> {}]
  /\ store = [s \in Scans |-> Absent]
  /\ gaps = [s \in Scans |-> {}]
  /\ hook = [s \in Scans |-> [to |-> "nobody", state |-> "idle"]]

Next ==
  \/ \E s \in Scans : Handler(s) \/ Worker(s) \/ DeliverPost(s) \/ ExpireKey(s)
  \/ Crash

Spec == Init /\ [][Next]_vars

\* Every remote call of a handler or a worker ends: Redis calls after 5 s, the
\* HTTP client after 5 min, the scan once clamd answers (MultiEngine), the S3
\* calls by the SDK's defaults.  Clients, tenants and webhook posts owe nothing.
ServiceFairness ==
  \A s \in Scans :
    /\ WF_vars(MarkScanProcessing(s) \/ StartWorker(s) \/ AnswerAccepted(s))
    /\ WF_vars(Worker(s))

FairSpec == Spec /\ ServiceFairness
-----------------------------------------------------------------------------
(* Properties *)

HandlerPlaces == {"new", "staging", "marking", "marked", "started", "done", "lost"}
WorkerPlaces  == {"none", "open", "fetch", "create", "copy", "scan", "persist", "audit",
                  "config", "cache", "post", "return", "ended", "lost"}

\* Every variable holds what the program, Redis, S3 and a client can hold.
TypeOK ==
  /\ kind \in [Scans -> {"file", "url"}]
  /\ handler \in [Scans -> HandlerPlaces]
  /\ worker \in [Scans -> WorkerPlaces]
  /\ reply \in [Scans -> {"none", "202", "refused"}]
  /\ temp \in [Scans -> BOOLEAN]
  /\ payload \in [Scans -> Payloads]
  /\ stored \in [Scans -> SUBSET {"clean", "quarantine", "audit"}]
  /\ store \in [Scans -> Payloads \cup {Processing, Absent}]
  /\ gaps \in [Scans -> SUBSET {"mark", "final", "expired"}]
  /\ hook \in [Scans -> [to : {"tenant", "request", "nobody"},
                         state : {"idle", "sending", "delivered", "lost"}]]

Published == {"post", "return", "ended"}

\* As long as no Redis write of the scan failed and its key has not expired,
\* the key exists from before the 202 on, reads PROCESSING only until the worker
\* publishes, and then holds the published result; a final value is always the
\* worker's own.  The handler's mark and the worker's result are written by two
\* goroutines (async_scanner.go:49-63, 91-99).
StoreIsAccurate ==
  \A s \in Scans :
    /\ gaps[s] = {} =>
         /\ handler[s] \in {"marked", "started"} \/ reply[s] = "202" => pollAnswer(s) # "404"
         /\ worker[s] \in Published => store[s] = payload[s]
    /\ store[s] \notin {Absent, Processing} =>
         store[s] = payload[s] /\ worker[s] \in Published \cup {"lost"}

\* A receiver that polls when the webhook reaches it reads the very result it
\* was sent, unless Redis refused the result or it has expired
\* (async_scanner.go:91-114).
HookAgreesWithPoll ==
  \A s \in Scans :
    hook[s].state \in {"sending", "delivered"} =>
      store[s] = payload[s] \/ gaps[s] \cap {"final", "expired"} # {}

\* A published path names a file that S3 holds in the bucket of its verdict; a
\* download link is given for a CLEAN file only; an audit record never describes
\* a file that was not uploaded (s3_storage.go:113-170).  README.md:561 and
\* s3_storage.go:90-96 say so too; the comment at shared.go:110-113 does not: by it
\* an INFECTED file has a link to the quarantine bucket.
DownloadIsSafe ==
  \A s \in Scans :
    /\ payload[s].path => bucketFor(payload[s].word) \in stored[s]
    /\ payload[s].link => payload[s].word = "CLEAN" /\ payload[s].path
    /\ "audit" \in stored[s] => "clean" \in stored[s]

\* The staged file is on disk for as long as the scan and the upload read it,
\* and gone when neither the handler nor the worker will touch it again, on
\* every path through either (async_scanner.go:204, 311, 319, 337).
TempFileLifetime ==
  \A s \in Scans :
    /\ worker[s] \in {"open", "scan", "persist"} => temp[s]
    /\ handler[s] \in {"new", "done"} /\ worker[s] \in {"none", "ended"} => ~temp[s]

\* The store, seen through polling, behaves like ScanTicket: a result that is
\* shown never changes and never turns back into PROCESSING.
Ticket == INSTANCE ScanTicket WITH ticket <- [s \in Scans |-> store[s].word]
ImplementsScanTicket == Ticket!Spec

\* Every accepted scan ends with its result published, whichever step failed,
\* unless the process crashed or Redis lost the result.
AcceptedIsPublished ==
  \A s \in Scans :
    handler[s] = "started" ~>
      \/ /\ worker[s] = "ended" /\ payload[s].word # "none"
         /\ store[s] = payload[s] \/ gaps[s] # {}
      \/ worker[s] = "lost"
=============================================================================
