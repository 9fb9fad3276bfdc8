# A TLA+ model of clamav-restapi

The service (`src/`, Go) takes a file by upload, by URL or by S3 event, scans it
with four engines at once, and reports one verdict by HTTP response, polling,
webhook, S3 tags and SNS. This directory models the parts of it in which order,
failure and concurrency decide whether the verdict is right, checks them with
TLC on small instances, and proves the central ones with TLAPS.

## Inventory

| component | state it keeps | operations | what is hard |
|---|---|---|---|
| Multi-engine scan (`multi_engine.go`, `yara_views.go`) | four captured results, clamd's connection, the decoded bundle's temp file | four workers, two YARA passes, merge, aggregation | partial failure of engines, deadlines, a clamd without one, merge order |
| Asynchronous scanning (`async_scanner.go`) | a Redis key per scan, the staged temp file, a webhook POST in flight | two POST handlers and their goroutine, publication, polling | two writers of one key, a failure at every remote call, TTL, crash |
| S3 storage (`s3_storage.go`) | files and audit records in S3 | upload, presign, audit record | steps that fail separately |
| S3 events (`sqs_scanner.go`) | SQS messages, objects, tags, the quarantine bucket | receive, the record loop, acknowledge | at-least-once delivery, concurrent deliveries, users writing to the bucket, crash |
| Decoded bundle (`pdf_decode.go`) | a bounded output buffer | decode, nested decode, truncate | several bounds at once |
| MalwareBazaar (`malwarebazaar.go`) | a Redis key per hash | lookup, cache | failure against miss, stale entries |
| Dashboard (`scan_dashboard.go`) | cached audit rows per tenant and day | list, read, cache, sort, page | late records, partial reads, the row cap |
| Synchronous scanning (`clamrest.go`, `url_scanner.go`) | a staged temp file | scan in the request | multipart errors, status mapping, a scan that outlives its client |
| Process and start-up (`clamrest.go`, `entrypoint.sh`) | the process, clamd's database | wait for clamd, serve, reload, end together | order of start-up, one process ending all |
| Authentication (`middleware.go`) | the JWKS | fetch once, check each token, twice over for administrators | no retry, two copies of the checks |
| Admin (`admin.go`), guards (`archive_guard.go`, `file_type_policy.go`), helpers (`shared.go`) | none | forwarded commands, predicates, formatting, `parseSize` | numeric edges |
| Scripts, containers, tests | none of the service's | | |

The endpoints and the event workers call the multi-engine scan and know only its
answer. Asynchronous and event workers share `publishAsyncResultFull`, which
writes the result to Redis and starts the webhook. Synchronous and asynchronous
workers share `persistScannedFile`; the audit records it writes are what the
dashboard reads. Scans of the same content share the Redis entry of its hash,
queries of the same tenant the cached days. Nothing else is shared: every scan has
an id, a temp file and goroutines of its own, and the configuration does not change
after the start.

What makes each part correct:

- multi-engine scan: no hit is lost, none is invented, reduced coverage is said;
- asynchronous scan: polling, webhook and store agree, a result is final, every
  accepted scan gets one, temp files and links live exactly as long as they may;
- S3 events: actions on an object rest on a scan of it, nothing is deleted that
  is not kept, a message goes only when its records are settled, and none of them
  keeps it;
- synchronous scan: the status code is the verdict, storage agrees with it, the
  temp file goes with its handler, and only an authorised request gets there;
- bundle: output within its bounds, the tail cut first, truncation reported;
- lookup and dashboard caches: what is cached was once true, a failure is never
  cached as an answer, and what is stale is so for a bounded time;
- dashboard: a tenant sees its own records, and misses one only for a reason;
- start: a process serves or ends, and does not hang in between, unless
  clamd stays silent.

## Modules

- `ScanTypes` -- the status words, what one scan can return, `formatStatus`.
- `ScanCall` -- abstract: what a caller of `RunMultiEngineScan` may rely on.
  Detections accumulate, and the one answer is FOUND exactly if there are any,
  unless the call ends in an error.
- `MultiEngine` -- one call of `RunMultiEngineScanTimed`. A variable per captured
  Go variable (`clam`, `raw`, `view`, `yara`, `maldet`, `bazaar`) and the
  `verdict`; one action per way a worker can end. A subprocess ends with an
  `exit` (was its deadline past, status 0 or not, and whether it printed nothing,
  hits, or other text, on stdout or stderr, which are read together), which is kept
  beside the result that `RunYaraScan` and `RunMaldetScan` read from it.
  Descriptions become the sets of engines named as hits and in the warning.
- `MultiEngineProofs` -- its theorems.
- `ScanTicket` -- abstract: what polling shows of a scan: absent, PROCESSING, then
  a final word that stays until it expires.
- `AsyncScan` -- one asynchronous scan per id: `handler` and `worker` are the two
  program counters; every remote call is an action that can also fail. `payload`
  is what is published, `store` is Redis, `stored` is S3, `temp` the staged file,
  `hook` the webhook. `gaps` is a history variable: the reasons why Redis may not
  show a scan's state. The places follow the code:

  | place of the worker | code |
  |---|---|
  | open / fetch, create, copy | `async_scanner.go` 337-345 / 170-221 |
  | scan | 223-230, 352-357 |
  | persist, audit | `persistScannedFile`, `uploadAndPresign`, `writeAuditRecord` |
  | config, cache, post | `publishAsyncResultFull` |
  | return | the deferred `os.Remove` |

- `AsyncScanProofs` -- its theorems.
- `S3Event` -- `processS3Event` and what surrounds it. `worker` holds the loop
  counter and the local variables of each goroutine, and a step is one AWS call:
  fetch and stage, scan, read tags, write tags, copy, delete, notify. `object` is
  the bucket, `quarantine` the last copy under each key, `event` the queue. A
  version is an object of its own: `Versioned` are those whose records carry a
  versionId, which no user can overwrite. `scans`, `given` and `alerts` are
  history. `MCS3Event` holds its instances, `S3EventProofs` its theorems.
- `DecodeBundle` -- `buildDecodedBundle` on one file under one MAX_FILE_SIZE.
  `pc` is the place in its loop and in the nested calls, `pos` and `streams` its
  position, `pieces` and `size` the bundle, `truncated` the flag. A file is a
  sequence of `stream` and `endstream` keywords, each stream with the layers that
  the decoders would find in it; of every text only its length and its number of
  NULs count. `parseSize` is an operator with the product cut to its width.
  `MCDecodeBundle` holds the files and settings, `DecodeBundleProofs` its theorems.
- `Auth` -- the two middlewares, as operators from what they look at of a token to
  a code or a tenant.
- `Service` -- the process (`phase`, `attempt`, `jwks`) and `clamd`: the one fetch of
  the keys, `waitForClamD`, reloads and hangs during which clamd serves nobody, the end of the
  container with any of its processes and its replacement.
- `HashReputation` -- concurrent `RunMalwareBazaarLookup` calls for one hash. `cache`
  is its Redis entry, `known` the time abuse.ch learnt of it, `lookup` where each
  call is, between the question, the answer and the Redis write.
- `SyncScan` -- `scanHandler` and `scanURLHandler`, composed of the last three:
  `request[r].at` is the handler's place, from the middleware over the form or the
  fetch, the copy, the scan with its lookup, the upload, the link and the audit
  record to the answer. `temp`, `file` and `audit` are what it leaves, `code`, `path`
  and `link` what it answers.
  `SyncScanProofs` holds the theorems of the four modules.
- `AuditTrail` -- the clock and the writers of audit records, with the three
  instants of one: its day, its time of upload, its own upload.
- `Dashboard` -- queries beside those writers. `query[q]` is the handler: `lookup`
  and `read` are `loadDay` before and after the listing, `keys`, `reading` and
  `slots` its fetchers, `rows` and `all` the rows of the day and of the query,
  `answer` the end of `queryRows`. `cache` is Redis. `MCDashboard` holds the
  instance, `DashboardRows` lemmas about filtering, order, pages and cuts, and
  `DashboardProofs` the theorems.

`AsyncScan`, `SyncScan` and `S3Event` take the outcome of a scan as any of
`ScanOutcomes`, `SyncScan` adding the hit of the lookup it models:
`MultiEngine` implements `ScanCall`, whose answers these are.

The definitions whose comment begins with BUG are faulty variants of the
definition that follows them. Nothing uses them: substituted for it, they show
that a property can fail.

## Runs

| run | module, cfg | instance | states |
|---|---|---|---|
| `multi_engine` | `MultiEngine` | one call, every exit of every subprocess, at most two clamd replies | 402,948 |
| `async_scan` | `AsyncScan` | one scan, either endpoint, any failure, any number of crashes | 8,721 |
| `s3_event` | `MCS3Event`, `S3Event.cfg` | a queued event (a creation and a removal) and a POSTed one about one version, two workers, four settings | 300,632 |
| `s3_users` | `MCS3Event`, `S3Users.cfg` | an event of two created records, of a version and of an unversioned object; one worker, a user write, two settings | 3,916,172 |
| `decode_bundle` | `MCDecodeBundle`, `DecodeBundle.cfg` | every file of up to three keywords and some of five, eight settings | 29,850 |
| `sync_scan` | `SyncScan` | an upload and a URL scan of the same content, two attempts to reach clamd, one restart | 662,686 |
| `dashboard` | `MCDashboard`, `Dashboard.cfg` | two queries, one record being written and one there already, five instants | 176,708 |

Five more runs refute a sentence of the documentation or of a comment:

| run | property | sentence |
|---|---|---|
| `engine_timeout` | `AlwaysReturns` | README.md:28, every engine runs under a bounded timeout: clamd does not |
| `clamd_no_reply` | `CleanMeansClamAVReplied` | README.md:28, an engine that does not complete is flagged: a clamd that closes without a reply is not |
| `s3_tags` | `UserTagsPreserved` | README.md:358, custom tags are preserved: not when they cannot be read, or change meanwhile |
| `s3_alerts` | `AlertsMeanMalware` | README.md:359, alerts only for malware: an engine's ERROR counts as INFECTED |
| `s3_quarantine` | `QuarantineRetains` | README.md:563, quarantined files are retained: a later copy under the same key replaces the earlier |

### What the passing runs show

`multi_engine`: a hit of any engine that ended in time makes the verdict FOUND and
is named in it (`NoHitIsLost`); FOUND rests on a hit that an engine reported, or on
the one thing that `RunYaraScan` takes for a hit, other output of a YARA pass that
exited 0, such as a warning: `CombinedOutput` mixes stderr in (multi_engine.go:73),
though the comment at line 93 takes all of it for rule names (`FoundHasEvidence`, with
`WarnedOnly` as its exception, which the run reaches); CLEAN
without a warning means full coverage (`CleanIsComplete`, whose comment names the
two exceptions the code has); the bundle's file is removed; the call keeps the
contract of `ScanCall`; and it returns once clamd is done (`ReturnsAfterClamd`).

`async_scan`: unless a write of the scan failed or its key expired, the key is
there from before the 202 and reads what the worker published
(`StoreIsAccurate`); a receiver that polls from its webhook reads what it was
sent (`HookAgreesWithPoll`); paths and links name files that are stored, links
clean ones only (`DownloadIsSafe`); the temp file lives as long as it is read and
no longer (`TempFileLifetime`); a shown result is final (`ImplementsScanTicket`);
every accepted scan is published unless the process dies (`AcceptedIsPublished`).

`s3_event` and `s3_users`: tags, copies, deletions and alerts rest on completed
scans of the same version, or for an unversioned object of some content it has
had (`ActionsAreBacked`); without AWS_S3_DELETE_INFECTED a deleted version is in
quarantine (`NothingIsLost`); an acknowledged message has all its records scanned
or given up (`AckedIsSettled`); and no record, whatever fails on it, keeps its
message coming back (`EventuallyAcknowledged`). That property names what else may:
a process that crashes again and again, deliveries that all hang, and deletes that
keep failing. The last is not far-fetched: the visibility timeout is never extended
(sqs_scanner.go:123), so when scans outlast it a message is received again before
each delete, whose receipt handle is then an old one (405-409). `s3_users` has two
created records in one event, so that a status carried from one to the next shows.

`decode_bundle`: no bundle outgrows a setting that means something, nor the
ceiling, whatever an unset, malformed or overflowing setting says
(`BundleFitsSetting`); what was decoded before a piece that is there is there
whole (`CutsTheTail`); without `truncated` nothing that the limits on depth and
number admit is missing (`UnflaggedIsComplete`), with it something is
(`FlaggedIsCut`); and every file is done with (`Terminates`). `UnflaggedIsComplete`
excepts two stops in silence, where the comment at pdf_decode.go:83 says that a
bound that is hit sets truncated: the depth limit, and a bundle filled to the byte.

`sync_scan`: 200, 400, 406, 412 and 415 mean what README.md:546-550 says, and a
verdict gets no other code (`CodesMeanVerdicts`), with three exceptions: a form
without a file is a 200, a URL that is refused or cannot be fetched a 400, and an
upload that could not be parsed a 413 (clamrest.go:147-149), where README.md:549 has
412 and the URL endpoint answers that. What is stored and told of it
agrees with the scan wherever storing it failed (`StoredIsScanned`); the temp file
outlasts only a handler that the container took down (`TempFileLifetime`); no request
is worked on without keys to check it with (`HandledIsAuthorized`), and an
administrator passes as a user too (`AdminsAreUsers`); "not found" was true within the
TTL and one call's time, though lookups overwrite each other's entries
(`NotFoundIsRecent`); a process that waits for clamd serves or ends (`StartsOrEnds`),
unless clamd accepts connections and stays silent: `Ping`, `Version` and the range
over its channel (clamrest.go:172-186) have no read deadline, and such an attempt is
never counted. Two more things the documents do not say: a 200 of abuse.ch that says
neither yes nor no is cached as no; and without keys everything is refused, although
`InitJWKS` logs that authentication is disabled.

`StoredIsScanned` and `DownloadIsSafe` of `async_scan` ask that no link to an infected
file be given. Here the repository disagrees with itself: README.md:561, the comment
at s3_storage.go:90-96 and the code say so, the comment at shared.go:110-113 promises
a presigned link to the quarantine bucket.

`dashboard`: rows are records of the tenant and the window, once and within the
limit, in pages that divide them (`ShownIsRecorded`); a record that is missing from
an answer not marked truncated was written too recently or too late for the cache,
could not be read by this query, or is filed under a day outside the window
(`MissingIsExcused`, each of which happens in the run); every query ends
(`QueryEnds`). The last two reasons are nowhere told to the client, and the comment
at scan_dashboard.go:98 promises every record uploaded in the window: a record whose
upload runs over midnight is filed under the day it began.

### Bounds

- `MaxReplies = 2`: a scan's stream has one reply; two suffice to have a later
  reply replace an earlier one.
- One scan in `async_scan`: scans share no state, so a second one adds only
  interleavings, except for the crash, which hits each where it is. The proofs hold
  for any set of scans.
- Two workers in `s3_event`: any two deliveries of the same record can overlap,
  and as either worker can take the event again, more than two follow each other.
  One object suffices there because records of different objects touch no
  common state, apart from a quarantine key, which `NothingIsLost` excludes by
  `OwnsKey` and `s3_quarantine` is about.
- The passing event runs leave out ERROR and PARSE ERROR from `Outcomes`, which
  `scanStatus` maps as it maps FOUND; `s3_alerts` has all outcomes.
- `MaxWrites = 1` in `s3_users`: an overwrite or an edit of either object before,
  between and after the worker's calls; with `Quarantining`, so that every place of
  the worker is reached. `MaxWrites = 2` in the refutations.
- `decode_bundle`: two streams and two layers reach both limits and the step beyond
  them; three keywords give every way that bodies can nest, overlap or lack their
  end, and five the three streams in sequence that the stop at `MaxStreams` takes;
  `KiB = 2` and 6-bit integers keep each unit, the overflow and the ceiling
  apart.
- `sync_scan`: two requests are what shares the hash's entry. `MaxTime = 3` is a TTL
  of one, a call of one, and one more for old news to be noticed; time passes, and
  signatures reload, only while a lookup may still be made; clamd falls silent only
  while the start or a request can notice. `MaxRestarts = 1` has
  requests before and after a restart; a container nobody sends a request to is not
  followed. `MaxAttempts = 2` stands for 90.
- `dashboard`: times are in minutes and the constants are the code's, but for
  `PageSize`, `Fetchers` and `RowLimits`, which two records can reach. Of all
  minutes five are `Instants`: the last of a day, the first of the next, the first
  after the grace period, one later than any cached open day, and the day after.
  `ReadTime = 1` lets a query run over midnight and no longer. Queries are numbered
  as they come, each is made once, and nothing is followed after the last; the
  first is of the tenant with the records. Listing a day is one instant, though
  S3 gives it in pages. One read fails to a query.
- Crashes are not bounded, but in `sync_scan`: they lead back to states already
  seen.
- `CHECK_DEADLOCK FALSE` everywhere: a call returns, a scan ends and a queue runs
  empty.

### Fairness

- `MultiEngine`: a YARA pass or maldet ends at its deadline at the latest, because
  `exec.CommandContext` kills it; `CombinedOutput` also waits for children that
  keep the pipe open, and those are assumed to end with it. The lookup's request
  carries a deadline. Clamd is under no fairness at all, because nothing in the
  code bounds it: liveness starts where clamd is done.
- `AsyncScan`: the worker's steps end. Redis calls end after 5 s, the HTTP
  client has a timeout, local file calls end, and the AWS SDK's retries are
  finite. The scan itself ends if clamd does: `AcceptedIsPublished` assumes it.
  Clients, webhook receivers and the TTL owe nothing.
- `S3Event`: the consumer goes on receiving what the queue still has (and the queue
  keeps it: its retention is taken to be longer than the trouble). Nothing is assumed
  of workers, whose AWS calls use `context.TODO()` and whose scans wait for clamd, nor
  of `DeleteMessage`: `EventuallyAcknowledged` has them as exceptions.
- `DecodeBundle`: one goroutine that waits for nobody.
- `SyncScan`: a process tries clamd by the clock, while clamd is not silent. That
  clamd loads or speaks again, that a handler goes on (neither clamd's stream nor an
  S3 call has a deadline, so no property says that requests end), that anyone restarts
  the container or sends a request, is left open.
- `Dashboard`: a query under way goes on: Redis answers within 2 s, and an S3 read
  ends, if not otherwise then with its request's context when the client gives up.

## Proofs

`MultiEngineProofs` proves `TypeOK`, `NoHitIsLost`, `FoundHasEvidence`,
`CleanIsComplete` and `NoTempFileLeft` as invariants of `MultiEngine` for every
`MaxReplies`, and `ImplementsScanCall`: every behaviour is one of `ScanCall`. The
only assumption is that `MaxReplies` is a natural number.

The properties speak of the verdict alone, so none is inductive. The inductive
invariant adds, per worker, that a result that is in is the one the exit's
reading gives (`raw.result = RunYaraScan(raw.exit)` and so on), that the merged
YARA result is the merge of both passes, that the bundle's file exists only while
its pass is to come, and that a verdict that is not pending is the aggregate of
four finished workers. Each property then follows from the definitions of the
readers and the aggregation. For the refinement, `Detected` can only grow because
a worker's result is final once it is done, and the aggregation is `Answer`.

`AsyncScanProofs` proves every safety property of `AsyncScan` (`TypeOK`,
`StoreIsAccurate`, `HookAgreesWithPoll`, `DownloadIsSafe`, `TempFileLifetime`) and
its refinement of `ScanTicket`, for any set of scans and from no assumption. The
inductive invariant says how far a handler and its worker can be apart, and what
each resource holds there:

- `HandlerInv`: a worker exists from its start on, which is after the mark, and a
  202 goes out after that;
- `StoreInv`: the key is absent before the mark, and holds no result before the
  publication. With `HandlerInv` it orders the two writers of the key;
- `FileInv`: a worker about to write an audit record has stored its file;
- `TempInv`: who owns the temp file, the handler up to the start and then the
  worker up to its return;
- `HookInv`: a POST exists only after the publication, also when a crash has
  since lost the worker, so that the store or `gaps` accounts for what it carries.

For the refinement, only the mark, the publication and the TTL change the store:
the mark finds the key absent and the publication finds no result under it.

`S3EventProofs` proves `TypeOK`, `ActionsAreBacked`, `NothingIsLost` and
`AckedIsSettled`, for any workers, objects, events and settings, any writes of users
and crashes at any point (`S3Assumption` types the constants). Each property looks
back from an effect to a scan, past steps of other workers and of users. So the
invariant says of every worker what it may rely on where it is (`WorkerOK`: the
content it holds is one that the object has had and has been scanned with the result
it acts on, what it copied is held, the records before its own are settled), and of
every object what its tag, its absence, its alert and its copies rest on (`ObjectOK`),
whichever worker caused them. A worker that a crash takes leaves only `ObjectOK`.

`SyncScanProofs` proves every safety property of `SyncScan` and of the modules it
composes: `TypeOK`, `CodesMeanVerdicts`, `StoredIsScanned`, `TempFileLifetime`,
`HandledIsAuthorized`, `AdminsAreUsers`, and the action property `NotFoundIsRecent`,
for any requests, attempts, restarts and times (`ServiceAssumption`,
`ReputationAssumption`: they are natural numbers). `RequestOK` says what each place of
the handler implies of its code, its verdict, what it stored and its temp file. For
`NotFoundIsRecent` the cache has an invariant of its own: an entry expires within TTL,
and one that says "not found" within Timeout and TTL of the hash becoming known
(`CacheOK`); a call runs within Timeout, and one that was told "not found" began
before the hash was known (`LookupOK`). The slower of two lookups may overwrite the
other's answer with old news, but not with older than that.

`DecodeBundleProofs` proves all safety properties of `DecodeBundle` for every file,
setting and width of integers, from the named assumptions on the constants (a ceiling
that fits an integer, limits that are natural numbers, files and settings of their
sets). `BundleFitsSetting` needs that the limit is one of the three that
`decodeLimitBytes` can give (`LimitBounds`), for which a product that fits must
survive `Wrap` (`WrapKeeps`, the remainder being the identity there), and that `emit`
keeps what is typed and within the limit (`EmitTyped`), whichever action calls it.
`CutsTheTail`, `UnflaggedIsComplete` and `FlaggedIsCut` need `BundleOK`: the streams
counted are the `stream` keywords before `pos` (`SearchOK`), an admitted layer that the
decoders are past is whole while there is room, and without the flag unless it fills the
limit to the byte (`LayerOK`), what is before a piece is whole (`PieceOK`), and the flag
has a reason that is not made good later (`Reason`).

`DashboardProofs` proves `TypeOK`, `ShownIsRecorded` and `MissingIsExcused` for any
records, tenants, instants, queries, limits and times (`TrailAssumption`,
`DashboardAssumption`). The invariant has four parts:

- `RecordOK`: the three instants of a record are in order, its day not after its
  upload's;
- `EntryOK`: a cached day is from a query of some start, has every record of its day
  that was written before that start, and is used no longer than `ReadTime` and the
  TTL which that start chose. So whatever it lacks was written too recently or after
  the day was final;
- `AllOK`, `CompleteOK`: of the days a query has looked at, each row is shown
  rightly, and each record shown or excused;
- `ReadOK`: a record of the day being read is in one place, to be read, in a fetcher
  (one per slot taken), read or failed, and a failure leaves `incomplete` set while
  its day lasts.

`DashboardRows` has what these need of the pure parts: `Appending` for the loop that
filters rows, `Sorting` for the order (the place of a row is the number of rows before
it, and a stable comparison is a strict total order), `Paging` for the pages one after
the other being the rows, `Cutting`. Where a definition recurses over data, the lemma
argues by the least counterexample (`Least`), as the library's induction theorems
cannot be instantiated here.

Every invariant and action property that a passing run checks is stated by a theorem.
Only model-checked: the liveness properties `ReturnsAfterClamd`, `AcceptedIsPublished`,
`EventuallyAcknowledged`, `Terminates`, `StartsOrEnds` and `QueryEnds`, which are out
of the prover's reach, and the five refutations. The
theorems are about `Spec`, which `FairSpec` implies.

## Not modelled

- The contents of files, signatures and descriptions, and the engines: their
  outcomes are free. Encrypted archives and file types are a choice where the
  code tests for them.
- Formatting, logging and the request ids (which, unlike README.md:543 says, the
  health check's answers do not carry), timings and S3 key layout.
- In `S3Event`, temp files (nothing else touches them), unparsable or empty
  messages (acknowledged at once) and the webhook per record.
- In `AsyncScan`, a Redis write that is reported as timed out and takes effect
  later than the next one.
- In `SyncScan`, whether an answer reaches its client: `WriteTimeout` may have
  passed, the scan is stored all the same.
- In `Dashboard`, records that do not parse, the dashboard's page and its route.
- The parsing of the environment (`clamrest.go:203-206`, which cuts a value at its
  second `=`), TLS, the health check (a ping of clamd) and the admin status report,
  which keep no state.
- `update_signatures.sh`, the Dockerfile, `clamtrac`, the local test environment and
  the tests: shell around external tools, of which only clamd's reload and the
  container's common end reach the service.

## Plan

1. Done: `MultiEngine` with `ScanCall`, `AsyncScan` with `ScanTicket`, `S3Event`.
2. Done: proofs for `MultiEngine` and `AsyncScan`, with both refinements.
3. Done: `DecodeBundle` with its bound proved; `Auth`, `Service`, `HashReputation`
   and their composition `SyncScan`; `AuditTrail` and `Dashboard`.
4. Done: proofs for `S3Event`, `SyncScan` with `HashReputation`, `DecodeBundle` and
   `Dashboard`.
5. An abstract specification of the audit trail's readers, refined by `Dashboard`: an
   answer as a set of records between what must and what may be shown.
