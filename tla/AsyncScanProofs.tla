--------------------------- MODULE AsyncScanProofs ---------------------------
(***************************************************************************)
(* What AsyncScan promises for any set of scans.  The inductive invariant  *)
(* says, per scan, how far the handler and the worker can be apart, and    *)
(* what Redis, S3, the temp file and the webhook hold at each place.       *)
(***************************************************************************)
EXTENDS AsyncScan, TLAPS

\* The worker exists exactly from its start on, and the 202 comes after it.
HandlerInv ==
  \A s \in Scans :
    /\ worker[s] # "none" =>
         \/ handler[s] \in {"started", "lost"}
         \/ handler[s] = "done" /\ reply[s] = "202"
    /\ handler[s] = "started" => worker[s] # "none"
    /\ reply[s] = "202" => handler[s] = "done" /\ worker[s] # "none"

\* Redis holds nothing before the mark, and the result from its publication on.
StoreInv ==
  \A s \in Scans :
    /\ handler[s] \in {"new", "staging", "marking"} => store[s] = Absent
    /\ handler[s] \in {"marked", "started"} \/ reply[s] = "202" =>
         gaps[s] # {} \/ store[s] # Absent
    /\ worker[s] \in Published => store[s] = payload[s] \/ gaps[s] \cap {"final", "expired"} # {}
    /\ store[s] \notin {Absent, Processing} =>
         store[s] = payload[s] /\ worker[s] \in Published \cup {"lost"}
    /\ worker[s] \in {"persist", "audit", "config", "cache"} \cup Published =>
         payload[s].word \in FinalWords

\* What is published or audited has been stored.
FileInv ==
  \A s \in Scans :
    /\ payload[s].path => bucketFor(payload[s].word) \in stored[s]
    /\ payload[s].link => payload[s].word = "CLEAN" /\ payload[s].path
    /\ "audit" \in stored[s] => "clean" \in stored[s]
    /\ worker[s] = "audit" => "clean" \in stored[s]

\* The temp file is handed from the handler to the worker, which removes it.
TempInv ==
  \A s \in Scans :
    /\ handler[s] = "new" => ~temp[s]
    /\ handler[s] = "staging" => temp[s]
    /\ handler[s] \in {"marking", "marked"} /\ kind[s] = "file" => temp[s]
    /\ worker[s] \in {"open", "copy", "scan", "persist"} => temp[s]
    /\ worker[s] = "ended" => ~temp[s]
    /\ handler[s] = "done" /\ worker[s] = "none" => ~temp[s]

\* The webhook is posted after the result was given to Redis, also by a worker
\* that a crash has lost since.
HookInv ==
  \A s \in Scans : hook[s].state # "idle" =>
    /\ worker[s] \in {"return", "ended", "lost"}
    /\ store[s] = payload[s] \/ gaps[s] \cap {"final", "expired"} # {}

IInv == TypeOK /\ HandlerInv /\ StoreInv /\ FileInv /\ TempInv /\ HookInv

LEMMA Words == FinalWords = {"CLEAN", "INFECTED", "ERROR", "PARSE ERROR"}
BY DEF FinalWords, formatStatus, Statuses

\* The values Redis can hold besides a result, and the results.
LEMMA Values ==
  /\ Absent # Processing
  /\ Absent.word = "absent" /\ Processing.word = "PROCESSING"
  /\ Absent.word \notin FinalWords /\ Processing.word \notin FinalWords
  /\ ErrorPayload \in Payloads /\ NoPayload \in Payloads
  /\ \A word \in FinalWords, path, link \in BOOLEAN : Payload(word, path, link) \in Payloads
  /\ \A outcome \in Statuses : formatStatus(outcome) \in FinalWords
BY Words DEF Absent, Processing, ErrorPayload, NoPayload, Payload, Payloads, formatStatus, Statuses

LEMMA InitInv == Init => IInv
<1> SUFFICES ASSUME Init PROVE IInv
  OBVIOUS
<1>1. TypeOK
  BY Values DEF Init, TypeOK, HandlerPlaces, WorkerPlaces
<1>2. HandlerInv /\ StoreInv /\ TempInv /\ HookInv
  BY DEF Init, HandlerInv, StoreInv, TempInv, HookInv, Published
<1>3. FileInv
  BY DEF Init, FileInv, NoPayload, Payload
<1> QED BY <1>1, <1>2, <1>3 DEF IInv

\* A step of a scan's handler, worker, webhook or key leaves the others alone.
LEMMA HandlerType ==
  ASSUME TypeOK, NEW s \in Scans, Handler(s) PROVE TypeOK'
<1>1. CASE RejectRequest(s)
  BY <1>1 DEF RejectRequest, At, Refuse, TypeOK, HandlerPlaces
<1>2. CASE AcceptURL(s)
  BY <1>2 DEF AcceptURL, At, TypeOK, HandlerPlaces
<1>3. CASE StageUpload(s)
  BY <1>3 DEF StageUpload, At, Refuse, TypeOK, HandlerPlaces
<1>4. CASE CheckUpload(s)
  BY <1>4 DEF CheckUpload, At, Refuse, TypeOK, HandlerPlaces
<1>5. CASE MarkScanProcessing(s)
  BY <1>5 DEF MarkScanProcessing, SetStore, At, TypeOK, HandlerPlaces
<1>6. CASE StartWorker(s)
  BY <1>6 DEF StartWorker, At, TypeOK, HandlerPlaces, WorkerPlaces
<1>7. CASE AnswerAccepted(s)
  BY <1>7 DEF AnswerAccepted, At, TypeOK, HandlerPlaces
<1> QED BY <1>1, <1>2, <1>3, <1>4, <1>5, <1>6, <1>7 DEF Handler

\* The worker's steps, grouped by the part of the code they come from.
Scanning(s)   == OpenUpload(s) \/ FetchURL(s) \/ CreateTemp(s) \/ CopyBody(s) \/ RunScan(s)
Persisting(s) == PersistFile(s) \/ WriteAudit(s)
Publishing(s) ==
  ReadTenantConfig(s) \/ CacheResult(s) \/ StartPost(s) \/ DeliverPost(s) \/ WorkerReturns(s)

LEMMA Steps ==
  ASSUME [Next]_vars
  PROVE  \/ UNCHANGED vars \/ Crash
         \/ \E s \in Scans : \/ Handler(s) \/ Scanning(s) \/ Persisting(s)
                             \/ Publishing(s) \/ ExpireKey(s)
BY DEF Next, Worker, Scanning, Persisting, Publishing

\* A scanning step moves the worker between these places and decides what is
\* published once it leaves for "config" or "persist".
LEMMA ScanningStep ==
  ASSUME TypeOK, NEW s \in Scans, Scanning(s)
  PROVE  \E here \in {"open", "fetch", "create", "copy", "scan"},
            there \in {"create", "copy", "scan", "persist", "config"}, result \in Payloads :
           /\ WorkerStep(s, here, there, result)
           /\ there \in {"persist", "config"} => result.word \in FinalWords
           /\ ~result.path /\ ~result.link
           /\ \/ here = "create" /\ there = "copy" /\ temp' = [temp EXCEPT ![s] = TRUE]
              \/ /\ UNCHANGED temp
                 /\ there \in {"scan", "persist"} => here \in {"open", "copy", "scan"}
                 /\ there # "copy"
<1> USE Values, Words
<1>0. /\ ErrorPayload.word \in FinalWords /\ ~ErrorPayload.path /\ ~ErrorPayload.link
      /\ ~NoPayload.path /\ ~NoPayload.link
      /\ Payload("INFECTED", FALSE, FALSE) \in Payloads
      /\ \A word : LET p == Payload(word, FALSE, FALSE) IN
           p.word = word /\ ~p.path /\ ~p.link
  BY DEF ErrorPayload, NoPayload, Payload
<1>1. CASE OpenUpload(s)
  BY <1>0, <1>1 DEF OpenUpload, WorkerFails
<1>2. CASE FetchURL(s)
  BY <1>0, <1>2 DEF FetchURL, WorkerFails
<1>3. CASE CreateTemp(s)
  BY <1>0, <1>3 DEF CreateTemp, WorkerFails
<1>4. CASE CopyBody(s)
  BY <1>0, <1>4 DEF CopyBody, WorkerFails
<1>5. CASE RunScan(s)
  <2>1. PICK outcome \in ScanOutcomes :
          IF outcome = "clamErr" THEN WorkerFails(s, "scan")
          ELSE /\ WorkerStep(s, "scan", "persist", Payload(formatStatus(outcome), FALSE, FALSE))
               /\ UNCHANGED temp
    BY <1>5 DEF RunScan
  <2>2. CASE outcome = "clamErr"
    BY <1>0, <2>1, <2>2 DEF WorkerFails
  <2>3. CASE outcome # "clamErr"
    <3>1. formatStatus(outcome) \in FinalWords
      BY <2>3 DEF ScanOutcomes
    <3> QED BY <1>0, <2>1, <2>3, <3>1
  <2> QED BY <2>2, <2>3
<1> QED BY <1>1, <1>2, <1>3, <1>4, <1>5 DEF Scanning

LEMMA ScanningType ==
  ASSUME TypeOK, NEW s \in Scans, Scanning(s) PROVE TypeOK'
<1>1. PICK here \in {"open", "fetch", "create", "copy", "scan"},
           there \in {"create", "copy", "scan", "persist", "config"}, result \in Payloads :
        /\ WorkerStep(s, here, there, result)
        /\ temp' = [temp EXCEPT ![s] = TRUE] \/ UNCHANGED temp
  BY ScanningStep
<1>2. temp' \in [Scans -> BOOLEAN]
  BY <1>1 DEF TypeOK
<1>3. worker' \in [Scans -> WorkerPlaces] /\ payload' \in [Scans -> Payloads]
  BY <1>1 DEF WorkerStep, At, TypeOK, WorkerPlaces
<1> QED BY <1>1, <1>2, <1>3 DEF WorkerStep, TypeOK

LEMMA PersistingType ==
  ASSUME TypeOK, NEW s \in Scans, Persisting(s) PROVE TypeOK'
<1>0. bucketFor(payload[s].word) \in {"clean", "quarantine", "none"}
  BY DEF bucketFor
<1>1. CASE PersistNothing(s)
  BY <1>0, <1>1 DEF PersistNothing, PersistStep, At, TypeOK, WorkerPlaces
<1>2. CASE PersistUnsigned(s)
  BY <1>0, <1>2 DEF PersistUnsigned, PersistStep, At, TypeOK, WorkerPlaces
<1>3. CASE PersistSigned(s)
  <2>1. \A p \in Payloads, b \in BOOLEAN : [p EXCEPT !.path = TRUE, !.link = b] \in Payloads
    BY DEF Payloads
  <2> DEFINE clean == payload[s].word = "CLEAN"
  <2>2. payload' \in [Scans -> Payloads]
    <3>1. clean \in BOOLEAN /\ payload[s] \in Payloads
      BY DEF TypeOK
    <3>2. payload' = [payload EXCEPT ![s].path = TRUE, ![s].link = clean]
      BY <1>3 DEF PersistSigned
    <3> HIDE DEF clean
    <3>3. payload' = [payload EXCEPT ![s] = [payload[s] EXCEPT !.path = TRUE, !.link = clean]]
      BY <3>2 DEF TypeOK
    <3>4. [payload[s] EXCEPT !.path = TRUE, !.link = clean] \in Payloads
      BY <2>1, <3>1
    <3> QED BY <3>3, <3>4 DEF TypeOK
  <2> QED BY <1>0, <1>3, <2>2 DEF PersistSigned, PersistStep, At, TypeOK, WorkerPlaces
<1>4. CASE WriteAudit(s)
  BY <1>4 DEF WriteAudit, At, TypeOK, WorkerPlaces
<1> QED BY <1>1, <1>2, <1>3, <1>4 DEF Persisting, PersistFile

LEMMA PublishingType ==
  ASSUME TypeOK, NEW s \in Scans, Publishing(s) PROVE TypeOK'
<1>1. CASE ReadTenantConfig(s)
  <2>1. PICK to \in {"tenant", "request", "nobody"} :
          hook' = [hook EXCEPT ![s] = [to |-> to, state |-> "idle"]]
    BY <1>1 DEF ReadTenantConfig
  <2>2. hook' \in [Scans -> [to : {"tenant", "request", "nobody"},
                            state : {"idle", "sending", "delivered", "lost"}]]
    BY <2>1 DEF TypeOK
  <2> QED BY <1>1, <2>2 DEF ReadTenantConfig, At, TypeOK, WorkerPlaces
<1>2. CASE CacheResult(s)
  <2>1. /\ store' \in [Scans -> Payloads \cup {Processing, Absent}]
        /\ gaps' \in [Scans -> SUBSET {"mark", "final", "expired"}]
    <3>1. CASE store' = [store EXCEPT ![s] = payload[s]] /\ UNCHANGED gaps
      BY <3>1 DEF TypeOK
    <3>2. CASE gaps' = [gaps EXCEPT ![s] = gaps[s] \cup {"final"}] /\ UNCHANGED store
      BY <3>2 DEF TypeOK
    <3> QED BY <1>2, <3>1, <3>2 DEF CacheResult, SetStore
  <2> QED BY <1>2, <2>1 DEF CacheResult, At, TypeOK, WorkerPlaces
<1>3. CASE StartPost(s)
  BY <1>3 DEF StartPost, At, TypeOK, WorkerPlaces
<1>4. CASE DeliverPost(s)
  BY <1>4 DEF DeliverPost, TypeOK
<1>5. CASE WorkerReturns(s)
  BY <1>5 DEF WorkerReturns, At, TypeOK, WorkerPlaces
<1> QED BY <1>1, <1>2, <1>3, <1>4, <1>5 DEF Publishing

LEMMA TypeStep == TypeOK /\ [Next]_vars => TypeOK'
<1> SUFFICES ASSUME TypeOK, [Next]_vars PROVE TypeOK'
  OBVIOUS
<1>1. CASE UNCHANGED vars
  BY <1>1 DEF vars, TypeOK
<1>2. CASE Crash
  BY <1>2 DEF Crash, TypeOK, HandlerPlaces, WorkerPlaces
<1>3. ASSUME NEW s \in Scans, ExpireKey(s) PROVE TypeOK'
  BY <1>3 DEF ExpireKey, TypeOK
<1> QED BY <1>1, <1>2, <1>3, Steps, HandlerType, ScanningType, PersistingType, PublishingType

\* HandlerInv speaks of handler, worker and reply only.
LEMMA HandlerStep == TypeOK /\ HandlerInv /\ [Next]_vars => HandlerInv'
<1> SUFFICES ASSUME TypeOK, HandlerInv, [Next]_vars PROVE HandlerInv'
  OBVIOUS
<1>1. CASE UNCHANGED vars
  BY <1>1 DEF vars, HandlerInv
<1>2. CASE Crash
  BY <1>2 DEF Crash, TypeOK, HandlerInv
<1>3. ASSUME NEW s \in Scans, Handler(s) PROVE HandlerInv'
  BY <1>3 DEF Handler, RejectRequest, AcceptURL, StageUpload, CheckUpload, Refuse, At,
     MarkScanProcessing, StartWorker, AnswerAccepted, TypeOK, HandlerInv
<1>4. ASSUME NEW s \in Scans, \/ Scanning(s) \/ Persisting(s) \/ Publishing(s)
                               \/ ExpireKey(s)
      PROVE  HandlerInv'
  <2>1. UNCHANGED <<handler, reply>>
    BY <1>4, ScanningStep DEF WorkerStep, Persisting, PersistFile, PersistNothing,
       PersistUnsigned, PersistSigned, PersistStep, WriteAudit, Publishing, ReadTenantConfig,
       CacheResult, StartPost, DeliverPost, WorkerReturns, ExpireKey
  <2>2. \A t \in Scans : worker[t] = "none" <=> worker'[t] = "none"
    BY <1>4, ScanningStep DEF WorkerStep, At, Persisting, PersistFile, PersistNothing,
       PersistUnsigned, PersistSigned, PersistStep, WriteAudit, Publishing, ReadTenantConfig,
       CacheResult, StartPost, DeliverPost, WorkerReturns, ExpireKey, TypeOK
  <2> QED BY <2>1, <2>2 DEF HandlerInv
<1> QED BY <1>1, <1>2, <1>3, <1>4, Steps

\* A handler's step leaves the result, S3 and the webhook alone, and moves the
\* worker only from "none" to its first place.
LEMMA HandlerFrame ==
  ASSUME TypeOK, HandlerInv, NEW s \in Scans, Handler(s)
  PROVE  /\ UNCHANGED <<payload, stored, hook>>
         /\ \/ UNCHANGED worker
            \/ /\ worker[s] = "none" /\ handler[s] = "marked"
               /\ \/ kind[s] = "url" /\ worker' = [worker EXCEPT ![s] = "fetch"]
                  \/ kind[s] = "file" /\ worker' = [worker EXCEPT ![s] = "open"]
<1>1. CASE StartWorker(s)
  BY <1>1 DEF StartWorker, At, TypeOK, HandlerInv
<1>2. CASE ~StartWorker(s)
  BY <1>2 DEF Handler, RejectRequest, AcceptURL, StageUpload, CheckUpload,
     MarkScanProcessing, AnswerAccepted
<1> QED BY <1>1, <1>2

\* A crash loses the goroutines that were at work, and nothing that lasts.
LEMMA CrashFrame ==
  ASSUME TypeOK, Crash
  PROVE  /\ UNCHANGED <<kind, reply, temp, payload, stored, store, gaps>>
         /\ \A t \in Scans :
              /\ \/ handler'[t] = handler[t]
                 \/ handler'[t] = "lost" /\ handler[t] \notin {"new", "done"}
              /\ \/ worker'[t] = worker[t] /\ worker[t] \in {"none", "ended", "lost"}
                 \/ worker'[t] = "lost" /\ worker[t] \notin {"none", "ended"}
              /\ hook'[t].state = "idle" <=> hook[t].state = "idle"
<1>1. \A t \in Scans :
        hook'[t] = IF hook[t].state = "sending" THEN [hook[t] EXCEPT !.state = "lost"]
                   ELSE hook[t]
  BY DEF Crash
<1>2. \A t \in Scans : hook'[t].state = "idle" <=> hook[t].state = "idle"
  BY <1>1 DEF TypeOK
<1>3. \A t \in Scans :
        /\ handler'[t] = IF handler[t] \in {"new", "done"} THEN handler[t] ELSE "lost"
        /\ worker'[t] = IF worker[t] \in {"none", "ended"} THEN worker[t] ELSE "lost"
  BY DEF Crash
<1> QED BY <1>2, <1>3 DEF Crash

LEMMA FileStep == TypeOK /\ HandlerInv /\ FileInv /\ [Next]_vars => FileInv'
<1> SUFFICES ASSUME TypeOK, HandlerInv, FileInv, [Next]_vars PROVE FileInv'
  OBVIOUS
<1>1. CASE UNCHANGED vars
  BY <1>1 DEF vars, FileInv
<1>2. CASE Crash
  BY <1>2, CrashFrame DEF FileInv
<1>3. ASSUME NEW s \in Scans, Handler(s) PROVE FileInv'
  BY <1>3, HandlerFrame DEF TypeOK, FileInv
<1>4. ASSUME NEW s \in Scans, Scanning(s) PROVE FileInv'
  <2>1. PICK here \in {"open", "fetch", "create", "copy", "scan"},
             there \in {"create", "copy", "scan", "persist", "config"}, result \in Payloads :
          WorkerStep(s, here, there, result) /\ ~result.path /\ ~result.link
    BY <1>4, ScanningStep
  <2>2. \A t \in Scans : payload'[t] = IF t = s THEN result ELSE payload[t]
    BY <2>1 DEF WorkerStep, TypeOK
  <2>3. stored' = stored /\ \A t \in Scans : worker'[t] = "audit" => worker[t] = "audit"
    BY <2>1 DEF WorkerStep, At, TypeOK
  <2> QED BY <2>1, <2>2, <2>3 DEF FileInv
<1>5. ASSUME NEW s \in Scans, Persisting(s) PROVE FileInv'
  <2> DEFINE bucket == bucketFor(payload[s].word)
  <2>1. CASE PersistNothing(s) \/ PersistUnsigned(s)
    <3>1. payload' = payload /\ worker' = [worker EXCEPT ![s] = "config"]
      BY <2>1 DEF PersistNothing, PersistUnsigned, PersistStep, At
    <3>2. stored' = stored \/ stored' = [stored EXCEPT ![s] = @ \cup {bucket}]
      BY <2>1 DEF PersistNothing, PersistUnsigned
    <3>3. bucket # "audit"
      BY DEF bucketFor
    <3> HIDE DEF bucket
    <3>4. \A t \in Scans : /\ stored[t] \subseteq stored'[t]
                           /\ "audit" \in stored'[t] => "audit" \in stored[t]
                           /\ worker'[t] = "audit" => worker[t] = "audit"
      BY <3>1, <3>2, <3>3 DEF TypeOK
    <3> QED BY <3>1, <3>4 DEF FileInv
  <2>3. CASE PersistSigned(s)
    <3>1. /\ stored' = [stored EXCEPT ![s] = @ \cup {bucket}]
          /\ payload' = [payload EXCEPT ![s].path = TRUE, ![s].link = payload[s].word = "CLEAN"]
          /\ worker' = [worker EXCEPT ![s] = IF payload[s].word = "CLEAN" THEN "audit"
                                             ELSE "config"]
      BY <2>3 DEF PersistSigned, PersistStep, At
    <3>2. bucket # "audit" /\ (payload[s].word = "CLEAN" => bucket = "clean")
      BY DEF bucketFor
    <3> HIDE DEF bucket
    <3>3. /\ payload'[s].word = payload[s].word
          /\ payload'[s].link => payload[s].word = "CLEAN"
          /\ payload'[s].path
      BY <3>1 DEF TypeOK, Payloads
    <3>4. \A t \in Scans : t # s =>
            payload'[t] = payload[t] /\ stored'[t] = stored[t] /\ worker'[t] = worker[t]
      BY <3>1 DEF TypeOK
    <3>5. /\ stored'[s] = stored[s] \cup {bucket}
          /\ worker'[s] = "audit" => payload[s].word = "CLEAN"
      BY <3>1 DEF TypeOK
    <3>6. bucketFor(payload'[s].word) \in stored'[s]
      BY <3>3, <3>5 DEF bucket
    <3>7. "audit" \in stored'[s] \/ worker'[s] = "audit" => "clean" \in stored'[s]
      BY <3>2, <3>5 DEF FileInv
    <3> QED BY <3>3, <3>4, <3>6, <3>7 DEF FileInv
  <2>4. CASE WriteAudit(s)
    BY <2>4 DEF WriteAudit, At, TypeOK, FileInv
  <2> QED BY <1>5, <2>1, <2>3, <2>4 DEF Persisting, PersistFile
<1>6. ASSUME NEW s \in Scans, Publishing(s) \/ ExpireKey(s) PROVE FileInv'
  <2>1. UNCHANGED <<payload, stored>>
    BY <1>6 DEF Publishing, ReadTenantConfig, CacheResult, StartPost, DeliverPost,
       WorkerReturns, ExpireKey
  <2>2. \A t \in Scans : worker'[t] = "audit" => worker[t] = "audit"
    BY <1>6 DEF Publishing, ReadTenantConfig, CacheResult, StartPost, DeliverPost,
       WorkerReturns, ExpireKey, At, TypeOK
  <2> QED BY <2>1, <2>2 DEF FileInv
<1> QED BY <1>1, <1>2, <1>3, <1>4, <1>5, <1>6, Steps

LEMMA HookStep == TypeOK /\ HandlerInv /\ StoreInv /\ HookInv /\ [Next]_vars => HookInv'
<1> SUFFICES ASSUME TypeOK, HandlerInv, StoreInv, HookInv, [Next]_vars PROVE HookInv'
  OBVIOUS
<1>1. CASE UNCHANGED vars
  BY <1>1 DEF vars, HookInv
<1>2. CASE Crash
  BY <1>2, CrashFrame DEF HookInv
<1>3. ASSUME NEW s \in Scans, Handler(s) PROVE HookInv'
  <2>1. CASE MarkScanProcessing(s)
    <3>1. /\ worker[s] = "none" /\ UNCHANGED <<worker, payload, hook>>
          /\ \A t \in Scans : t # s => store'[t] = store[t] /\ gaps'[t] = gaps[t]
      BY <2>1 DEF MarkScanProcessing, SetStore, At, HandlerInv, TypeOK
    <3> QED BY <3>1 DEF HookInv
  <2>2. CASE ~MarkScanProcessing(s)
    <3>1. UNCHANGED <<store, gaps>>
      BY <1>3, <2>2 DEF Handler, RejectRequest, AcceptURL, StageUpload, CheckUpload,
         StartWorker, AnswerAccepted
    <3> QED BY <1>3, <3>1, HandlerFrame DEF TypeOK, HookInv
  <2> QED BY <2>1, <2>2
<1>4. ASSUME NEW s \in Scans, Scanning(s) \/ Persisting(s) PROVE HookInv'
  <2>1. /\ UNCHANGED <<store, gaps, hook>>
        /\ worker[s] \notin {"return", "ended", "lost"}
        /\ \A t \in Scans : t # s => worker'[t] = worker[t] /\ payload'[t] = payload[t]
    BY <1>4, ScanningStep DEF WorkerStep, Persisting, PersistFile, PersistNothing,
       PersistUnsigned, PersistSigned, PersistStep, WriteAudit, At, TypeOK
  <2> QED BY <2>1 DEF HookInv
<1>5. ASSUME NEW s \in Scans, Publishing(s) PROVE HookInv'
  <2>1. CASE CacheResult(s)
    <3>1. /\ worker[s] = "cache" /\ UNCHANGED <<payload, hook>>
          /\ \A t \in Scans : t # s =>
               worker'[t] = worker[t] /\ store'[t] = store[t] /\ gaps'[t] = gaps[t]
      BY <2>1 DEF CacheResult, SetStore, At, TypeOK
    <3> QED BY <3>1 DEF HookInv
  <2>2. CASE ~CacheResult(s)
    BY <1>5, <2>2 DEF Publishing, ReadTenantConfig, StartPost, DeliverPost, WorkerReturns,
       At, TypeOK, StoreInv, Published, HookInv
  <2> QED BY <2>1, <2>2
<1>6. ASSUME NEW s \in Scans, ExpireKey(s) PROVE HookInv'
  BY <1>6 DEF ExpireKey, TypeOK, HookInv
<1> QED BY <1>1, <1>2, <1>3, <1>4, <1>5, <1>6, Steps

LEMMA TempStep == TypeOK /\ HandlerInv /\ TempInv /\ [Next]_vars => TempInv'
<1> SUFFICES ASSUME TypeOK, HandlerInv, TempInv, [Next]_vars PROVE TempInv'
  OBVIOUS
<1>1. CASE UNCHANGED vars
  BY <1>1 DEF vars, TempInv
<1>2. CASE Crash
  BY <1>2, CrashFrame DEF TempInv
<1>3. ASSUME NEW s \in Scans, Handler(s) PROVE TempInv'
  <2>1. CASE RejectRequest(s) \/ AcceptURL(s) \/ CheckUpload(s)
    BY <2>1 DEF RejectRequest, AcceptURL, CheckUpload, Refuse, At, TypeOK, HandlerInv, TempInv
  <2>2. CASE StageUpload(s)
    BY <2>2 DEF StageUpload, Refuse, At, TypeOK, HandlerInv, TempInv
  <2>3. CASE MarkScanProcessing(s) \/ AnswerAccepted(s)
    BY <2>3 DEF MarkScanProcessing, AnswerAccepted, At, TypeOK, HandlerInv, TempInv
  <2>4. CASE StartWorker(s)
    BY <2>4 DEF StartWorker, At, TypeOK, HandlerInv, TempInv
  <2> QED BY <1>3, <2>1, <2>2, <2>3, <2>4 DEF Handler
<1>4. ASSUME NEW s \in Scans, Scanning(s) PROVE TempInv'
  BY <1>4, ScanningStep DEF WorkerStep, At, TypeOK, HandlerInv, TempInv
<1>5. ASSUME NEW s \in Scans, Persisting(s) \/ ExpireKey(s) PROVE TempInv'
  BY <1>5 DEF Persisting, PersistFile, PersistNothing, PersistUnsigned, PersistSigned,
     PersistStep, WriteAudit, ExpireKey, At, TypeOK, TempInv
<1>6. ASSUME NEW s \in Scans, Publishing(s) PROVE TempInv'
  BY <1>6 DEF Publishing, ReadTenantConfig, CacheResult, StartPost, DeliverPost,
     WorkerReturns, At, TypeOK, HandlerInv, TempInv
<1> QED BY <1>1, <1>2, <1>3, <1>4, <1>5, <1>6, Steps

LEMMA StoreStep == TypeOK /\ HandlerInv /\ StoreInv /\ [Next]_vars => StoreInv'
<1> SUFFICES ASSUME TypeOK, HandlerInv, StoreInv, [Next]_vars PROVE StoreInv'
  OBVIOUS
<1> USE DEF Published
<1>1. CASE UNCHANGED vars
  BY <1>1 DEF vars, StoreInv
<1>2. CASE Crash
  BY <1>2, CrashFrame DEF StoreInv
<1>3. ASSUME NEW s \in Scans, Handler(s) PROVE StoreInv'
  <2>1. CASE RejectRequest(s) \/ AcceptURL(s) \/ StageUpload(s) \/ CheckUpload(s)
    BY <2>1 DEF RejectRequest, AcceptURL, StageUpload, CheckUpload, Refuse, At, TypeOK,
       HandlerInv, StoreInv
  <2>2. CASE MarkScanProcessing(s)
    <3>1. /\ handler[s] = "marking" /\ handler' = [handler EXCEPT ![s] = "marked"]
          /\ UNCHANGED <<worker, reply, payload>>
          /\ worker[s] = "none" /\ reply[s] # "202"
      BY <2>2 DEF MarkScanProcessing, At, HandlerInv, TypeOK
    <3>2. CASE store' = [store EXCEPT ![s] = Processing] /\ UNCHANGED gaps
      BY <3>1, <3>2, Values DEF TypeOK, StoreInv
    <3>3. CASE gaps' = [gaps EXCEPT ![s] = @ \cup {"mark"}] /\ UNCHANGED store
      BY <3>1, <3>3 DEF TypeOK, StoreInv
    <3> QED BY <2>2, <3>2, <3>3 DEF MarkScanProcessing, SetStore
  <2>3. CASE StartWorker(s)
    BY <2>3 DEF StartWorker, At, TypeOK, HandlerInv, StoreInv
  <2>4. CASE AnswerAccepted(s)
    BY <2>4 DEF AnswerAccepted, At, TypeOK, HandlerInv, StoreInv
  <2> QED BY <1>3, <2>1, <2>2, <2>3, <2>4 DEF Handler
<1>4. ASSUME NEW s \in Scans, Scanning(s) PROVE StoreInv'
  <2>1. PICK here \in {"open", "fetch", "create", "copy", "scan"},
             there \in {"create", "copy", "scan", "persist", "config"}, result \in Payloads :
          WorkerStep(s, here, there, result) /\
          (there \in {"persist", "config"} => result.word \in FinalWords)
    BY <1>4, ScanningStep
  <2>2. UNCHANGED <<handler, reply, store, gaps>>
    BY <2>1 DEF WorkerStep
  <2>3. /\ worker[s] = here /\ worker'[s] = there /\ payload'[s] = result
        /\ \A t \in Scans : t # s => worker'[t] = worker[t] /\ payload'[t] = payload[t]
    BY <2>1 DEF WorkerStep, At, TypeOK
  <2> QED BY <2>1, <2>2, <2>3 DEF StoreInv
<1>5. ASSUME NEW s \in Scans, Persisting(s) PROVE StoreInv'
  <2>1. UNCHANGED <<handler, reply, store, gaps>>
    BY <1>5 DEF Persisting, PersistFile, PersistNothing, PersistUnsigned, PersistSigned,
       PersistStep, WriteAudit
  <2>2. /\ worker[s] \in {"persist", "audit"} /\ worker'[s] \in {"audit", "config"}
        /\ \A t \in Scans : t # s => worker'[t] = worker[t] /\ payload'[t] = payload[t]
    BY <1>5 DEF Persisting, PersistFile, PersistNothing, PersistUnsigned, PersistSigned,
       PersistStep, WriteAudit, At, TypeOK
  <2>3. payload'[s].word = payload[s].word
    BY <1>5 DEF Persisting, PersistFile, PersistNothing, PersistUnsigned, PersistSigned,
       WriteAudit, TypeOK, Payloads
  <2> QED BY <2>1, <2>2, <2>3 DEF StoreInv
<1>6. ASSUME NEW s \in Scans, CacheResult(s) PROVE StoreInv'
  <2>1. /\ worker[s] = "cache" /\ worker' = [worker EXCEPT ![s] = "post"]
        /\ UNCHANGED <<handler, reply, payload>>
    BY <1>6 DEF CacheResult, At
  <2>2. /\ payload[s].word \in FinalWords /\ handler[s] \notin {"new", "staging", "marking"}
        /\ store[s] \in {Absent, Processing}
    BY <2>1 DEF StoreInv, HandlerInv
  <2>3. CASE store' = [store EXCEPT ![s] = payload[s]] /\ UNCHANGED gaps
    BY <2>1, <2>2, <2>3, Values DEF TypeOK, StoreInv
  <2>4. CASE gaps' = [gaps EXCEPT ![s] = @ \cup {"final"}] /\ UNCHANGED store
    BY <2>1, <2>2, <2>4 DEF TypeOK, StoreInv
  <2> QED BY <1>6, <2>3, <2>4 DEF CacheResult, SetStore
<1>7. ASSUME NEW s \in Scans, Publishing(s), ~CacheResult(s) PROVE StoreInv'
  BY <1>7 DEF Publishing, ReadTenantConfig, StartPost, DeliverPost, WorkerReturns, At,
     TypeOK, StoreInv
<1>8. ASSUME NEW s \in Scans, ExpireKey(s) PROVE StoreInv'
  <2>1. /\ UNCHANGED <<handler, reply, payload, worker>>
        /\ store' = [store EXCEPT ![s] = Absent]
        /\ gaps' = [gaps EXCEPT ![s] = @ \cup {"expired"}]
    BY <1>8 DEF ExpireKey
  <2> QED BY <2>1 DEF TypeOK, StoreInv
<1> QED BY <1>1, <1>2, <1>3, <1>4, <1>5, <1>6, <1>7, <1>8, Steps

LEMMA NextInv == IInv /\ [Next]_vars => IInv'
BY TypeStep, HandlerStep, StoreStep, FileStep, TempStep, HookStep DEF IInv

\* The handler's and the worker's places, and what the store, S3, the temp file
\* and the webhook hold there, keep to the invariant for any set of scans.
THEOREM Invariance == Spec => []IInv
BY InitInv, NextInv, PTL DEF Spec

\* Every variable keeps its type (AsyncScan!TypeOK).
THEOREM TypeCorrect == Spec => []TypeOK
<1>1. IInv => TypeOK
  BY DEF IInv
<1> QED BY <1>1, Invariance, PTL

\* Redis shows a scan's state unless a write failed or the key expired, and a
\* final value is the worker's own (async_scanner.go:49-63, 91-99).
THEOREM StoreAccurate == Spec => []StoreIsAccurate
<1>1. IInv => StoreIsAccurate
  BY Values DEF IInv, StoreInv, StoreIsAccurate, pollAnswer
<1> QED BY <1>1, Invariance, PTL

\* The webhook carries what a poll shows, unless Redis refused the result or it
\* has expired (async_scanner.go:91-114).
THEOREM HookAgrees == Spec => []HookAgreesWithPoll
<1>1. IInv => HookAgreesWithPoll
  BY DEF IInv, HookInv, HookAgreesWithPoll
<1> QED BY <1>1, Invariance, PTL

\* Paths name stored files, links clean ones, and audit records follow their
\* files (s3_storage.go:113-170).
THEOREM DownloadSafe == Spec => []DownloadIsSafe
<1>1. IInv => DownloadIsSafe
  BY DEF IInv, FileInv, DownloadIsSafe
<1> QED BY <1>1, Invariance, PTL

\* The temp file is there while the scan needs it, and gone when neither the
\* handler nor the worker will touch it again (async_scanner.go:204, 311, 337).
THEOREM TempFileScoped == Spec => []TempFileLifetime
<1>1. IInv => TempFileLifetime
  BY DEF IInv, TempInv, TempFileLifetime
<1> QED BY <1>1, Invariance, PTL
-----------------------------------------------------------------------------
(* AsyncScan implements ScanTicket *)

LEMMA TicketWords == Ticket!FinalWords = FinalWords
BY DEF Ticket!FinalWords, Ticket!formatStatus, Ticket!Statuses, FinalWords, formatStatus, Statuses

\* Only the mark, the publication and Redis' TTL change what is shown.
LEMMA StoreFrame ==
  ASSUME TypeOK, [Next]_vars
  PROVE  \/ UNCHANGED store
         \/ \E s \in Scans : MarkScanProcessing(s) \/ CacheResult(s) \/ ExpireKey(s)
<1>1. CASE UNCHANGED vars
  BY <1>1 DEF vars
<1>2. CASE Crash
  BY <1>2 DEF Crash
<1>3. ASSUME NEW s \in Scans, Handler(s), ~MarkScanProcessing(s) PROVE UNCHANGED store
  BY <1>3 DEF Handler, RejectRequest, AcceptURL, StageUpload, CheckUpload, StartWorker,
     AnswerAccepted
<1>4. ASSUME NEW s \in Scans, Scanning(s) \/ Persisting(s) PROVE UNCHANGED store
  BY <1>4, ScanningStep DEF WorkerStep, Persisting, PersistFile, PersistNothing,
     PersistUnsigned, PersistSigned, PersistStep, WriteAudit
<1>5. ASSUME NEW s \in Scans, Publishing(s), ~CacheResult(s) PROVE UNCHANGED store
  BY <1>5 DEF Publishing, ReadTenantConfig, StartPost, DeliverPost, WorkerReturns
<1> QED BY <1>1, <1>2, <1>3, <1>4, <1>5, Steps

\* A write to one key changes one ticket.
LEMMA TicketWrite ==
  ASSUME TypeOK, NEW s \in Scans, NEW value, store' = [store EXCEPT ![s] = value]
  PROVE  [t \in Scans |-> store'[t].word]
           = [[t \in Scans |-> store[t].word] EXCEPT ![s] = value.word]
BY DEF TypeOK

LEMMA TicketStep == IInv /\ [Next]_vars => [Ticket!Next]_(Ticket!vars)
<1> DEFINE shown == [t \in Scans |-> store[t].word]
<1> SUFFICES ASSUME IInv, [Next]_vars PROVE Ticket!Next \/ shown' = shown
  BY DEF Ticket!vars
<1> USE DEF IInv
<1>1. CASE UNCHANGED store
  BY <1>1
<1>2. ASSUME NEW s \in Scans, MarkScanProcessing(s) PROVE Ticket!Next \/ shown' = shown
  <2>1. store[s] = Absent
    BY <1>2 DEF MarkScanProcessing, At, StoreInv
  <2>2. CASE store' = [store EXCEPT ![s] = Processing]
    <3>1. shown' = [shown EXCEPT ![s] = "PROCESSING"]
      BY <2>2, TicketWrite, Values
    <3> QED BY <2>1, <3>1, Values DEF Ticket!Next, Ticket!Accept
  <2> QED BY <1>2, <2>2 DEF MarkScanProcessing, SetStore
<1>3. ASSUME NEW s \in Scans, CacheResult(s) PROVE Ticket!Next \/ shown' = shown
  <2>1. payload[s].word \in FinalWords /\ store[s] \in {Absent, Processing}
    BY <1>3 DEF CacheResult, At, StoreInv, Published
  <2>2. CASE store' = [store EXCEPT ![s] = payload[s]]
    <3>1. shown' = [shown EXCEPT ![s] = payload[s].word]
      BY <2>2, TicketWrite
    <3>2. shown[s] \notin FinalWords
      BY <2>1, Values
    <3> QED BY <2>1, <3>1, <3>2, TicketWords DEF Ticket!Next, Ticket!Finish
  <2> QED BY <1>3, <2>2 DEF CacheResult, SetStore
<1>4. ASSUME NEW s \in Scans, ExpireKey(s) PROVE Ticket!Next \/ shown' = shown
  <2>1. shown' = [shown EXCEPT ![s] = "absent"]
    BY <1>4, TicketWrite, Values DEF ExpireKey
  <2> QED BY <2>1 DEF Ticket!Next, Ticket!Expire
<1> QED BY <1>1, <1>2, <1>3, <1>4, StoreFrame

\* What polling shows follows ScanTicket: nothing, PROCESSING, a result, in that
\* order, until the key expires, whatever fails (async_scanner.go:49-63, 91-99).
THEOREM Refinement == Spec => ImplementsScanTicket
<1>1. Init => Ticket!Init
  BY Values DEF Init, Ticket!Init
<1> QED BY <1>1, TicketStep, Invariance, PTL DEF Spec, ImplementsScanTicket, Ticket!Spec
=============================================================================
