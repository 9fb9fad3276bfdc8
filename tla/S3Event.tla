------------------------------- MODULE S3Event -------------------------------
(***************************************************************************)
(* Scanning of S3 objects on upload events (sqs_scanner.go).  An event     *)
(* arrives through SQS, which delivers it at least once and again for as   *)
(* long as it is not deleted, or through POST /events/s3, once.  Every     *)
(* delivery runs processS3Event in a goroutine of its own: for each record *)
(* it fetches, scans and tags the object, quarantines or deletes it when   *)
(* infected, and notifies.  Workers share nothing but the bucket, and the  *)
(* bucket's users go on writing to it.                                     *)
(***************************************************************************)
EXTENDS ScanTypes, Naturals, Sequences, FiniteSets

CONSTANTS
  Objects,      \* the objects the events speak of
  Versioned,    \* those whose records carry a versionId
  Keys,         \* object keys without their bucket
  KeyOf,        \* the key of each object; two versions have the same
  Events,       \* the event messages
  Queued,       \* those that come through SQS; the others are POSTed
  RecordsOf,    \* the records of each event, in order
  Workers,      \* the goroutines that can be at work at once
  Settings,     \* the settings under which the service may run
  Outcomes,     \* the scan outcomes that are explored
  MaxWrites     \* bound on the writes of users to the buckets

Records == [object : Objects, created : BOOLEAN]

ASSUME S3Assumption ==
  /\ Versioned \subseteq Objects /\ Queued \subseteq Events
  /\ KeyOf \in [Objects -> Keys]
  /\ RecordsOf \in [Events -> Seq(Records)]
  /\ Settings \subseteq [quarantine : BOOLEAN, delete : BOOLEAN]
  /\ Outcomes \subseteq ScanOutcomes
  /\ MaxWrites \in Nat

VARIABLES
  setting,     \* AWS_S3_QUARANTINE_BUCKET is set? AWS_S3_DELETE_INFECTED?
  object,      \* the buckets: what is stored under each object, and its tags
  quarantine,  \* the quarantine bucket: the last copy under each key, if any
  event,       \* "waiting" in the queue or with its sender, or "gone"
  worker,      \* the state of each goroutine
  scans,       \* history: the results of completed scans, by object
  given,       \* history: the objects a worker passed over with `continue`
  alerts,      \* history: the messages published to SNS
  writes       \* how often users wrote

vars == <<setting, object, quarantine, event, worker, scans, given, alerts, writes>>

Empty == "empty"
Idle  == [at |-> "idle", event |-> Empty, n |-> 0, content |-> 0, raw |-> Empty,
          tags |-> 0, copied |-> FALSE]
-----------------------------------------------------------------------------
(* Deliveries *)

Begin(w, e) ==
  /\ worker[w].at = "idle" /\ event[e] = "waiting"
  /\ worker' = [worker EXCEPT ![w] = [Idle EXCEPT !.at = "record", !.event = e, !.n = 1]]

\* BUG: the message is deleted before it is processed.
ReceiveAndDelete(w, e) ==
  /\ e \in Queued
  /\ Begin(w, e)
  /\ event' = [event EXCEPT ![e] = "gone"]
  /\ UNCHANGED <<setting, object, quarantine, scans, given, alerts, writes>>

\* startSQSConsumer: a received message stays in the queue until it is deleted,
\* and is received again when its visibility timeout ends, or by a second
\* delivery, whatever the first worker is doing.
Receive(w, e) ==
  /\ e \in Queued
  /\ Begin(w, e)
  /\ UNCHANGED <<setting, object, quarantine, event, scans, given, alerts, writes>>

\* scanS3EventHandler answers 202; from then on only the goroutine knows of the
\* event.  It may fail to load the AWS configuration and return at once.
PostEvent(w, e) ==
  /\ e \notin Queued
  /\ \/ Begin(w, e)
     \/ event[e] = "waiting" /\ UNCHANGED worker
  /\ event' = [event EXCEPT ![e] = "gone"]
  /\ UNCHANGED <<setting, object, quarantine, scans, given, alerts, writes>>
-----------------------------------------------------------------------------
(* processS3Event: the loop over the records *)

RecordsLeft(w) == worker[w].n <= Len(RecordsOf[worker[w].event])
Record(w)      == RecordsOf[worker[w].event][worker[w].n]
Obj(w)         == Record(w).object

\* BUG: the tag is the engines' own word.
rawStatus(raw) == raw

\* The status processS3Event tags with: anything but OK is INFECTED.
scanStatus(raw) == IF raw = "OK" THEN "CLEAN" ELSE "INFECTED"

AtLoop(w, here) == worker[w].at = here /\ RecordsLeft(w)

Step(w, here, there) ==
  /\ AtLoop(w, here)
  /\ worker' = [worker EXCEPT ![w].at = there]

\* The next record starts with fresh variables.
NextRecord(w) ==
  worker' = [worker EXCEPT ![w] =
    [Idle EXCEPT !.at = "record", !.event = worker[w].event, !.n = worker[w].n + 1]]

\* BUG: the function returns false, so that the message is delivered again.
GiveUpEvent(w, here) ==
  /\ AtLoop(w, here)
  /\ worker' = [worker EXCEPT ![w] = Idle]
  /\ UNCHANGED <<setting, object, quarantine, event, scans, given, alerts, writes>>

\* The record is given up with an error in the log.
PassOver(w, here) ==
  /\ AtLoop(w, here)
  /\ NextRecord(w)
  /\ given' = given \cup {Obj(w)}
  /\ UNCHANGED <<setting, object, quarantine, event, scans, alerts, writes>>

\* A record of another kind than ObjectCreated.
SkipRecord(w) ==
  /\ AtLoop(w, "record") /\ ~Record(w).created
  /\ NextRecord(w)
  /\ UNCHANGED <<setting, object, quarantine, event, scans, given, alerts, writes>>

\* GetObject, of the version when the record has one, and the copy to a temp
\* file, which is removed when the function returns.  The object may be gone, a
\* call may fail, the temp file may not be created, the body may be over the limit.
FetchObject(w) ==
  /\ AtLoop(w, "record") /\ Record(w).created
  /\ \/ PassOver(w, "record")
     \/ /\ object[Obj(w)].there
        /\ worker' = [worker EXCEPT ![w].at = "scan", ![w].content = object[Obj(w)].content]
        /\ UNCHANGED <<setting, object, quarantine, event, scans, given, alerts, writes>>

\* BUG: a record whose scan ends in an error is not passed over but taken to be
\* infected.
ErrorIsHit(w) ==
  \E outcome \in Outcomes :
    /\ AtLoop(w, "scan")
    /\ worker' = [worker EXCEPT ![w].at = "read tags",
                  ![w].raw = IF outcome = "clamErr" THEN "FOUND" ELSE outcome]
    /\ scans' = IF outcome = "clamErr" THEN scans
                ELSE [scans EXCEPT ![Obj(w)] = @ \cup {<<worker[w].content, outcome>>}]
    /\ UNCHANGED <<setting, object, quarantine, event, given, alerts, writes>>

\* RunMultiEngineScan, or FOUND at once for an encrypted archive.
ScanObject(w) ==
  \E outcome \in Outcomes :
    IF outcome = "clamErr" THEN PassOver(w, "scan")
    ELSE /\ AtLoop(w, "scan")
         /\ worker' = [worker EXCEPT ![w].at = "read tags", ![w].raw = outcome]
         /\ scans' = [scans EXCEPT ![Obj(w)] = @ \cup {<<worker[w].content, outcome>>}]
         /\ UNCHANGED <<setting, object, quarantine, event, given, alerts, writes>>
-----------------------------------------------------------------------------
(* processS3Event: tags, quarantine and deletion *)

\* The tags of Go's nil slice, when GetObjectTagging fails.
NoTags == MaxWrites + 1

\* GetObjectTagging; on an error the existing tags are taken to be none.
ReadTags(w) ==
  /\ AtLoop(w, "read tags")
  /\ \E tags \in {NoTags, object[Obj(w)].tags} :
       /\ tags # NoTags => object[Obj(w)].there
       /\ worker' = [worker EXCEPT ![w].at = "write tags", ![w].tags = tags]
  /\ UNCHANGED <<setting, object, quarantine, event, scans, given, alerts, writes>>

AfterTags(w) == IF scanStatus(worker[w].raw) = "INFECTED" THEN "quarantine" ELSE "notify"

\* PutObjectTagging replaces the whole tag set; a failure is only logged.
WriteTags(w) ==
  /\ AtLoop(w, "write tags")
  /\ worker' = [worker EXCEPT ![w].at = AfterTags(w), ![w].tags = 0]
  /\ \/ /\ object[Obj(w)].there
        /\ object' = [object EXCEPT ![Obj(w)].av = scanStatus(worker[w].raw),
                                    ![Obj(w)].tags = worker[w].tags]
     \/ UNCHANGED object
  /\ UNCHANGED <<setting, quarantine, event, scans, given, alerts, writes>>

\* CopyObject to the quarantine bucket, under the same key.
CopyToQuarantine(w) ==
  /\ \/ /\ AtLoop(w, "quarantine")
        /\ setting.quarantine /\ object[Obj(w)].there
        /\ quarantine' = [quarantine EXCEPT
             ![KeyOf[Obj(w)]] = {<<Obj(w), object[Obj(w)].content>>}]
        /\ worker' = [worker EXCEPT ![w].at = "delete", ![w].copied = TRUE]
     \/ Step(w, "quarantine", "delete") /\ UNCHANGED quarantine
  /\ UNCHANGED <<setting, object, event, scans, given, alerts, writes>>

\* BUG: whether the copy succeeded is not looked at.
DeleteAnyway(w) == setting.delete \/ setting.quarantine

\* AWS_S3_DELETE_INFECTED, or a copy that succeeded.
ShouldDelete(w) == setting.delete \/ worker[w].copied

\* DeleteObject, of the version when the record has one.
DeleteInfected(w) ==
  /\ AtLoop(w, "delete")
  /\ worker' = [worker EXCEPT ![w].at = "notify", ![w].copied = FALSE]
  /\ \/ ShouldDelete(w) /\ object' = [object EXCEPT ![Obj(w)].there = FALSE]
     \/ UNCHANGED object
  /\ UNCHANGED <<setting, quarantine, event, scans, given, alerts, writes>>
-----------------------------------------------------------------------------
(* processS3Event: notifications; then the acknowledgement *)

\* SNS with AWS_SNS_ONLY_INFECTED, then publishAsyncResultFull (AsyncScan); both
\* may fail without an effect on the event.
Notify(w) ==
  /\ AtLoop(w, "notify")
  /\ NextRecord(w)
  /\ \/ /\ scanStatus(worker[w].raw) = "INFECTED"
        /\ alerts' = alerts \cup {Obj(w)}
     \/ UNCHANGED alerts
  /\ UNCHANGED <<setting, object, quarantine, event, scans, given, writes>>

\* processS3Event returns true, which runs the deferred removals; then
\* processSQSMessage deletes the message, which may fail.
Acknowledge(w) ==
  /\ worker[w].at = "record" /\ ~RecordsLeft(w)
  /\ worker' = [worker EXCEPT ![w] = Idle]
  /\ \/ event' = [event EXCEPT ![worker[w].event] = "gone"]
     \/ UNCHANGED event
  /\ UNCHANGED <<setting, object, quarantine, scans, given, alerts, writes>>

Process(w) ==
  \/ SkipRecord(w) \/ FetchObject(w) \/ ScanObject(w) \/ ReadTags(w)
  \/ WriteTags(w) \/ CopyToQuarantine(w) \/ DeleteInfected(w) \/ Notify(w)
-----------------------------------------------------------------------------
(* The bucket's users, and crashes *)

\* A user puts new content under the key of an unversioned object: its tags go
\* with the old content.  With versions, that would be another object.
Overwrite(o) ==
  /\ o \notin Versioned /\ writes < MaxWrites
  /\ writes' = writes + 1
  /\ object' = [object EXCEPT ![o] = [content |-> object[o].content + 1, there |-> TRUE,
                                      av |-> "none", tags |-> 0, wanted |-> 0]]
  /\ UNCHANGED <<setting, quarantine, event, worker, scans, given, alerts>>

\* A user edits the tags of an object, and keeps the av- tags.
EditTags(o) ==
  /\ object[o].there /\ writes < MaxWrites
  /\ writes' = writes + 1
  /\ object' = [object EXCEPT ![o].tags = object[o].wanted + 1, ![o].wanted = @ + 1]
  /\ UNCHANGED <<setting, quarantine, event, worker, scans, given, alerts>>

\* Every goroutine is lost; the queue still has what was not deleted.
Crash ==
  /\ worker' = [w \in Workers |-> Idle]
  /\ UNCHANGED <<setting, object, quarantine, event, scans, given, alerts, writes>>
-----------------------------------------------------------------------------
Init ==
  /\ setting \in Settings
  /\ object = [o \in Objects |-> [content |-> 0, there |-> TRUE, av |-> "none",
                                  tags |-> 0, wanted |-> 0]]
  /\ quarantine = [k \in Keys |-> {}]
  /\ event = [e \in Events |-> "waiting"]
  /\ worker = [w \in Workers |-> Idle]
  /\ scans = [o \in Objects |-> {}]
  /\ given = {}
  /\ alerts = {}
  /\ writes = 0

Next ==
  \/ \E w \in Workers : \/ \E e \in Events : Receive(w, e) \/ PostEvent(w, e)
                        \/ Process(w) \/ Acknowledge(w)
  \/ \E o \in Objects : Overwrite(o) \/ EditTags(o)
  \/ Crash

Spec == Init /\ [][Next]_vars

\* The consumer keeps receiving what the queue still has.  Nothing is assumed of
\* a worker: its AWS calls use context.TODO() and clamd has no deadline, so any
\* step of it may take for ever, and any DeleteMessage may fail.
QueueFairness == \A e \in Queued : WF_vars(\E w \in Workers : Receive(w, e))

FairSpec == Spec /\ QueueFairness
-----------------------------------------------------------------------------
(* Properties *)

WorkerPlaces == {"idle", "record", "scan", "read tags", "write tags",
                 "quarantine", "delete", "notify"}

\* Every variable holds what the program and the buckets can hold; a worker that
\* has an event is at one of its records or just past the last (sqs_scanner.go:152).
TypeOK ==
  /\ setting \in Settings
  /\ object \in [Objects -> [content : 0..MaxWrites, there : BOOLEAN,
                             av : {"none", "CLEAN", "INFECTED"},
                             tags : 0..NoTags, wanted : 0..MaxWrites]]
  /\ quarantine \in [Keys -> SUBSET (Objects \X (0..MaxWrites))]
  /\ event \in [Events -> {"waiting", "gone"}]
  /\ \A w \in Workers :
       /\ worker[w].at \in WorkerPlaces
       /\ worker[w].raw \in Statuses \cup {Empty}
       /\ worker[w].at # "idle" =>
            /\ worker[w].event \in Events
            /\ worker[w].n \in 1..(Len(RecordsOf[worker[w].event]) + 1)
  /\ scans \in [Objects -> SUBSET ((0..MaxWrites) \X Statuses)]
  /\ given \subseteq Objects /\ alerts \subseteq Objects
  /\ writes \in 0..MaxWrites

\* A scan of this very content came back with this status.
ScannedAs(o, content, status) ==
  \E raw \in Statuses : <<content, raw>> \in scans[o] /\ scanStatus(raw) = status

\* The contents a tag, a copy or an alert may speak of: the version the record
\* names, and without one any content the object has had (the code cannot tell).
Seen(o) == IF o \in Versioned THEN {object[o].content} ELSE 0..object[o].content

\* What happens to an object is backed by a completed scan, however many
\* deliveries are at work on it: its tag is the status of one, and only an object
\* that one of them found not OK is quarantined, deleted or alerted of
\* (sqs_scanner.go:222-375).
ActionsAreBacked ==
  \A o \in Objects :
    LET Backed(status) == \E c \in Seen(o) : ScannedAs(o, c, status) IN
    /\ object[o].av # "none" => Backed(object[o].av)
    /\ \/ ~object[o].there
       \/ \E c \in Seen(o) : <<o, c>> \in quarantine[KeyOf[o]]
       \/ o \in alerts
       => Backed("INFECTED")

\* No other object would be quarantined under the same key.
OwnsKey(o) == \A p \in Objects : KeyOf[p] = KeyOf[o] => p = o

\* Without AWS_S3_DELETE_INFECTED, an object is deleted only once a copy of the
\* same version is in the quarantine bucket, and the copy stays there, whatever
\* duplicates, failures and crashes there were in between, as long as its key is
\* its own (sqs_scanner.go:307-337).
NothingIsLost ==
  \A o \in Versioned :
    OwnsKey(o) /\ ~object[o].there /\ ~setting.delete =>
      <<o, object[o].content>> \in quarantine[KeyOf[o]]

\* A message leaves the queue only after a worker went through all its records:
\* each object was scanned or given up with a logged error; no crash loses one
\* (sqs_scanner.go:128-139).
AckedIsSettled ==
  \A e \in Queued : event[e] = "gone" =>
    \A i \in DOMAIN RecordsOf[e] : RecordsOf[e][i].created =>
      LET o == RecordsOf[e][i].object IN o \in given \/ scans[o] # {}

\* A worker stops at one call for ever: clamd or AWS never answers it.
Hangs(w) ==
  \E place \in WorkerPlaces \ {"idle"} : <>[](worker[w].at = place)

\* A worker is through with a delivery of the event and cannot delete it: SQS is
\* out of reach, or a later delivery has made its receipt handle an old one.
DeleteFails(e) ==
  \E w \in Workers : worker[w].event = e /\ Acknowledge(w) /\ event'[e] # "gone"

\* The records are never why a message comes back for ever: whichever of them
\* cannot be fetched or scanned, every queued event is acknowledged in the end
\* (sqs_scanner.go:390).  The exceptions: the process keeps crashing, every
\* delivery hangs, or the deletes keep failing, as they may when the scans outlast
\* the visibility timeout, which nothing extends (sqs_scanner.go:123, 405-409).
EventuallyAcknowledged ==
  \A e \in Queued :
    \/ <>(event[e] = "gone")
    \/ []<><<Crash>>_vars
    \/ \A w \in Workers : Hangs(w)
    \/ []<><<DeleteFails(e)>>_vars

\* README.md:358 says that the user's own tags are preserved.  They are lost when
\* they cannot be read, or change between the read and the write
\* (sqs_scanner.go:271-296).
UserTagsPreserved ==
  \A o \in Objects : object[o].there => object[o].tags = object[o].wanted

\* README.md:359 says that with AWS_SNS_ONLY_INFECTED alerts are sent only for
\* actual malware.  An engine's ERROR counts as INFECTED (sqs_scanner.go:237-246).
AlertsMeanMalware ==
  \A o \in alerts : \E c \in 0..MaxWrites : <<c, "FOUND">> \in scans[o]

\* README.md:563 says that quarantined files are retained indefinitely.  The copy
\* of another version, or of another bucket's object, of the same key replaces
\* the earlier copy (sqs_scanner.go:316).
QuarantineRetains == [][\A k \in Keys : quarantine[k] \subseteq quarantine'[k]]_quarantine
=============================================================================
