---------------------------- MODULE S3EventProofs ----------------------------
(***************************************************************************)
(* What S3Event promises for any buckets, events, deliveries and settings. *)
(* The inductive invariant says what a worker at each place of             *)
(* processS3Event may still rely on, though other workers, users and       *)
(* crashes came between its calls: the scan it acts on, the copy it made   *)
(* and the records it is done with.                                        *)
(***************************************************************************)
EXTENDS S3Event, TLAPS

\* What a worker has in its variables, whatever it is at.
WorkerStates ==
  [at : WorkerPlaces, event : Events \cup {Empty}, n : Nat, content : 0..MaxWrites,
   raw : Statuses \cup {Empty}, tags : 0..NoTags, copied : BOOLEAN]

\* Each write of a user moves a content or a tag set by one.
Typed ==
  /\ TypeOK
  /\ worker \in [Workers -> WorkerStates]
  /\ \A o \in Objects : object[o].content <= writes /\ object[o].wanted <= writes

\* A record's object was scanned, or given up with a logged error.
Settled(e, i) ==
  RecordsOf[e][i].created =>
    LET o == RecordsOf[e][i].object IN o \in given \/ scans[o] # {}

\* The copy of a version whose key no other object has.
Held(o) ==
  o \in Versioned /\ OwnsKey(o) => <<o, object[o].content>> \in quarantine[KeyOf[o]]

\* The places after the scan of a record.
Acting == {"read tags", "write tags", "quarantine", "delete", "notify"}

\* What a worker knows at each place.
WorkerOK(w) ==
  /\ worker[w].at \in Acting \cup {"scan"} =>
       RecordsLeft(w) /\ Record(w).created /\ worker[w].content \in Seen(Obj(w))
  /\ worker[w].at \in Acting =>
       <<worker[w].content, worker[w].raw>> \in scans[Obj(w)]
  /\ worker[w].at \in {"quarantine", "delete"} => scanStatus(worker[w].raw) = "INFECTED"
  /\ worker[w].copied => worker[w].at = "delete" /\ Held(Obj(w))
  /\ worker[w].at # "idle" =>
       \A i \in 1..(worker[w].n - 1) : Settled(worker[w].event, i)

\* A completed scan of the object speaks for this status.
Backed(o, status) == \E c \in Seen(o) : ScannedAs(o, c, status)

\* As ActionsAreBacked, also of copies of contents the object no longer has.
ObjectOK(o) ==
  /\ object[o].av # "none" => Backed(o, object[o].av)
  /\ ~object[o].there => Backed(o, "INFECTED")
  /\ o \in alerts => Backed(o, "INFECTED")
  /\ \A c \in 0..MaxWrites : <<o, c>> \in quarantine[KeyOf[o]] => Backed(o, "INFECTED")
  /\ ~object[o].there /\ ~setting.delete => Held(o)

IInv ==
  /\ Typed
  /\ \A w \in Workers : WorkerOK(w)
  /\ \A o \in Objects : ObjectOK(o)
  /\ AckedIsSettled
-----------------------------------------------------------------------------
(* Types *)

LEMMA Values ==
  /\ Idle \in WorkerStates /\ Idle.at = "idle" /\ ~Idle.copied
  /\ NoTags \in Nat /\ 0 \in 0..NoTags /\ \A m \in 0..MaxWrites : m \in 0..NoTags
  /\ Outcomes \ {"clamErr"} \subseteq Statuses
<1>1. NoTags \in Nat /\ 0 \in 0..NoTags /\ \A m \in 0..MaxWrites : m \in 0..NoTags
  BY S3Assumption DEF NoTags
<1>2. Idle \in WorkerStates
  BY <1>1, S3Assumption DEF Idle, WorkerStates, WorkerPlaces
<1> QED BY <1>1, <1>2, S3Assumption DEF Idle, ScanOutcomes

\* The variables at the start of a record.
Fresh(e, n) == [Idle EXCEPT !.at = "record", !.event = e, !.n = n]

LEMMA FreshIs ==
  ASSUME NEW e \in Events, NEW n \in Nat
  PROVE  /\ Fresh(e, n) \in WorkerStates
         /\ Fresh(e, n).at = "record" /\ Fresh(e, n).event = e /\ Fresh(e, n).n = n
         /\ ~Fresh(e, n).copied
<1>1. Fresh(e, n) \in WorkerStates
  BY Values DEF Fresh, WorkerStates, WorkerPlaces
<1>2. Fresh(e, n).at = "record" /\ Fresh(e, n).event = e /\ Fresh(e, n).n = n
  BY Values DEF Fresh, WorkerStates
<1>3. Fresh(e, n).copied = Idle.copied
  BY Values DEF Fresh, WorkerStates
<1> QED BY <1>1, <1>2, <1>3, Values

\* Where a worker with a record to work on is.
LEMMA AtRecord ==
  ASSUME Typed, NEW w \in Workers, worker[w].at # "idle", RecordsLeft(w)
  PROVE  /\ worker[w].event \in Events /\ Obj(w) \in Objects /\ KeyOf[Obj(w)] \in Keys
         /\ worker[w].n \in 1..Len(RecordsOf[worker[w].event])
         /\ worker[w].n \in Nat /\ Len(RecordsOf[worker[w].event]) \in Nat
<1>1. /\ worker[w].event \in Events /\ worker[w].n \in 1..(Len(RecordsOf[worker[w].event]) + 1)
  BY DEF Typed, TypeOK
<1>2. RecordsOf[worker[w].event] \in Seq(Records)
  BY <1>1, S3Assumption
<1>3. worker[w].n \in 1..Len(RecordsOf[worker[w].event])
  BY <1>1, <1>2 DEF RecordsLeft
<1>4. Record(w) \in Records
  BY <1>2, <1>3 DEF Record
<1> QED BY <1>1, <1>2, <1>3, <1>4, S3Assumption DEF Obj, Records

\* A worker with an event is at one of its records, or just past the last.
IsPlaced(r) ==
  r.at # "idle" => r.event \in Events /\ r.n \in 1..(Len(RecordsOf[r.event]) + 1)

\* A step of one worker keeps the types if the worker's new state has them.
LEMMA WorkerTyped ==
  ASSUME Typed, NEW w \in Workers, NEW new \in WorkerStates, IsPlaced(new),
         worker' = [worker EXCEPT ![w] = new],
         UNCHANGED <<setting, writes>>,
         object' \in [Objects -> [content : 0..MaxWrites, there : BOOLEAN,
                                  av : {"none", "CLEAN", "INFECTED"},
                                  tags : 0..NoTags, wanted : 0..MaxWrites]],
         \A o \in Objects : /\ object'[o].content = object[o].content
                            /\ object'[o].wanted = object[o].wanted,
         quarantine' \in [Keys -> SUBSET (Objects \X (0..MaxWrites))],
         event' \in [Events -> {"waiting", "gone"}],
         scans' \in [Objects -> SUBSET ((0..MaxWrites) \X Statuses)],
         given' \subseteq Objects, alerts' \subseteq Objects
  PROVE  Typed'
<1>1. worker' \in [Workers -> WorkerStates]
  BY DEF Typed
<1>2. \A v \in Workers : IsPlaced(worker'[v])
  BY DEF Typed, TypeOK, IsPlaced
<1>3. \A v \in Workers : worker'[v].at \in WorkerPlaces /\ worker'[v].raw \in Statuses \cup {Empty}
  BY <1>1 DEF WorkerStates
<1>4. TypeOK'
  BY <1>2, <1>3 DEF Typed, TypeOK, IsPlaced
<1> QED BY <1>1, <1>4 DEF Typed

\* The worker's next record is one of its event's, or just past the last.
LEMMA NextRecordIs ==
  ASSUME Typed, NEW w \in Workers, worker[w].at # "idle", RecordsLeft(w), NextRecord(w)
  PROVE  \E new \in WorkerStates :
           /\ worker' = [worker EXCEPT ![w] = new] /\ IsPlaced(new)
           /\ new.at = "record" /\ ~new.copied
           /\ new.event = worker[w].event /\ new.n = worker[w].n + 1
<1> DEFINE new == Fresh(worker[w].event, worker[w].n + 1)
<1>1. worker' = [worker EXCEPT ![w] = new]
  BY DEF NextRecord, Fresh
<1>2. /\ new \in WorkerStates /\ new.event = worker[w].event /\ new.n = worker[w].n + 1
      /\ new.at = "record" /\ ~new.copied
  BY AtRecord, FreshIs
<1> HIDE DEF new
<1>3. new.event \in Events /\ new.n \in 1..(Len(RecordsOf[new.event]) + 1)
  BY <1>2, AtRecord
<1> QED BY <1>1, <1>2, <1>3 DEF IsPlaced

\* A worker moves on within its record.
LEMMA StepIs ==
  ASSUME Typed, NEW w \in Workers, NEW here \in WorkerPlaces \ {"idle"}, AtLoop(w, here),
         NEW new \in WorkerStates, new.event = worker[w].event, new.n = worker[w].n
  PROVE  IsPlaced(new)
BY AtRecord DEF IsPlaced, AtLoop

\* A worker takes an event, from the queue or as it is posted.
Deliver(w) == \E e \in Events : Receive(w, e) \/ PostEvent(w, e)

LEMMA Deliveries ==
  ASSUME Typed, NEW w \in Workers, Deliver(w)
  PROVE  /\ UNCHANGED <<setting, object, quarantine, scans, given, alerts, writes>>
         /\ event' \in [Events -> {"waiting", "gone"}]
         /\ \A e \in Queued : event'[e] = event[e]
         /\ \/ UNCHANGED worker
            \/ \E new \in WorkerStates :
                 /\ worker' = [worker EXCEPT ![w] = new] /\ IsPlaced(new)
                 /\ new.at = "record" /\ new.n = 1 /\ ~new.copied
<1>1. PICK e \in Events : Receive(w, e) \/ PostEvent(w, e)
  BY DEF Deliver
<1> DEFINE new == Fresh(e, 1)
<1>2. /\ UNCHANGED <<setting, object, quarantine, scans, given, alerts, writes>>
      /\ worker' = worker \/ worker' = [worker EXCEPT ![w] = new]
      /\ \/ event' = event
         \/ e \notin Queued /\ event' = [event EXCEPT ![e] = "gone"]
  BY <1>1 DEF Receive, PostEvent, Begin, Fresh
<1>3. new \in WorkerStates /\ new.event = e /\ new.n = 1 /\ new.at = "record" /\ ~new.copied
  BY FreshIs
<1>4. 1 \in 1..(Len(RecordsOf[e]) + 1)
  BY S3Assumption
<1>5. event' \in [Events -> {"waiting", "gone"}] /\ \A q \in Queued : event'[q] = event[q]
  BY <1>2, S3Assumption DEF Typed, TypeOK
<1> HIDE DEF new
<1> QED BY <1>2, <1>3, <1>4, <1>5 DEF IsPlaced

LEMMA DeliveryTyped ==
  ASSUME Typed, NEW w \in Workers, Deliver(w)
  PROVE  Typed'
<1>1. CASE UNCHANGED worker
  BY <1>1, Deliveries DEF Typed, TypeOK
<1>2. ASSUME NEW new \in WorkerStates,
             worker' = [worker EXCEPT ![w] = new], IsPlaced(new)
      PROVE  Typed'
  BY <1>2, Deliveries, WorkerTyped DEF Typed, TypeOK
<1> QED BY <1>1, <1>2, Deliveries
-----------------------------------------------------------------------------
(* What no step takes back *)

\* The results of scans, the records given up, the contents an object may have
\* been scanned as, the setting, and a copy that is its key's own.
Grows ==
  /\ setting' = setting
  /\ given \subseteq given'
  /\ \A o \in Objects : /\ scans[o] \subseteq scans'[o]
                        /\ Seen(o) \subseteq Seen(o)'
                        /\ Held(o) => Held(o)'

LEMMA ScansGrow ==
  ASSUME UNCHANGED <<setting, object, quarantine>>, given \subseteq given',
         \A o \in Objects : scans[o] \subseteq scans'[o]
  PROVE  Grows
BY DEF Grows, Seen, Held

LEMMA BackedStays ==
  ASSUME Grows, NEW o \in Objects, NEW status, Backed(o, status)
  PROVE  Backed(o, status)'
BY DEF Grows, Backed, ScannedAs

LEMMA SettledStays ==
  ASSUME Grows, NEW e \in Events, NEW i \in 1..Len(RecordsOf[e]), Settled(e, i)
  PROVE  Settled(e, i)'
<1>1. RecordsOf[e] \in Seq(Records)
  BY S3Assumption
<1>2. RecordsOf[e][i] \in Records
  BY <1>1
<1>3. RecordsOf[e][i].object \in Objects
  BY <1>2 DEF Records
<1> QED BY <1>3 DEF Grows, Settled

\* The records before a worker's are records of its event.
LEMMA Earlier ==
  ASSUME Typed, NEW w \in Workers, worker[w].at # "idle"
  PROVE  /\ worker[w].event \in Events
         /\ 1..(worker[w].n - 1) \subseteq 1..Len(RecordsOf[worker[w].event])
<1>1. worker[w].event \in Events /\ worker[w].n \in 1..(Len(RecordsOf[worker[w].event]) + 1)
  BY DEF Typed, TypeOK
<1>2. Len(RecordsOf[worker[w].event]) \in Nat
  BY <1>1, S3Assumption
<1> QED BY <1>1, <1>2

\* A worker that stands still keeps what it knows.
LEMMA StillOK ==
  ASSUME Typed, Grows, NEW w \in Workers, WorkerOK(w), worker'[w] = worker[w]
  PROVE  WorkerOK(w)'
<1>1. /\ RecordsLeft(w)' = RecordsLeft(w) /\ Record(w)' = Record(w)
      /\ Obj(w)' = Obj(w)
  BY DEF RecordsLeft, Record, Obj
<1>2. CASE worker[w].at = "idle"
  <2>1. ~worker[w].copied
    BY <1>2 DEF WorkerOK
  <2> QED BY <1>2, <2>1 DEF WorkerOK, Acting
<1>3. CASE worker[w].at # "idle"
  <2>1. \A i \in 1..(worker[w].n - 1) : Settled(worker[w].event, i)'
    BY <1>3, Earlier, SettledStays DEF WorkerOK
  <2>2. CASE worker[w].at \in Acting \cup {"scan"}
    <3>1. PICK o \in Objects : o = Obj(w)
      BY <1>3, <2>2, AtRecord DEF WorkerOK
    <3>2. Obj(w)' = o
      BY <1>1, <3>1
    <3>3. RecordsLeft(w)' /\ Record(w)'.created /\ worker[w].content \in Seen(o)'
      BY <1>1, <2>2, <3>1 DEF WorkerOK, Grows
    <3>4. worker[w].at \in Acting => <<worker[w].content, worker[w].raw>> \in scans'[o]
      BY <3>1 DEF WorkerOK, Grows
    <3>5. worker[w].copied => worker[w].at = "delete" /\ Held(o)'
      BY <3>1 DEF WorkerOK, Grows
    <3>6. Seen(Obj(w))' = Seen(o)' /\ Held(Obj(w))' = Held(o)'
      BY <3>2
    <3> QED BY <1>3, <2>1, <3>2, <3>3, <3>4, <3>5, <3>6 DEF WorkerOK
  <2>3. CASE worker[w].at \notin Acting \cup {"scan"}
    <3>1. ~worker[w].copied
      BY <2>3 DEF WorkerOK, Acting
    <3> QED BY <1>3, <2>1, <2>3, <3>1 DEF WorkerOK, Acting
  <2> QED BY <2>2, <2>3
<1> QED BY <1>2, <1>3
-----------------------------------------------------------------------------
(* The worker's own step *)

\* Objects that a step leaves alone stay accounted for.
LEMMA ObjectStays ==
  ASSUME Grows, NEW o \in Objects, ObjectOK(o), object'[o] = object[o],
         \A c : <<o, c>> \in quarantine'[KeyOf[o]] => <<o, c>> \in quarantine[KeyOf[o]],
         o \in alerts' => o \in alerts
  PROVE  ObjectOK(o)'
<1>1. \A status : Backed(o, status) => Backed(o, status)'
  BY BackedStays
<1>2. ~object[o].there /\ ~setting.delete => Held(o)'
  BY DEF ObjectOK, Grows
<1>3. setting' = setting
  BY DEF Grows
<1>4. PICK status : status = object[o].av
  OBVIOUS
<1>5. status # "none" => Backed(o, status)'
  BY <1>1, <1>4 DEF ObjectOK
<1>6. object'[o].av # "none" => Backed(o, object[o].av)'
  BY <1>4, <1>5 DEF Backed
<1> QED BY <1>1, <1>2, <1>3, <1>6 DEF ObjectOK

\* A worker goes on to another place of the same record.
Moves(w, here, new) ==
  /\ AtLoop(w, here) /\ here # "idle"
  /\ worker' = [worker EXCEPT ![w] = new]
  /\ new.event = worker[w].event /\ new.n = worker[w].n
  /\ new.at \in Acting \cup {"scan"}

LEMMA MoveOK ==
  ASSUME Typed, Grows, NEW w \in Workers, WorkerOK(w),
         NEW here, NEW new \in WorkerStates, Moves(w, here, new),
         NEW o \in Objects, o = Obj(w), Record(w).created,
         new.content \in Seen(o)',
         new.at \in Acting => <<new.content, new.raw>> \in scans'[o],
         new.at \in {"quarantine", "delete"} => scanStatus(new.raw) = "INFECTED",
         new.copied => new.at = "delete" /\ Held(o)'
  PROVE  WorkerOK(w)'
<1>1. worker'[w] = new
  BY DEF Moves, Typed
<1>2. /\ RecordsLeft(w)' = RecordsLeft(w) /\ Record(w)' = Record(w) /\ Obj(w)' = o
      /\ worker[w].at # "idle" /\ RecordsLeft(w)
  BY <1>1 DEF RecordsLeft, Record, Obj, Moves, AtLoop
<1>3. \A i \in 1..(new.n - 1) : Settled(new.event, i)'
  BY <1>2, Earlier, SettledStays DEF WorkerOK, Moves
<1>4. Seen(Obj(w))' = Seen(o)' /\ Held(Obj(w))' = Held(o)'
  BY <1>2
<1> QED BY <1>1, <1>2, <1>3, <1>4 DEF WorkerOK, Moves

\* A worker that is done with a record goes on to the next.
LEMMA PassOK ==
  ASSUME Typed, Grows, NEW w \in Workers, WorkerOK(w), worker[w].at # "idle", RecordsLeft(w),
         NextRecord(w), NEW e, NEW n, e = worker[w].event, n = worker[w].n, Settled(e, n)'
  PROVE  WorkerOK(w)'
<1>1. PICK new \in WorkerStates :
        /\ worker' = [worker EXCEPT ![w] = new]
        /\ new.at = "record" /\ ~new.copied
        /\ new.event = e /\ new.n = n + 1
  BY NextRecordIs
<1>2. worker'[w] = new /\ n \in Nat
  BY <1>1, AtRecord DEF Typed
<1>3. \A i \in 1..n : Settled(e, i)'
  <2> SUFFICES ASSUME NEW i \in 1..n PROVE Settled(e, i)'
    OBVIOUS
  <2>1. CASE i = n
    BY <2>1
  <2>2. CASE i # n
    <3>1. i \in 1..(n - 1)
      BY <1>2, <2>2
    <3>2. e \in Events /\ i \in 1..Len(RecordsOf[e]) /\ Settled(e, i)
      BY <3>1, Earlier DEF WorkerOK
    <3> QED BY <3>2, SettledStays
  <2> QED BY <2>1, <2>2
<1>4. \A i \in 1..(new.n - 1) : Settled(new.event, i)'
  BY <1>1, <1>2, <1>3
<1> QED BY <1>1, <1>2, <1>4 DEF WorkerOK, Acting
-----------------------------------------------------------------------------
(* The steps of processS3Event *)

\* What a step of w has to show; the other workers stand still.
Preserves(w) ==
  /\ Typed' /\ Grows /\ WorkerOK(w)'
  /\ \A v \in Workers \ {w} : worker'[v] = worker[v]
  /\ \A o \in Objects : ObjectOK(o)'
  /\ \A e \in Queued : event'[e] = event[e] \/ \A i \in 1..Len(RecordsOf[e]) : Settled(e, i)'

\* A step that neither writes to a bucket nor alerts anybody.
LEMMA Unseen ==
  ASSUME IInv, NEW w \in Workers, NEW new \in WorkerStates, IsPlaced(new),
         worker' = [worker EXCEPT ![w] = new],
         UNCHANGED <<setting, object, quarantine, event, alerts, writes>>,
         scans' \in [Objects -> SUBSET ((0..MaxWrites) \X Statuses)],
         \A o \in Objects : scans[o] \subseteq scans'[o],
         given' \subseteq Objects, given \subseteq given',
         Typed' /\ Grows => WorkerOK(w)'
  PROVE  Preserves(w)
<1>1. Typed'
  BY WorkerTyped DEF IInv, Typed, TypeOK
<1>2. Grows
  BY ScansGrow
<1>3. \A o \in Objects : ObjectOK(o)'
  BY <1>2, ObjectStays DEF IInv
<1>4. \A v \in Workers \ {w} : worker'[v] = worker[v]
  BY DEF IInv, Typed
<1> QED BY <1>1, <1>2, <1>3, <1>4 DEF Preserves

\* A record that is passed over, or that is of another kind, is settled.
LEMMA PassPreserves ==
  ASSUME IInv, NEW w \in Workers, NEW here \in {"record", "scan"},
         PassOver(w, here) \/ SkipRecord(w)
  PROVE  Preserves(w)
<1>1. /\ worker[w].at # "idle" /\ RecordsLeft(w) /\ NextRecord(w) /\ Typed /\ WorkerOK(w)
      /\ UNCHANGED <<setting, object, quarantine, event, scans, alerts, writes>>
  BY DEF PassOver, SkipRecord, AtLoop, IInv
<1>2. PICK new \in WorkerStates : worker' = [worker EXCEPT ![w] = new] /\ IsPlaced(new)
  BY <1>1, NextRecordIs
<1>3. PICK o, e, n : /\ o \in Objects /\ o = Obj(w)
                      /\ e = worker[w].event /\ n = worker[w].n
  BY <1>1, AtRecord
<1>4. RecordsOf[e][n].object = o
  BY <1>3 DEF Obj, Record
<1>5. /\ given \subseteq given' /\ given' \subseteq Objects
      /\ o \in given' \/ ~RecordsOf[e][n].created
  <2>1. CASE PassOver(w, here)
    BY <1>1, <1>3, <2>1 DEF PassOver, Typed, TypeOK
  <2>2. CASE SkipRecord(w)
    BY <1>1, <1>3, <2>2 DEF SkipRecord, Record, Typed, TypeOK
  <2> QED BY <2>1, <2>2
<1>6. Settled(e, n)'
  BY <1>4, <1>5 DEF Settled
<1>7. Grows => WorkerOK(w)'
  BY <1>1, <1>3, <1>6, PassOK
<1> QED BY <1>1, <1>2, <1>5, <1>7, Unseen DEF Typed, TypeOK

LEMMA FetchPreserves ==
  ASSUME IInv, NEW w \in Workers, FetchObject(w)
  PROVE  Preserves(w)
<1>1. CASE PassOver(w, "record")
  BY <1>1, PassPreserves
<1>2. CASE ~PassOver(w, "record")
  <2>1. /\ AtLoop(w, "record") /\ Record(w).created
        /\ worker' = [worker EXCEPT ![w].at = "scan", ![w].content = object[Obj(w)].content]
        /\ UNCHANGED <<setting, object, quarantine, event, scans, given, alerts, writes>>
        /\ Typed /\ WorkerOK(w)
    BY <1>2 DEF FetchObject, IInv
  <2>2. PICK o \in Objects : o = Obj(w)
    BY <2>1, AtRecord DEF AtLoop
  <2> DEFINE new == [worker[w] EXCEPT !.at = "scan", !.content = object[o].content]
  <2>3. worker[w] \in WorkerStates /\ object[o].content \in 0..MaxWrites
    BY DEF IInv, Typed, TypeOK
  <2>4. /\ new \in WorkerStates /\ new.event = worker[w].event /\ new.n = worker[w].n
        /\ new.at = "scan" /\ new.content = object[o].content /\ new.copied = worker[w].copied
    BY <2>3 DEF WorkerStates, WorkerPlaces
  <2>5. worker' = [worker EXCEPT ![w] = new]
    BY <2>1, <2>2 DEF Typed
  <2> HIDE DEF new
  <2>6. IsPlaced(new) /\ Moves(w, "record", new)
    BY <2>1, <2>4, <2>5, StepIs DEF Moves, AtLoop, WorkerPlaces
  <2>7. ~new.copied
    BY <2>1, <2>4 DEF WorkerOK, AtLoop
  <2>8. object[o].content \in Seen(o)'
    BY <2>1, <2>3 DEF Seen
  <2>9. Grows => WorkerOK(w)'
    BY <2>1, <2>2, <2>4, <2>6, <2>7, <2>8, MoveOK DEF Acting
  <2> QED BY <2>1, <2>5, <2>6, <2>9, <2>4, Unseen DEF Typed, TypeOK
<1> QED BY <1>1, <1>2
\* What a worker between the scan and the end of a record is known to hold.
LEMMA ActingFacts ==
  ASSUME IInv, NEW w \in Workers, worker[w].at \in Acting
  PROVE  /\ RecordsLeft(w) /\ Record(w).created /\ Typed /\ WorkerOK(w)
         /\ worker[w] \in WorkerStates /\ worker[w].raw \in Statuses
         /\ \E o \in Objects : /\ o = Obj(w) /\ KeyOf[o] \in Keys
                               /\ worker[w].content \in Seen(o)
                               /\ <<worker[w].content, worker[w].raw>> \in scans[o]
<1>1. /\ RecordsLeft(w) /\ Record(w).created /\ Typed /\ WorkerOK(w)
      /\ worker[w].content \in Seen(Obj(w))
      /\ <<worker[w].content, worker[w].raw>> \in scans[Obj(w)]
  BY DEF IInv, WorkerOK
<1>2. Obj(w) \in Objects /\ KeyOf[Obj(w)] \in Keys
  BY <1>1, AtRecord DEF Acting
<1>3. worker[w].raw \in Statuses
  BY <1>1, <1>2 DEF Typed, TypeOK
<1> QED BY <1>1, <1>2, <1>3 DEF Typed

LEMMA ScanPreserves ==
  ASSUME IInv, NEW w \in Workers, ScanObject(w)
  PROVE  Preserves(w)
<1>1. CASE PassOver(w, "scan")
  BY <1>1, PassPreserves
<1>2. CASE ~PassOver(w, "scan")
  <2>1. PICK raw \in Outcomes \ {"clamErr"} :
          /\ AtLoop(w, "scan")
          /\ worker' = [worker EXCEPT ![w].at = "read tags", ![w].raw = raw]
          /\ scans' = [scans EXCEPT ![Obj(w)] = @ \cup {<<worker[w].content, raw>>}]
          /\ UNCHANGED <<setting, object, quarantine, event, given, alerts, writes>>
    BY <1>2 DEF ScanObject
  <2>2. /\ Typed /\ WorkerOK(w) /\ worker[w].at = "scan" /\ RecordsLeft(w)
        /\ Record(w).created /\ worker[w].content \in Seen(Obj(w)) /\ worker[w] \in WorkerStates
        /\ raw \in Statuses
    BY <2>1, Values DEF IInv, WorkerOK, AtLoop, Typed
  <2>3. PICK o \in Objects : o = Obj(w)
    BY <2>2, AtRecord
  <2> DEFINE new == [worker[w] EXCEPT !.at = "read tags", !.raw = raw]
  <2>4. /\ new \in WorkerStates /\ new.event = worker[w].event /\ new.n = worker[w].n
        /\ new.at = "read tags" /\ new.raw = raw
        /\ new.content = worker[w].content /\ new.copied = worker[w].copied
    BY <2>2 DEF WorkerStates, WorkerPlaces
  <2>5. worker' = [worker EXCEPT ![w] = new]
    BY <2>1 DEF Typed
  <2> HIDE DEF new
  <2>6. IsPlaced(new) /\ Moves(w, "scan", new)
    BY <2>1, <2>4, <2>5, <2>2, StepIs DEF Moves, AtLoop, WorkerPlaces, Acting
  <2>7. ~new.copied
    BY <2>2, <2>4 DEF WorkerOK
  <2>8. /\ scans' \in [Objects -> SUBSET ((0..MaxWrites) \X Statuses)]
        /\ \A p \in Objects : scans[p] \subseteq scans'[p]
        /\ <<new.content, new.raw>> \in scans'[o]
    <3>1. scans \in [Objects -> SUBSET ((0..MaxWrites) \X Statuses)]
      BY <2>2 DEF Typed, TypeOK
    <3>2. worker[w].content \in 0..MaxWrites
      BY <2>2 DEF WorkerStates
    <3>3. <<worker[w].content, raw>> \in (0..MaxWrites) \X Statuses
      BY <2>2, <3>2
    <3> DEFINE pair == <<worker[w].content, raw>>
    <3> HIDE DEF pair
    <3>4. scans' = [scans EXCEPT ![o] = scans[o] \cup {pair}]
      BY <2>1, <2>3, <3>1 DEF pair
    <3>5. scans' \in [Objects -> SUBSET ((0..MaxWrites) \X Statuses)]
      <4>1. scans[o] \cup {pair} \in SUBSET ((0..MaxWrites) \X Statuses)
        BY <3>1, <3>3 DEF pair
      <4> QED BY <3>1, <3>4, <4>1
    <3>6. scans'[o] = scans[o] \cup {pair} /\ \A p \in Objects : scans[p] \subseteq scans'[p]
      BY <3>1, <3>4
    <3> QED BY <2>4, <3>5, <3>6 DEF pair
  <2>9. new.content \in Seen(o)'
    BY <2>1, <2>2, <2>3, <2>4 DEF Seen
  <2>10. Grows => WorkerOK(w)'
    BY <2>2, <2>3, <2>4, <2>6, <2>7, <2>8, <2>9, MoveOK
  <2>11. given' \subseteq Objects /\ given \subseteq given'
    BY <2>1, <2>2 DEF Typed, TypeOK
  <2> QED BY <2>1, <2>4, <2>5, <2>6, <2>8, <2>10, <2>11, Unseen
<1> QED BY <1>1, <1>2

LEMMA ReadTagsPreserves ==
  ASSUME IInv, NEW w \in Workers, ReadTags(w)
  PROVE  Preserves(w)
<1>1. PICK tags \in {NoTags, object[Obj(w)].tags} :
        /\ AtLoop(w, "read tags")
        /\ worker' = [worker EXCEPT ![w].at = "write tags", ![w].tags = tags]
        /\ UNCHANGED <<setting, object, quarantine, event, scans, given, alerts, writes>>
  BY DEF ReadTags
<1>2. worker[w].at \in Acting /\ worker[w].at = "read tags"
  BY <1>1 DEF AtLoop, Acting
<1>3. PICK o \in Objects : /\ o = Obj(w) /\ worker[w].content \in Seen(o)
                           /\ <<worker[w].content, worker[w].raw>> \in scans[o]
  BY <1>2, ActingFacts
<1>4. Typed /\ WorkerOK(w) /\ Record(w).created /\ worker[w] \in WorkerStates
  BY <1>2, ActingFacts
<1>5. tags \in 0..NoTags
  <2>1. object[o].tags \in 0..NoTags
    BY <1>4 DEF Typed, TypeOK
  <2>2. NoTags \in 0..NoTags
    BY Values
  <2> QED BY <1>1, <1>3, <2>1, <2>2
<1> DEFINE new == [worker[w] EXCEPT !.at = "write tags", !.tags = tags]
<1>6. /\ new \in WorkerStates /\ new.event = worker[w].event /\ new.n = worker[w].n
      /\ new.at = "write tags" /\ new.raw = worker[w].raw
      /\ new.content = worker[w].content /\ new.copied = worker[w].copied
  BY <1>4, <1>5 DEF WorkerStates, WorkerPlaces
<1>7. worker' = [worker EXCEPT ![w] = new]
  BY <1>1, <1>4 DEF Typed
<1> HIDE DEF new
<1>8. IsPlaced(new) /\ Moves(w, "read tags", new)
  BY <1>1, <1>2, <1>4, <1>6, <1>7, StepIs DEF Moves, AtLoop, WorkerPlaces, Acting
<1>9. ~new.copied
  BY <1>2, <1>4, <1>6 DEF WorkerOK
<1>10. Grows => WorkerOK(w)'
  BY <1>1, <1>3, <1>4, <1>6, <1>8, <1>9, MoveOK DEF Grows
<1> QED BY <1>1, <1>4, <1>6, <1>7, <1>8, <1>10, Unseen DEF Typed, TypeOK
\* The scan that a worker acts on backs what it does.
LEMMA RawBacks ==
  ASSUME IInv, NEW w \in Workers, worker[w].at \in Acting, NEW o \in Objects, o = Obj(w)
  PROVE  Backed(o, scanStatus(worker[w].raw))
<1>1. /\ worker[w].content \in Seen(o) /\ worker[w].raw \in Statuses
      /\ <<worker[w].content, worker[w].raw>> \in scans[o]
  BY ActingFacts
<1> QED BY <1>1 DEF Backed, ScannedAs

\* Contents stay what they are in every step of a worker.
LEMMA SameContents ==
  ASSUME UNCHANGED <<setting, scans, given>>,
         \A o \in Objects : object'[o].content = object[o].content,
         \A o \in Objects : Held(o) => Held(o)'
  PROVE  Grows
BY DEF Grows, Seen

LEMMA WriteTagsPreserves ==
  ASSUME IInv, NEW w \in Workers, WriteTags(w)
  PROVE  Preserves(w)
<1>1. /\ AtLoop(w, "write tags")
      /\ worker' = [worker EXCEPT ![w].at = AfterTags(w), ![w].tags = 0]
      /\ UNCHANGED <<setting, quarantine, event, scans, given, alerts, writes>>
  BY DEF WriteTags
<1>2. worker[w].at \in Acting /\ worker[w].at = "write tags"
  BY <1>1 DEF AtLoop, Acting
<1>3. PICK o \in Objects : /\ o = Obj(w) /\ worker[w].content \in Seen(o)
                           /\ <<worker[w].content, worker[w].raw>> \in scans[o]
  BY <1>2, ActingFacts
<1>4. /\ Typed /\ WorkerOK(w) /\ Record(w).created /\ worker[w] \in WorkerStates
      /\ worker[w].tags \in 0..NoTags
  BY <1>2, ActingFacts DEF WorkerStates
<1> DEFINE new == [worker[w] EXCEPT !.at = AfterTags(w), !.tags = 0]
           st == scanStatus(worker[w].raw)
<1>5. /\ st \in {"CLEAN", "INFECTED"} /\ AfterTags(w) \in {"quarantine", "notify"}
      /\ AfterTags(w) = "quarantine" => st = "INFECTED"
  BY DEF AfterTags, scanStatus
<1>6. /\ new \in WorkerStates /\ new.event = worker[w].event /\ new.n = worker[w].n
      /\ new.at = AfterTags(w) /\ new.raw = worker[w].raw
      /\ new.content = worker[w].content /\ new.copied = worker[w].copied
  BY <1>4, <1>5, Values DEF WorkerStates, WorkerPlaces
<1>7. worker' = [worker EXCEPT ![w] = new]
  BY <1>1, <1>4 DEF Typed
<1>8. Backed(o, st)
  BY <1>2, <1>3, RawBacks
<1> HIDE DEF new, st
<1>9. IsPlaced(new) /\ Moves(w, "write tags", new)
  BY <1>1, <1>2, <1>4, <1>5, <1>6, <1>7, StepIs DEF Moves, AtLoop, WorkerPlaces, Acting
<1>10. ~new.copied
  BY <1>2, <1>4, <1>6 DEF WorkerOK
<1>11. object' = object \/ object' = [object EXCEPT ![o].av = st, ![o].tags = worker[w].tags]
  BY <1>3 DEF WriteTags, st
<1>12. /\ object' \in [Objects -> [content : 0..MaxWrites, there : BOOLEAN,
                                   av : {"none", "CLEAN", "INFECTED"},
                                   tags : 0..NoTags, wanted : 0..MaxWrites]]
       /\ \A p \in Objects : /\ object'[p].content = object[p].content
                             /\ object'[p].wanted = object[p].wanted
                             /\ object'[p].there = object[p].there
                             /\ object'[p].av \in {object[p].av, st}
                             /\ p # o => object'[p] = object[p]
  <2>1. object \in [Objects -> [content : 0..MaxWrites, there : BOOLEAN,
                                   av : {"none", "CLEAN", "INFECTED"},
                                   tags : 0..NoTags, wanted : 0..MaxWrites]]
    BY <1>4 DEF Typed, TypeOK
  <2> QED BY <1>4, <1>5, <1>11, <2>1
<1>13. Typed'
  <2>1. /\ quarantine' \in [Keys -> SUBSET (Objects \X (0..MaxWrites))]
        /\ event' \in [Events -> {"waiting", "gone"}]
        /\ scans' \in [Objects -> SUBSET ((0..MaxWrites) \X Statuses)]
        /\ given' \subseteq Objects /\ alerts' \subseteq Objects
    BY <1>1, <1>4 DEF Typed, TypeOK
  <2>2. /\ Typed /\ new \in WorkerStates /\ IsPlaced(new) /\ UNCHANGED <<setting, writes>>
        /\ \A p \in Objects : /\ object'[p].content = object[p].content
                              /\ object'[p].wanted = object[p].wanted
    BY <1>1, <1>4, <1>6, <1>9, <1>12
  <2> QED BY <1>7, <1>12, <2>1, <2>2, WorkerTyped
<1>14. Grows
  BY <1>1, <1>12, SameContents DEF Held
<1>15. WorkerOK(w)'
  <2>1. new.at \in {"quarantine", "delete"} => scanStatus(new.raw) = "INFECTED"
    BY <1>5, <1>6 DEF st
  <2> QED BY <1>1, <1>3, <1>4, <1>5, <1>6, <1>9, <1>10, <1>14, <2>1, MoveOK DEF Grows
<1>16. \A p \in Objects : ObjectOK(p)'
  <2>1. \A p \in Objects \ {o} : ObjectOK(p)'
    BY <1>1, <1>12, <1>14, ObjectStays DEF IInv
  <2>2. ObjectOK(o)'
    <3>1. ObjectOK(o) /\ \A status : Backed(o, status) => Backed(o, status)'
      BY <1>14, BackedStays DEF IInv
    <3>2. object'[o].av # "none" => Backed(o, object[o].av)'
      <4>1. PICK av : av = object'[o].av
        OBVIOUS
      <4>2. av # "none" => Backed(o, av)
        <5>1. CASE av = st  BY <1>8, <5>1
        <5>2. CASE av = object[o].av  BY <3>1, <5>2 DEF ObjectOK
        <5> QED BY <1>12, <4>1, <5>1, <5>2
      <4> QED BY <3>1, <4>1, <4>2 DEF Backed
    <3>3. object'[o].there = object[o].there /\ setting' = setting /\ (Held(o) => Held(o)')
      BY <1>12, <1>14 DEF Grows
    <3> QED BY <1>1, <3>1, <3>2, <3>3 DEF ObjectOK
  <2> QED BY <2>1, <2>2
<1> QED BY <1>1, <1>4, <1>7, <1>13, <1>14, <1>15, <1>16 DEF Preserves, Typed
LEMMA CopyPreserves ==
  ASSUME IInv, NEW w \in Workers, CopyToQuarantine(w)
  PROVE  Preserves(w)
<1>1. PICK copied \in BOOLEAN :
        /\ AtLoop(w, "quarantine")
        /\ UNCHANGED <<setting, object, event, scans, given, alerts, writes>>
        /\ worker' = IF copied THEN [worker EXCEPT ![w].at = "delete", ![w].copied = TRUE]
                     ELSE [worker EXCEPT ![w].at = "delete"]
        /\ quarantine' = IF copied THEN [quarantine EXCEPT
                                     ![KeyOf[Obj(w)]] = {<<Obj(w), object[Obj(w)].content>>}]
                         ELSE quarantine
  <2>1. UNCHANGED <<setting, object, event, scans, given, alerts, writes>>
    BY DEF CopyToQuarantine
  <2>2. CASE Step(w, "quarantine", "delete") /\ UNCHANGED quarantine
    BY <2>1, <2>2 DEF Step
  <2>3. CASE ~(Step(w, "quarantine", "delete") /\ UNCHANGED quarantine)
    BY <2>1, <2>3 DEF CopyToQuarantine
  <2> QED BY <2>2, <2>3
<1>2. worker[w].at \in Acting /\ worker[w].at = "quarantine"
  BY <1>1 DEF AtLoop, Acting
<1>3. PICK o \in Objects : /\ o = Obj(w) /\ worker[w].content \in Seen(o) /\ KeyOf[o] \in Keys
                           /\ <<worker[w].content, worker[w].raw>> \in scans[o]
  BY <1>2, ActingFacts
<1>4. /\ Typed /\ WorkerOK(w) /\ Record(w).created /\ worker[w] \in WorkerStates
      /\ scanStatus(worker[w].raw) = "INFECTED" /\ ~worker[w].copied
  BY <1>2, ActingFacts DEF WorkerOK
<1> DEFINE new == [worker[w] EXCEPT !.at = "delete", !.copied = copied]
<1>5. /\ new \in WorkerStates /\ new.event = worker[w].event /\ new.n = worker[w].n
      /\ new.at = "delete" /\ new.raw = worker[w].raw
      /\ new.content = worker[w].content /\ new.copied = copied
  BY <1>4 DEF WorkerStates, WorkerPlaces
<1>6. worker' = [worker EXCEPT ![w] = new]
  <2>1. CASE copied
    BY <1>1, <1>4, <2>1 DEF Typed
  <2>2. CASE ~copied
    <3>1. worker[w].copied = copied /\ worker[w] = [worker[w] EXCEPT !.copied = copied]
      BY <1>4, <2>2 DEF WorkerStates
    <3>2. new = [worker[w] EXCEPT !.at = "delete"]
      BY <1>4, <3>1 DEF WorkerStates
    <3> HIDE DEF new
    <3> QED BY <1>1, <1>4, <2>2, <3>2 DEF Typed
  <2> QED BY <2>1, <2>2
<1> HIDE DEF new
<1>7. IsPlaced(new) /\ Moves(w, "quarantine", new)
  BY <1>1, <1>2, <1>4, <1>5, <1>6, StepIs DEF Moves, AtLoop, WorkerPlaces, Acting
<1>8. /\ object[o].content \in 0..MaxWrites
      /\ quarantine \in [Keys -> SUBSET (Objects \X (0..MaxWrites))]
  BY <1>4 DEF Typed, TypeOK
<1>9. quarantine' \in [Keys -> SUBSET (Objects \X (0..MaxWrites))]
  BY <1>1, <1>3, <1>8
<1>10. /\ \A p \in Objects \ {o} : \A c :
            <<p, c>> \in quarantine'[KeyOf[p]] => <<p, c>> \in quarantine[KeyOf[p]]
       /\ copied => <<o, object[o].content>> \in quarantine'[KeyOf[o]]
       /\ \A p \in Objects : KeyOf[p] # KeyOf[o] => quarantine'[KeyOf[p]] = quarantine[KeyOf[p]]
       /\ ~copied => quarantine' = quarantine
  BY <1>1, <1>3, <1>8, S3Assumption
<1>11. Typed'
  <2>1. /\ object' \in [Objects -> [content : 0..MaxWrites, there : BOOLEAN,
                                    av : {"none", "CLEAN", "INFECTED"},
                                    tags : 0..NoTags, wanted : 0..MaxWrites]]
        /\ event' \in [Events -> {"waiting", "gone"}]
        /\ scans' \in [Objects -> SUBSET ((0..MaxWrites) \X Statuses)]
        /\ given' \subseteq Objects /\ alerts' \subseteq Objects
    BY <1>1, <1>4 DEF Typed, TypeOK
  <2>2. UNCHANGED <<setting, object, writes>>
    BY <1>1
  <2> QED BY <1>4, <1>5, <1>6, <1>7, <1>9, <2>1, <2>2, WorkerTyped
<1>12. /\ \A p \in Objects : Held(p) => Held(p)'
       /\ copied => Held(o)'
  BY <1>1, <1>10 DEF Held, OwnsKey
<1>13. Grows
  BY <1>1, <1>12, SameContents
<1>14. WorkerOK(w)'
  BY <1>1, <1>3, <1>4, <1>5, <1>7, <1>12, <1>13, MoveOK DEF Grows
<1>15. \A p \in Objects : ObjectOK(p)'
  <2>1. \A p \in Objects \ {o} : ObjectOK(p)'
    BY <1>1, <1>10, <1>13, ObjectStays DEF IInv
  <2>2. ObjectOK(o)'
    <3>1. ObjectOK(o) /\ \A status : Backed(o, status) => Backed(o, status)'
      BY <1>13, BackedStays DEF IInv
    <3>2. Backed(o, "INFECTED")'
      BY <1>2, <1>3, <1>4, <3>1, RawBacks
    <3>3. object' = object /\ setting' = setting /\ alerts' = alerts /\ (Held(o) => Held(o)')
      BY <1>1, <1>12
    <3>4. object[o].av # "none" => Backed(o, object[o].av)'
      <4>1. PICK av : av = object[o].av
        OBVIOUS
      <4>2. av # "none" => Backed(o, av)'
        BY <3>1, <4>1 DEF ObjectOK
      <4> QED BY <3>3, <4>1, <4>2 DEF Backed
    <3> QED BY <3>1, <3>2, <3>3, <3>4 DEF ObjectOK
  <2> QED BY <2>1, <2>2
<1> QED BY <1>1, <1>4, <1>6, <1>11, <1>13, <1>14, <1>15 DEF Preserves, Typed

LEMMA DeletePreserves ==
  ASSUME IInv, NEW w \in Workers, DeleteInfected(w)
  PROVE  Preserves(w)
<1>1. /\ AtLoop(w, "delete")
      /\ worker' = [worker EXCEPT ![w].at = "notify", ![w].copied = FALSE]
      /\ \/ ShouldDelete(w) /\ object' = [object EXCEPT ![Obj(w)].there = FALSE]
         \/ UNCHANGED object
      /\ UNCHANGED <<setting, quarantine, event, scans, given, alerts, writes>>
  BY DEF DeleteInfected
<1>2. worker[w].at \in Acting /\ worker[w].at = "delete"
  BY <1>1 DEF AtLoop, Acting
<1>3. PICK o \in Objects : /\ o = Obj(w) /\ worker[w].content \in Seen(o)
                           /\ <<worker[w].content, worker[w].raw>> \in scans[o]
  BY <1>2, ActingFacts
<1>4. /\ Typed /\ WorkerOK(w) /\ Record(w).created /\ worker[w] \in WorkerStates
      /\ scanStatus(worker[w].raw) = "INFECTED" /\ (worker[w].copied => Held(o))
  BY <1>2, <1>3, ActingFacts DEF WorkerOK
<1> DEFINE new == [worker[w] EXCEPT !.at = "notify", !.copied = FALSE]
<1>5. /\ new \in WorkerStates /\ new.event = worker[w].event /\ new.n = worker[w].n
      /\ new.at = "notify" /\ new.raw = worker[w].raw
      /\ new.content = worker[w].content /\ ~new.copied
  BY <1>4 DEF WorkerStates, WorkerPlaces
<1>6. worker' = [worker EXCEPT ![w] = new]
  BY <1>1, <1>4 DEF Typed
<1> HIDE DEF new
<1>7. IsPlaced(new) /\ Moves(w, "delete", new)
  BY <1>1, <1>2, <1>4, <1>5, <1>6, StepIs DEF Moves, AtLoop, WorkerPlaces, Acting
<1>8. /\ object' \in [Objects -> [content : 0..MaxWrites, there : BOOLEAN,
                                  av : {"none", "CLEAN", "INFECTED"},
                                  tags : 0..NoTags, wanted : 0..MaxWrites]]
      /\ \A p \in Objects : /\ object'[p].content = object[p].content
                            /\ object'[p].wanted = object[p].wanted
                            /\ object'[p].av = object[p].av
                            /\ p # o => object'[p] = object[p]
  <2>1. object \in [Objects -> [content : 0..MaxWrites, there : BOOLEAN,
                                   av : {"none", "CLEAN", "INFECTED"},
                                   tags : 0..NoTags, wanted : 0..MaxWrites]]
    BY <1>4 DEF Typed, TypeOK
  <2>2. CASE object' = object
    BY <2>1, <2>2
  <2>3. CASE object' = [object EXCEPT ![o].there = FALSE]
    BY <2>1, <2>3
  <2> QED BY <1>1, <1>3, <2>2, <2>3
<1>9. Typed'
  <2>1. /\ quarantine' \in [Keys -> SUBSET (Objects \X (0..MaxWrites))]
        /\ event' \in [Events -> {"waiting", "gone"}]
        /\ scans' \in [Objects -> SUBSET ((0..MaxWrites) \X Statuses)]
        /\ given' \subseteq Objects /\ alerts' \subseteq Objects
    BY <1>1, <1>4 DEF Typed, TypeOK
  <2>2. UNCHANGED <<setting, writes>>
    BY <1>1
  <2> QED BY <1>4, <1>5, <1>6, <1>7, <1>8, <2>1, <2>2, WorkerTyped
<1>10. Grows
  BY <1>1, <1>8, SameContents DEF Held
<1>11. WorkerOK(w)'
  BY <1>1, <1>3, <1>4, <1>5, <1>7, <1>10, MoveOK DEF Grows
<1>12. \A p \in Objects : ObjectOK(p)'
  <2>1. \A p \in Objects \ {o} : ObjectOK(p)'
    BY <1>1, <1>8, <1>10, ObjectStays DEF IInv
  <2>2. ObjectOK(o)'
    <3>1. ObjectOK(o) /\ \A status : Backed(o, status) => Backed(o, status)'
      BY <1>10, BackedStays DEF IInv
    <3>2. Backed(o, "INFECTED")'
      BY <1>2, <1>3, <1>4, <3>1, RawBacks
    <3>3. /\ object'[o].av = object[o].av /\ setting' = setting /\ alerts' = alerts
          /\ quarantine' = quarantine
      BY <1>1, <1>8
    <3>4. object'[o].av # "none" => Backed(o, object[o].av)'
      <4>1. PICK av : av = object[o].av
        OBVIOUS
      <4>2. av # "none" => Backed(o, av)'
        BY <3>1, <4>1 DEF ObjectOK
      <4> QED BY <3>3, <4>1, <4>2 DEF Backed
    <3>5. ~object'[o].there /\ ~setting.delete => Held(o)'
      <4>1. CASE ShouldDelete(w)
        BY <1>4, <1>10, <4>1 DEF ShouldDelete, Grows
      <4>2. CASE object' = object
        BY <1>10, <3>1, <4>2 DEF ObjectOK, Grows
      <4> QED BY <1>1, <4>1, <4>2
    <3> QED BY <3>1, <3>2, <3>3, <3>4, <3>5 DEF ObjectOK
  <2> QED BY <2>1, <2>2
<1> QED BY <1>1, <1>4, <1>6, <1>9, <1>10, <1>11, <1>12 DEF Preserves, Typed
LEMMA NotifyPreserves ==
  ASSUME IInv, NEW w \in Workers, Notify(w)
  PROVE  Preserves(w)
<1>1. /\ AtLoop(w, "notify") /\ NextRecord(w)
      /\ \/ scanStatus(worker[w].raw) = "INFECTED" /\ alerts' = alerts \cup {Obj(w)}
         \/ UNCHANGED alerts
      /\ UNCHANGED <<setting, object, quarantine, event, scans, given, writes>>
  BY DEF Notify
<1>2. worker[w].at \in Acting /\ worker[w].at # "idle" /\ RecordsLeft(w)
  BY <1>1 DEF AtLoop, Acting
<1>3. PICK o, e, n : /\ o \in Objects /\ o = Obj(w)
                      /\ e = worker[w].event /\ n = worker[w].n
                      /\ <<worker[w].content, worker[w].raw>> \in scans[o]
  BY <1>2, ActingFacts
<1>4. Typed /\ WorkerOK(w)
  BY DEF IInv
<1>5. PICK new \in WorkerStates : worker' = [worker EXCEPT ![w] = new] /\ IsPlaced(new)
  BY <1>1, <1>2, <1>4, NextRecordIs
<1>6. Typed'
  <2>1. /\ object' \in [Objects -> [content : 0..MaxWrites, there : BOOLEAN,
                                    av : {"none", "CLEAN", "INFECTED"},
                                    tags : 0..NoTags, wanted : 0..MaxWrites]]
        /\ quarantine' \in [Keys -> SUBSET (Objects \X (0..MaxWrites))]
        /\ event' \in [Events -> {"waiting", "gone"}]
        /\ scans' \in [Objects -> SUBSET ((0..MaxWrites) \X Statuses)]
        /\ given' \subseteq Objects /\ alerts' \subseteq Objects
    BY <1>1, <1>3, <1>4 DEF Typed, TypeOK
  <2>2. UNCHANGED <<setting, object, writes>>
    BY <1>1
  <2> QED BY <1>4, <1>5, <2>1, <2>2, WorkerTyped
<1>7. Grows
  BY <1>1, ScansGrow
<1>8. Settled(e, n)'
  <2>1. RecordsOf[e][n].object = o
    BY <1>3 DEF Obj, Record
  <2>2. scans'[o] # {}
    BY <1>1, <1>3
  <2> QED BY <2>1, <2>2 DEF Settled
<1>9. WorkerOK(w)'
  BY <1>1, <1>2, <1>3, <1>4, <1>7, <1>8, PassOK
<1>10. \A p \in Objects : ObjectOK(p)'
  <2>1. \A p \in Objects : p \notin alerts' \ alerts => ObjectOK(p)'
    BY <1>1, <1>7, ObjectStays DEF IInv
  <2>2. ASSUME o \in alerts' \ alerts
        PROVE  ObjectOK(o)'
    <3>1. Backed(o, "INFECTED")'
      BY <1>1, <1>2, <1>3, <1>7, <2>2, RawBacks, BackedStays
    <3>2. object' = object /\ setting' = setting /\ (Held(o) => Held(o)')
      BY <1>1, <1>3, <1>7 DEF Grows
    <3>3. PICK av : av = object[o].av
      OBVIOUS
    <3>4. ObjectOK(o) /\ (av # "none" => Backed(o, av)')
      BY <1>3, <1>7, <3>3, BackedStays DEF ObjectOK, IInv
    <3> QED BY <3>1, <3>2, <3>3, <3>4 DEF ObjectOK
  <2> QED BY <1>1, <1>3, <2>1, <2>2
<1> QED BY <1>1, <1>4, <1>5, <1>6, <1>7, <1>9, <1>10 DEF Preserves, Typed

LEMMA AcknowledgePreserves ==
  ASSUME IInv, NEW w \in Workers, Acknowledge(w)
  PROVE  Preserves(w)
<1>1. /\ worker[w].at = "record" /\ ~RecordsLeft(w)
      /\ worker' = [worker EXCEPT ![w] = Idle]
      /\ \/ event' = [event EXCEPT ![worker[w].event] = "gone"]
         \/ UNCHANGED event
      /\ UNCHANGED <<setting, object, quarantine, scans, given, alerts, writes>>
  BY DEF Acknowledge
<1>2. Typed /\ WorkerOK(w) /\ Idle \in WorkerStates /\ IsPlaced(Idle) /\ ~Idle.copied
  BY Values DEF IInv, IsPlaced
<1>3. PICK e \in Events : e = worker[w].event
  BY <1>1, <1>2 DEF Typed, TypeOK
<1>4. Typed'
  <2>1. /\ object' \in [Objects -> [content : 0..MaxWrites, there : BOOLEAN,
                                    av : {"none", "CLEAN", "INFECTED"},
                                    tags : 0..NoTags, wanted : 0..MaxWrites]]
        /\ quarantine' \in [Keys -> SUBSET (Objects \X (0..MaxWrites))]
        /\ event' \in [Events -> {"waiting", "gone"}]
        /\ scans' \in [Objects -> SUBSET ((0..MaxWrites) \X Statuses)]
        /\ given' \subseteq Objects /\ alerts' \subseteq Objects
    BY <1>1, <1>2, <1>3 DEF Typed, TypeOK
  <2>2. UNCHANGED <<setting, object, writes>>
    BY <1>1
  <2> QED BY <1>1, <1>2, <2>1, <2>2, WorkerTyped
<1>5. Grows
  BY <1>1, ScansGrow
<1>6. \A i \in 1..Len(RecordsOf[e]) : Settled(e, i)'
  <2>1. /\ worker[w].n \in 1..(Len(RecordsOf[e]) + 1) /\ Len(RecordsOf[e]) \in Nat
    BY <1>1, <1>2, <1>3, S3Assumption DEF Typed, TypeOK
  <2>2. 1..Len(RecordsOf[e]) \subseteq 1..(worker[w].n - 1)
    BY <1>1, <1>3, <2>1 DEF RecordsLeft
  <2>3. \A i \in 1..Len(RecordsOf[e]) : Settled(e, i)
    BY <1>1, <1>2, <1>3, <2>2 DEF WorkerOK
  <2> QED BY <1>5, <2>3, SettledStays
<1>7. WorkerOK(w)'
  BY <1>1, <1>2, Values DEF WorkerOK, Acting, Typed
<1>8. \A o \in Objects : ObjectOK(o)'
  BY <1>1, <1>5, ObjectStays DEF IInv
<1>9. \A q \in Queued : event'[q] = event[q] \/ \A i \in 1..Len(RecordsOf[q]) : Settled(q, i)'
  BY <1>1, <1>2, <1>3, <1>6, S3Assumption DEF Typed, TypeOK
<1> QED BY <1>1, <1>2, <1>4, <1>5, <1>7, <1>8, <1>9 DEF Preserves, Typed

LEMMA DeliverPreserves ==
  ASSUME IInv, NEW w \in Workers, Deliver(w)
  PROVE  Preserves(w)
<1>1. /\ UNCHANGED <<setting, object, quarantine, scans, given, alerts, writes>>
      /\ \A e \in Queued : event'[e] = event[e]
      /\ \/ UNCHANGED worker
         \/ \E new \in WorkerStates :
              /\ worker' = [worker EXCEPT ![w] = new]
              /\ new.at = "record" /\ new.n = 1 /\ ~new.copied
  BY Deliveries DEF IInv
<1>2. Typed' /\ Typed
  BY DeliveryTyped DEF IInv
<1>3. Grows
  BY <1>1, ScansGrow
<1>4. WorkerOK(w)'
  <2>1. CASE UNCHANGED worker
    BY <1>2, <1>3, <2>1, StillOK DEF IInv
  <2>2. ASSUME NEW new \in WorkerStates, worker' = [worker EXCEPT ![w] = new],
               new.at = "record", new.n = 1, ~new.copied
        PROVE  WorkerOK(w)'
    <3>1. worker'[w] = new /\ 1..(new.n - 1) = {}
      BY <1>2, <2>2 DEF Typed
    <3> QED BY <2>2, <3>1 DEF WorkerOK, Acting
  <2> QED BY <1>1, <2>1, <2>2
<1>5. \A o \in Objects : ObjectOK(o)'
  BY <1>1, <1>3, ObjectStays DEF IInv
<1> QED BY <1>1, <1>2, <1>3, <1>4, <1>5 DEF Preserves, Typed
-----------------------------------------------------------------------------
(* Users and crashes *)

\* What the other steps have to show: no worker moves, or all are lost.
Keeps ==
  /\ Typed' /\ Grows
  /\ \A w \in Workers : WorkerOK(w)'
  /\ \A o \in Objects : ObjectOK(o)'
  /\ event' = event

LEMMA CrashKeeps ==
  ASSUME IInv, Crash
  PROVE  Keeps
<1>1. /\ worker' = [w \in Workers |-> Idle]
      /\ UNCHANGED <<setting, object, quarantine, event, scans, given, alerts, writes>>
      /\ Typed
  BY DEF Crash, IInv
<1>2. Idle \in WorkerStates /\ Idle.at = "idle" /\ ~Idle.copied /\ Idle.raw = Empty
      /\ Idle.at \in WorkerPlaces
  BY Values DEF Idle, WorkerStates
<1>3. Typed'
  BY <1>1, <1>2 DEF Typed, TypeOK
<1>4. Grows
  BY <1>1, ScansGrow
<1>5. \A w \in Workers : WorkerOK(w)'
  BY <1>1, <1>2 DEF WorkerOK, Acting
<1>6. \A o \in Objects : ObjectOK(o)'
  BY <1>1, <1>4, ObjectStays DEF IInv
<1> QED BY <1>1, <1>3, <1>4, <1>5, <1>6 DEF Keeps

LEMMA OverwriteKeeps ==
  ASSUME IInv, NEW o \in Objects, Overwrite(o)
  PROVE  Keeps
<1> DEFINE new == [content |-> object[o].content + 1, there |-> TRUE,
                   av |-> "none", tags |-> 0, wanted |-> 0]
<1>1. /\ o \notin Versioned /\ writes < MaxWrites /\ writes' = writes + 1
      /\ object' = [object EXCEPT ![o] = new]
      /\ UNCHANGED <<setting, quarantine, event, worker, scans, given, alerts>>
      /\ Typed
  BY DEF Overwrite, IInv
<1>2. /\ object \in [Objects -> [content : 0..MaxWrites, there : BOOLEAN,
                                 av : {"none", "CLEAN", "INFECTED"},
                                 tags : 0..NoTags, wanted : 0..MaxWrites]]
      /\ writes \in 0..MaxWrites /\ MaxWrites \in Nat
      /\ \A p \in Objects : object[p].content <= writes /\ object[p].wanted <= writes
  BY <1>1, S3Assumption DEF Typed, TypeOK
<1>3. /\ new \in [content : 0..MaxWrites, there : BOOLEAN,
                  av : {"none", "CLEAN", "INFECTED"},
                  tags : 0..NoTags, wanted : 0..MaxWrites]
      /\ new.content = object[o].content + 1 /\ new.content <= writes' /\ new.wanted <= writes'
      /\ new.there /\ new.av = "none"
  BY <1>1, <1>2, Values
<1> HIDE DEF new
<1>4. Typed'
  <2>1. \A p \in Objects : object'[p].content <= writes' /\ object'[p].wanted <= writes'
    BY <1>1, <1>2, <1>3
  <2>2. writes' \in 0..MaxWrites
    BY <1>1, <1>2
  <2> QED BY <1>1, <1>2, <1>3, <2>1, <2>2 DEF Typed, TypeOK
<1>5. Grows
  <2>1. Seen(o) \subseteq Seen(o)' /\ Held(o)'
    BY <1>1, <1>2, <1>3 DEF Seen, Held
  <2>2. \A p \in Objects \ {o} : Seen(p) \subseteq Seen(p)' /\ (Held(p) => Held(p)')
    BY <1>1, <1>2 DEF Seen, Held
  <2> QED BY <1>1, <2>1, <2>2 DEF Grows
<1>6. \A w \in Workers : WorkerOK(w)'
  BY <1>1, <1>5, StillOK DEF IInv
<1>7. \A p \in Objects : ObjectOK(p)'
  <2>1. \A p \in Objects \ {o} : ObjectOK(p)'
    BY <1>1, <1>2, <1>5, ObjectStays DEF IInv
  <2>2. ObjectOK(o)'
    <3>1. object'[o].av = "none" /\ object'[o].there
      BY <1>1, <1>2, <1>3
    <3>2. Backed(o, "INFECTED") => Backed(o, "INFECTED")'
      BY <1>5, BackedStays
    <3> QED BY <1>1, <3>1, <3>2 DEF ObjectOK, IInv
  <2> QED BY <2>1, <2>2
<1> QED BY <1>1, <1>4, <1>5, <1>6, <1>7 DEF Keeps

LEMMA EditTagsKeeps ==
  ASSUME IInv, NEW o \in Objects, EditTags(o)
  PROVE  Keeps
<1>1. /\ writes < MaxWrites /\ writes' = writes + 1
      /\ object' = [object EXCEPT ![o].tags = object[o].wanted + 1, ![o].wanted = @ + 1]
      /\ UNCHANGED <<setting, quarantine, event, worker, scans, given, alerts>>
      /\ Typed
  BY DEF EditTags, IInv
<1>2. /\ object \in [Objects -> [content : 0..MaxWrites, there : BOOLEAN,
                                 av : {"none", "CLEAN", "INFECTED"},
                                 tags : 0..NoTags, wanted : 0..MaxWrites]]
      /\ writes \in 0..MaxWrites /\ MaxWrites \in Nat
      /\ \A p \in Objects : object[p].content <= writes /\ object[p].wanted <= writes
  BY <1>1, S3Assumption DEF Typed, TypeOK
<1> DEFINE m == object[o].wanted + 1
           new == [object[o] EXCEPT !.tags = m, !.wanted = m]
<1>3. m \in 0..MaxWrites /\ m \in 0..NoTags /\ m <= writes'
  <2>1. object[o].wanted \in 0..MaxWrites
    BY <1>2
  <2> QED BY <1>1, <1>2, <2>1, Values
<1>4. object' = [object EXCEPT ![o] = new]
  BY <1>1, <1>2
<1> HIDE DEF m
<1>5. /\ new \in [content : 0..MaxWrites, there : BOOLEAN,
                  av : {"none", "CLEAN", "INFECTED"},
                  tags : 0..NoTags, wanted : 0..MaxWrites]
      /\ new.content = object[o].content /\ new.wanted = m
      /\ new.there = object[o].there /\ new.av = object[o].av
  BY <1>2, <1>3
<1> HIDE DEF new
<1>6. /\ object' \in [Objects -> [content : 0..MaxWrites, there : BOOLEAN,
                                  av : {"none", "CLEAN", "INFECTED"},
                                  tags : 0..NoTags, wanted : 0..MaxWrites]]
      /\ \A p \in Objects : /\ object'[p].content = object[p].content
                            /\ object'[p].there = object[p].there
                            /\ object'[p].av = object[p].av
                            /\ p # o => object'[p] = object[p]
  BY <1>2, <1>4, <1>5
<1>7. Typed'
  <2>1. \A p \in Objects : object'[p].content <= writes' /\ object'[p].wanted <= writes'
    BY <1>1, <1>2, <1>3, <1>4, <1>5
  <2>2. writes' \in 0..MaxWrites
    BY <1>1, <1>2
  <2> QED BY <1>1, <1>6, <2>1, <2>2 DEF Typed, TypeOK
<1>8. Grows
  BY <1>1, <1>6, SameContents DEF Held
<1>9. \A w \in Workers : WorkerOK(w)'
  BY <1>1, <1>8, StillOK DEF IInv
<1>10. \A p \in Objects : ObjectOK(p)'
  <2>1. \A p \in Objects \ {o} : ObjectOK(p)'
    BY <1>1, <1>6, <1>8, ObjectStays DEF IInv
  <2>2. ObjectOK(o)'
    <3>1. PICK av : av = object[o].av
      OBVIOUS
    <3>2. ObjectOK(o) /\ \A status : Backed(o, status) => Backed(o, status)'
      BY <1>8, BackedStays DEF IInv
    <3>3. av # "none" => Backed(o, av)'
      BY <3>1, <3>2 DEF ObjectOK
    <3>4. setting' = setting /\ (Held(o) => Held(o)')
      BY <1>8 DEF Grows
    <3>5. object'[o].av = av /\ object'[o].there = object[o].there
      BY <1>6, <3>1
    <3> QED BY <1>1, <3>2, <3>3, <3>4, <3>5 DEF ObjectOK
  <2> QED BY <2>1, <2>2
<1> QED BY <1>1, <1>7, <1>8, <1>9, <1>10 DEF Keeps
-----------------------------------------------------------------------------
(* The theorems *)

LEMMA InitInv == Init => IInv
<1> SUFFICES ASSUME Init PROVE IInv
  OBVIOUS
<1> USE DEF Init
<1>1. Idle \in WorkerStates /\ Idle.at = "idle" /\ ~Idle.copied /\ Idle.raw = Empty
      /\ Idle.at \in WorkerPlaces
  BY Values DEF Idle, WorkerStates
<1>2. Typed
  <2>1. 0 \in 0..MaxWrites /\ 0 \in 0..NoTags
    BY S3Assumption, Values
  <2>2. object \in [Objects -> [content : 0..MaxWrites, there : BOOLEAN,
                                av : {"none", "CLEAN", "INFECTED"},
                                tags : 0..NoTags, wanted : 0..MaxWrites]]
    BY <2>1
  <2>3. \A o \in Objects : object[o].content <= writes /\ object[o].wanted <= writes
    OBVIOUS
  <2>4. \A w \in Workers : worker[w] = Idle
    OBVIOUS
  <2>5. worker \in [Workers -> WorkerStates]
    BY <1>1
  <2>6. /\ quarantine \in [Keys -> SUBSET (Objects \X (0..MaxWrites))]
        /\ scans \in [Objects -> SUBSET ((0..MaxWrites) \X Statuses)]
        /\ event \in [Events -> {"waiting", "gone"}]
    OBVIOUS
  <2>7. \A w \in Workers :
          /\ worker[w].at \in WorkerPlaces
          /\ worker[w].raw \in Statuses \cup {Empty}
          /\ worker[w].at = "idle"
    BY <1>1, <2>4
  <2>8. given \subseteq Objects /\ alerts \subseteq Objects /\ writes \in 0..MaxWrites
        /\ setting \in Settings
    BY <2>1
  <2> QED BY <2>2, <2>3, <2>5, <2>6, <2>7, <2>8 DEF Typed, TypeOK
<1>3. \A w \in Workers : WorkerOK(w)
  BY <1>1 DEF WorkerOK, Acting
<1>4. \A o \in Objects : ObjectOK(o)
  BY S3Assumption DEF ObjectOK
<1>5. AckedIsSettled
  BY S3Assumption DEF AckedIsSettled
<1> QED BY <1>2, <1>3, <1>4, <1>5 DEF IInv

\* A message stays settled, and becomes it before it is deleted.
LEMMA AckedStays ==
  ASSUME IInv, Grows,
         \A e \in Queued : event'[e] = event[e] \/ \A i \in 1..Len(RecordsOf[e]) : Settled(e, i)'
  PROVE  AckedIsSettled'
<1> SUFFICES ASSUME NEW e \in Queued, event'[e] = "gone"
             PROVE  \A i \in DOMAIN RecordsOf[e] : Settled(e, i)'
  BY DEF AckedIsSettled, Settled
<1>1. e \in Events /\ DOMAIN RecordsOf[e] = 1..Len(RecordsOf[e])
  BY S3Assumption
<1>2. CASE event'[e] = event[e]
  <2>1. \A i \in 1..Len(RecordsOf[e]) : Settled(e, i)
    BY <1>1, <1>2 DEF IInv, AckedIsSettled, Settled
  <2> QED BY <1>1, <2>1, SettledStays
<1> QED BY <1>1, <1>2

LEMMA Inductive == IInv /\ [Next]_vars => IInv'
<1> SUFFICES ASSUME IInv, [Next]_vars PROVE IInv'
  OBVIOUS
<1>1. ASSUME NEW w \in Workers, Preserves(w) PROVE IInv'
  <2>1. \A v \in Workers : WorkerOK(v)'
    BY <1>1, StillOK DEF Preserves, IInv
  <2> QED BY <1>1, <2>1, AckedStays DEF Preserves, IInv
<1>2. ASSUME Keeps PROVE IInv'
  BY <1>2, AckedStays DEF Keeps, IInv
<1>3. ASSUME NEW w \in Workers, \E e \in Events : Receive(w, e) \/ PostEvent(w, e)
      PROVE  IInv'
  BY <1>1, <1>3, DeliverPreserves DEF Deliver
<1>4. ASSUME NEW w \in Workers, Process(w)
      PROVE  IInv'
  BY <1>1, <1>4, PassPreserves, FetchPreserves, ScanPreserves, ReadTagsPreserves,
     WriteTagsPreserves, CopyPreserves, DeletePreserves, NotifyPreserves DEF Process
<1>5. ASSUME NEW w \in Workers, Acknowledge(w)
      PROVE  IInv'
  BY <1>1, <1>5, AcknowledgePreserves
<1>6. ASSUME NEW o \in Objects, Overwrite(o) \/ EditTags(o)
      PROVE  IInv'
  BY <1>2, <1>6, OverwriteKeeps, EditTagsKeeps
<1>7. CASE Crash
  BY <1>2, <1>7, CrashKeeps
<1>8. CASE UNCHANGED vars
  <2>1. Typed'
    BY <1>8 DEF vars, IInv, Typed, TypeOK
  <2>2. Grows
    BY <1>8, ScansGrow DEF vars
  <2>3. \A w \in Workers : WorkerOK(w)'
    BY <1>8, <2>2, StillOK DEF vars, IInv
  <2>4. \A o \in Objects : ObjectOK(o)'
    BY <1>8, <2>2, ObjectStays DEF vars, IInv
  <2> QED BY <1>2, <1>8, <2>1, <2>2, <2>3, <2>4 DEF vars, Keeps
<1> QED BY <1>3, <1>4, <1>5, <1>6, <1>7, <1>8 DEF Next
LEMMA Invariant == Spec => []IInv
BY InitInv, Inductive, PTL DEF Spec

\* Every variable holds what the program and the buckets can hold, and a worker
\* with an event is at one of its records or just past the last.
THEOREM TypeCorrect == Spec => []TypeOK
<1>1. IInv => TypeOK
  BY DEF IInv, Typed
<1> QED BY <1>1, Invariant, PTL

\* However many deliveries are at work on an object, in whatever order their
\* calls go and whatever users write meanwhile: its tag, a copy of it, its
\* deletion and an alert are each backed by a scan that came back with that result.
THEOREM ActionsBacked == Spec => []ActionsAreBacked
<1>1. IInv => ActionsAreBacked
  <2> SUFFICES ASSUME IInv, NEW o \in Objects
               PROVE  /\ object[o].av # "none" => Backed(o, object[o].av)
                      /\ \/ ~object[o].there
                         \/ \E c \in Seen(o) : <<o, c>> \in quarantine[KeyOf[o]]
                         \/ o \in alerts
                         => Backed(o, "INFECTED")
    BY DEF ActionsAreBacked, Backed
  <2>1. ObjectOK(o)
    BY DEF IInv
  <2>2. Seen(o) \subseteq 0..MaxWrites
    <3>1. object[o].content \in 0..MaxWrites
      BY DEF IInv, Typed, TypeOK
    <3> QED BY <3>1, S3Assumption DEF Seen
  <2> QED BY <2>1, <2>2 DEF ObjectOK
<1> QED BY <1>1, Invariant, PTL

\* Without AWS_S3_DELETE_INFECTED no version is deleted whose copy is not in the
\* quarantine bucket, and no other worker's copy takes its place.
THEOREM NothingLost == Spec => []NothingIsLost
<1>1. IInv => NothingIsLost
  BY S3Assumption DEF IInv, ObjectOK, NothingIsLost, Held
<1> QED BY <1>1, Invariant, PTL

\* A message that left the queue has all its records scanned or given up with a
\* logged error, whatever crashes and duplicates there were.
THEOREM AckedSettled == Spec => []AckedIsSettled
<1>1. IInv => AckedIsSettled
  BY DEF IInv
<1> QED BY <1>1, Invariant, PTL
=============================================================================
