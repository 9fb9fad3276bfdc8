--------------------------- MODULE DashboardProofs ----------------------------
(***************************************************************************)
(* That queries show what is recorded and miss a record only for a reason, *)
(* for any records, tenants, instants, queries and limits.  The inductive  *)
(* invariant is IInv below.                                                *)
(***************************************************************************)
EXTENDS DashboardRows

-----------------------------------------------------------------------------
(* The inductive invariant *)

\* A record's three instants are in order, and not in the future.
RecordOK(r) ==
  /\ record[r].uploadedAt <= now /\ record[r].writtenAt <= now
  /\ record[r].at = "dated" => record[r].day <= DayOf(now)
  /\ record[r].at \in {"uploaded", "written"} =>
       record[r].day <= DayOf(record[r].uploadedAt)
  /\ record[r].at = "written" => record[r].uploadedAt <= record[r].writtenAt

IsKept(r, tenant) == record[r].at = "written" /\ TenantOf[r] = tenant

KeptOf(tenant) == {r \in Records : IsKept(r, tenant)}

IsFiled(r, tenant, day) == IsKept(r, tenant) /\ record[r].day = day

TTLOf(day, start) == IF dayIsFinal(day, start) THEN FinalTTL ELSE OpenTTL

\* An entry was made by a query of some start: it has what was written before
\* that, and is used for no longer than the query's time and the TTL of its day.
EntryFrom(entry, tenant, day, start) ==
  /\ start <= now
  /\ entry.until <= start + ReadTime + TTLOf(day, start)
  /\ \A r \in Records : IsFiled(r, tenant, day) /\ record[r].writtenAt < start =>
       r \in ToSet(entry.rows)

EntryOK(entry, tenant, day) ==
  entry.live =>
    /\ \A r \in ToSet(entry.rows) : IsFiled(r, tenant, day)
    /\ \E start \in Instants : EntryFrom(entry, tenant, day, start)

\* Why a record may be missing from a query that has looked at its day.
IsExcused(asked, r) ==
  \/ r \in asked.failed
  \/ asked.start <= record[r].writtenAt + ReadTime + OpenTTL
  \/ record[r].writtenAt > (record[r].day + 1) * DayLength + Grace

HasLooked(asked, day) ==
  /\ day \in datePrefixes(asked.start, asked.window)
  /\ asked.at = "answer" \/ day > asked.day

\* When the query is, and which day it is at.
SpanOK(asked) ==
  /\ asked.start <= now /\ now <= asked.start + ReadTime
  /\ asked.day \in datePrefixes(asked.start, asked.window)

\* The rows of the days already loaded.
AllOK(asked) ==
  /\ \A r \in ToSet(asked.all) :
       /\ IsKept(r, asked.tenant) /\ IsRecent(asked, r)
       /\ asked.at # "answer" => record[r].day > asked.day
  /\ asked.at = "answer" => Len(asked.all) <= maxRows

CutsOK(asked) ==
  asked.truncated \/ asked.cutDay => Cardinality(KeptOf(asked.tenant)) > maxRows

FailedOK(asked) ==
  \A r \in asked.failed :
    /\ IsKept(r, asked.tenant)
    /\ asked.at # "answer" =>
         \/ record[r].day > asked.day
         \/ record[r].day = asked.day /\ asked.incomplete

\* A record of the days already loaded is shown or excused.
CompleteOK(asked) ==
  ~asked.truncated =>
    \A r \in Records :
      /\ IsKept(r, asked.tenant) /\ record[r].writtenAt <= asked.start
      /\ IsRecent(asked, r) /\ HasLooked(asked, record[r].day)
      => r \in ToSet(asked.all) \/ IsExcused(asked, r)

\* Before and after the reading of a day nothing of it is held.
RestOK(asked) ==
  asked.at # "read" =>
    /\ asked.keys = {} /\ asked.reading = {} /\ asked.slots = 0
    /\ asked.rows = <<>> /\ ~asked.incomplete /\ ~asked.cutDay

\* Each record of the day being read is in one place.
ReadOK(asked) ==
  asked.at = "read" =>
    /\ \A r \in asked.keys \cup asked.reading \cup ToSet(asked.rows) :
         IsFiled(r, asked.tenant, asked.day)
    /\ asked.keys \cap asked.reading = {}
    /\ (asked.keys \cup asked.reading) \cap ToSet(asked.rows) = {}
    /\ asked.slots = Cardinality(asked.reading)
    /\ ~asked.cutDay =>
         \A r \in Records :
           IsFiled(r, asked.tenant, asked.day) /\ record[r].writtenAt < asked.start =>
             r \in asked.keys \cup asked.reading \cup ToSet(asked.rows) \cup asked.failed

AskedOK(asked) ==
  asked.at \notin {"idle", "done"} =>
    /\ SpanOK(asked) /\ AllOK(asked) /\ CutsOK(asked) /\ FailedOK(asked)
    /\ CompleteOK(asked) /\ RestOK(asked) /\ ReadOK(asked)

IInv ==
  /\ TypeOK
  /\ \A r \in Records : RecordOK(r)
  /\ \A t \in Tenants, d \in Days : EntryOK(cache[<<t, d>>], t, d)
  /\ \A q \in Queries : AskedOK(query[q])
-----------------------------------------------------------------------------
(* What the types say in numbers *)

LEMMA RecordTypes ==
  ASSUME TypeOK, NEW r \in Records
  PROVE  /\ record[r] \in AuditRecords
         /\ record[r].uploadedAt \in Nat /\ record[r].writtenAt \in Nat
         /\ record[r].uploadedAt \in Instants /\ record[r].writtenAt \in Instants
         /\ record[r].day \in Nat /\ record[r].day \in Days
<1>1. record[r] \in AuditRecords
  BY DEF TypeOK
<1>2. record[r].day \in Days
  BY <1>1 DEF AuditRecords
<1>3. record[r].day \in Nat
  BY <1>2, DaysTyped DEF Days
<1>4. record[r].uploadedAt \in Instants /\ record[r].writtenAt \in Instants
  BY <1>1 DEF AuditRecords
<1> QED BY <1>1, <1>2, <1>3, <1>4, TrailAssumption

LEMMA QueryTypes ==
  ASSUME NEW asked \in QueryStates
  PROVE  /\ asked.start \in Instants /\ asked.start \in Nat
         /\ asked.window \in Windows /\ asked.window \in Nat
         /\ asked.day \in Days /\ asked.day \in Nat /\ DayOf(asked.start) \in Nat
         /\ asked.rows \in Rows /\ asked.all \in Rows
         /\ asked.reading \subseteq Records /\ asked.keys \subseteq Records
         /\ asked.failed \subseteq Records
         /\ asked.tenant \in Tenants
<1>1. /\ asked.start \in Instants /\ asked.window \in Windows /\ asked.day \in Days
      /\ asked.rows \in Rows /\ asked.all \in Rows /\ asked.tenant \in Tenants
      /\ asked.reading \subseteq Records /\ asked.keys \subseteq Records
      /\ asked.failed \subseteq Records
  BY DEF QueryStates
<1>2. asked.start \in Nat /\ asked.window \in Nat
  BY <1>1, TrailAssumption, DashboardAssumption
<1>3. asked.day \in Nat
  BY <1>1, DaysTyped DEF Days
<1>4. DayOf(asked.start) \in Nat
  BY <1>2, DayOrder
<1> QED BY <1>1, <1>2, <1>3, <1>4

LEMMA NumberTypes ==
  ASSUME TypeOK
  PROVE  /\ now \in Instants /\ now \in Nat /\ maxRows \in Nat /\ maxRows > 0
         /\ ReadTime \in Nat /\ OpenTTL \in Nat /\ FinalTTL \in Nat /\ Grace \in Nat
         /\ DayLength \in Nat /\ DayOf(now) \in Nat
<1>1. now \in Instants /\ maxRows \in RowLimits
  BY DEF TypeOK
<1>2. now \in Nat /\ maxRows \in Nat /\ maxRows > 0
  BY <1>1, TrailAssumption, DashboardAssumption
<1>3. DayOf(now) \in Nat
  BY <1>2, DayOrder
<1> QED BY <1>1, <1>2, <1>3, TrailAssumption, DashboardAssumption

LEMMA RecordsFinite ==
  /\ IsFiniteSet(Records)
  /\ \A S \in SUBSET Records : IsFiniteSet(S) /\ Cardinality(S) \in Nat
<1>1. IsFiniteSet(1..NRecords)
  BY TrailAssumption, FS_Interval
<1>2. IsFiniteSet(Records)
  BY <1>1 DEF Records
<1> QED BY <1>2, FS_Subset, FS_CardinalityType

\* Rows that repeat no record are no more than the records they are of.
LEMMA RowsCount ==
  ASSUME NEW rows \in Rows, NEW S \in SUBSET Records, ToSet(rows) \subseteq S
  PROVE  Len(rows) \in Nat /\ Len(rows) <= Cardinality(S)
<1>1. rows \in Seq(Records) /\ IsInjective(rows)
  BY RowsAre
<1> DEFINE n == Len(rows)
<1>2. n \in Nat /\ rows \in [1..n -> Records]
  BY <1>1
<1>3. \A i \in 1..n : rows[i] \in S
  BY <1>2 DEF ToSet
<1>4. rows \in Injection(1..n, S)
  BY <1>1, <1>2, <1>3 DEF Injection
<1>5. Cardinality(1..n) = IF 1 > n THEN 0 ELSE n - 1 + 1
  BY <1>2, FS_Interval
<1> HIDE DEF n
<1>6. Cardinality(1..n) <= Cardinality(S)
  BY <1>4, RecordsFinite, FS_Injection
<1>7. n <= Cardinality(S)
  BY <1>2, <1>5, <1>6
<1> QED BY <1>2, <1>7 DEF n

\* What is on the list of rows is a record.
LEMMA RowsHold ==
  ASSUME NEW rows \in Rows
  PROVE  rows \in Seq(Records) /\ IsInjective(rows) /\ ToSet(rows) \subseteq Records
<1>1. rows \in Seq(Records) /\ IsInjective(rows)
  BY RowsAre
<1>2. \A i \in DOMAIN rows : rows[i] \in Records
  BY <1>1
<1> QED BY <1>1, <1>2 DEF ToSet

\* No rows are rows.
LEMMA NoRows == <<>> \in Rows /\ ToSet(<<>>) = {}
<1>1. <<>> \in Seq(Records) /\ DOMAIN <<>> = {}
  OBVIOUS
<1> QED BY <1>1, RowsAre DEF IsInjective, ToSet

-----------------------------------------------------------------------------
(* Records and time move on *)

\* What is written stays, and what gets written is new.
Moves ==
  /\ now <= now' /\ UNCHANGED maxRows
  /\ \A r \in Records :
       /\ record[r].at = "written" => record'[r] = record[r]
       /\ record'[r].at = "written" => \/ record'[r] = record[r]
                                       \/ record'[r].writtenAt >= now

\* A record that is new to a day was written after any query up to now began.
LEMMA NewIsLate ==
  ASSUME TypeOK, TypeOK', Moves, NEW r \in Records, NEW t, IsKept(r, t)',
         NEW start \in Nat, start <= now
  PROVE  \/ record'[r] = record[r] /\ IsKept(r, t)
         \/ start <= record'[r].writtenAt
<1>1. record'[r].at = "written" /\ TenantOf[r] = t
  BY DEF IsKept
<1>2. CASE record'[r] = record[r]
  BY <1>1, <1>2 DEF IsKept
<1>3. CASE record'[r].writtenAt >= now
  <2>1. record'[r] \in AuditRecords
    BY DEF TypeOK
  <2>2. record'[r].writtenAt \in Nat /\ now \in Nat
    BY <2>1, NumberTypes, TrailAssumption DEF AuditRecords
  <2> QED BY <2>2, <1>3
<1> QED BY <1>1, <1>2, <1>3 DEF Moves

LEMMA KeptStays ==
  ASSUME Moves, NEW r \in Records, NEW t, IsKept(r, t)
  PROVE  record'[r] = record[r] /\ IsKept(r, t)'
BY DEF Moves, IsKept

\* Queries and entries survive what records and time do, while queries are given
\* no more than ReadTime.
LEMMA QueryStays ==
  ASSUME TypeOK, TypeOK', Moves, NEW asked \in QueryStates, AskedOK(asked),
         asked.at \notin {"idle", "done"} => now' <= asked.start + ReadTime
  PROVE  AskedOK(asked)'
<1> SUFFICES ASSUME asked.at \notin {"idle", "done"}
             PROVE  /\ SpanOK(asked)' /\ AllOK(asked)' /\ CutsOK(asked)' /\ FailedOK(asked)'
                    /\ CompleteOK(asked)' /\ RestOK(asked)' /\ ReadOK(asked)'
  BY DEF AskedOK
<1>1. /\ SpanOK(asked) /\ AllOK(asked) /\ CutsOK(asked) /\ FailedOK(asked)
      /\ CompleteOK(asked) /\ RestOK(asked) /\ ReadOK(asked)
  BY DEF AskedOK
<1>2. asked.start <= now /\ asked.start \in Nat /\ now \in Nat /\ now' \in Nat /\ now <= now'
  BY <1>1, QueryTypes, NumberTypes, TrailAssumption DEF SpanOK, Moves, TypeOK
<1>3. SpanOK(asked)'
  <2>1. asked.start <= now'
    BY <1>2
  <2> QED BY <1>1, <2>1 DEF SpanOK
<1>4. AllOK(asked)'
  <2>1. ASSUME NEW r \in ToSet(asked.all)
        PROVE  /\ IsKept(r, asked.tenant)' /\ IsRecent(asked, r)'
               /\ asked.at # "answer" => record'[r].day > asked.day
    <3>1. r \in Records
      BY RowsHold, QueryTypes
    <3>2. IsKept(r, asked.tenant) /\ IsRecent(asked, r) /\ (asked.at # "answer" => record[r].day > asked.day)
      BY <1>1 DEF AllOK
    <3>3. record'[r] = record[r] /\ IsKept(r, asked.tenant)'
      BY <3>1, <3>2, KeptStays
    <3>4. IsRecent(asked, r)'
      BY <3>2, <3>3 DEF IsRecent
    <3> QED BY <3>2, <3>3, <3>4
  <2>2. asked.at = "answer" => Len(asked.all) <= maxRows'
    BY <1>1 DEF AllOK, Moves
  <2> QED BY <2>1, <2>2 DEF AllOK
<1>5. CutsOK(asked)'
  <2>1. KeptOf(asked.tenant) \subseteq KeptOf(asked.tenant)' /\ KeptOf(asked.tenant)' \subseteq Records
    BY KeptStays DEF KeptOf
  <2>2. /\ IsFiniteSet(KeptOf(asked.tenant)') /\ Cardinality(KeptOf(asked.tenant)') \in Nat
        /\ KeptOf(asked.tenant) \subseteq Records
    BY <2>1, RecordsFinite
  <2>3. Cardinality(KeptOf(asked.tenant)) <= Cardinality(KeptOf(asked.tenant)')
    BY <2>1, <2>2, FS_Subset
  <2>4. Cardinality(KeptOf(asked.tenant)) \in Nat /\ maxRows \in Nat /\ maxRows' = maxRows
    BY <2>2, RecordsFinite, NumberTypes DEF Moves
  <2>5. ASSUME asked.truncated \/ asked.cutDay
        PROVE  Cardinality(KeptOf(asked.tenant)') > maxRows'
    <3>1. Cardinality(KeptOf(asked.tenant)) > maxRows
      BY <1>1, <2>5 DEF CutsOK
    <3> QED BY <3>1, <2>2, <2>3, <2>4
  <2> QED BY <2>5 DEF CutsOK
<1>6. FailedOK(asked)'
  <2>1. ASSUME NEW r \in asked.failed
        PROVE  IsKept(r, asked.tenant)' /\ record'[r] = record[r]
    BY <1>1, KeptStays, QueryTypes DEF FailedOK
  <2> QED BY <1>1, <2>1 DEF FailedOK
<1>7. CompleteOK(asked)'
  <2> SUFFICES ASSUME ~asked.truncated, NEW r \in Records,
                      IsKept(r, asked.tenant)', record'[r].writtenAt <= asked.start,
                      IsRecent(asked, r)', HasLooked(asked, record'[r].day)
               PROVE  r \in ToSet(asked.all) \/ IsExcused(asked, r)'
    BY DEF CompleteOK, HasLooked
  <2>1. CASE record'[r] = record[r] /\ IsKept(r, asked.tenant)
    <3>1. IsRecent(asked, r)
      BY <2>1 DEF IsRecent
    <3>2. r \in ToSet(asked.all) \/ IsExcused(asked, r)
      BY <1>1, <2>1, <3>1 DEF CompleteOK
    <3> QED BY <3>2, <2>1 DEF IsExcused
  <2>2. CASE asked.start <= record'[r].writtenAt
    <3>1. record'[r] \in AuditRecords
      BY DEF TypeOK
    <3>2. record'[r].writtenAt \in Nat
      BY <3>1, TrailAssumption DEF AuditRecords
    <3>3. asked.start <= record'[r].writtenAt + ReadTime + OpenTTL
      BY <3>2, <2>2, <1>2, NumberTypes
    <3> QED BY <3>3 DEF IsExcused
  <2> QED BY <2>1, <2>2, <1>2, NewIsLate
<1>8. RestOK(asked)'
  BY <1>1 DEF RestOK
<1>9. ReadOK(asked)'
  <2> SUFFICES ASSUME asked.at = "read"
               PROVE  /\ \A r \in asked.keys \cup asked.reading \cup ToSet(asked.rows) :
                           IsFiled(r, asked.tenant, asked.day)'
                      /\ ~asked.cutDay =>
                           \A r \in Records :
                             IsFiled(r, asked.tenant, asked.day)' /\ record'[r].writtenAt < asked.start =>
                               r \in asked.keys \cup asked.reading \cup ToSet(asked.rows) \cup asked.failed
    BY <1>1 DEF ReadOK
  <2>1. ASSUME NEW r \in asked.keys \cup asked.reading \cup ToSet(asked.rows)
        PROVE  IsFiled(r, asked.tenant, asked.day)'
    <3>1. r \in Records
      BY RowsHold, QueryTypes
    <3>2. IsFiled(r, asked.tenant, asked.day)
      BY <1>1 DEF ReadOK
    <3> QED BY <3>1, <3>2, KeptStays DEF IsFiled
  <2>2. ASSUME ~asked.cutDay, NEW r \in Records, IsFiled(r, asked.tenant, asked.day)',
               record'[r].writtenAt < asked.start
        PROVE  r \in asked.keys \cup asked.reading \cup ToSet(asked.rows) \cup asked.failed
    <3>1. record'[r] \in AuditRecords
      BY DEF TypeOK
    <3>2. record'[r].writtenAt \in Nat
      BY <3>1, TrailAssumption DEF AuditRecords
    <3>3. ~(asked.start <= record'[r].writtenAt)
      BY <3>2, <2>2, <1>2
    <3>4. record'[r] = record[r] /\ IsKept(r, asked.tenant)
      BY <3>3, <2>2, <1>2, NewIsLate DEF IsFiled
    <3>5. IsFiled(r, asked.tenant, asked.day) /\ record[r].writtenAt < asked.start
      BY <3>4, <2>2 DEF IsFiled
    <3> QED BY <1>1, <2>2, <3>5 DEF ReadOK
  <2> QED BY <2>1, <2>2
<1> QED BY <1>3, <1>4, <1>5, <1>6, <1>7, <1>8, <1>9

LEMMA EntryStays ==
  ASSUME TypeOK, TypeOK', Moves, NEW entry \in Entries, NEW t \in Tenants, NEW d \in Days,
         EntryOK(entry, t, d)
  PROVE  EntryOK(entry, t, d)'
<1> SUFFICES ASSUME entry.live
             PROVE  /\ \A r \in ToSet(entry.rows) : IsFiled(r, t, d)'
                    /\ \E start \in Instants : EntryFrom(entry, t, d, start)'
  BY DEF EntryOK
<1>1. \A r \in ToSet(entry.rows) : IsFiled(r, t, d)
  BY DEF EntryOK
<1>2. PICK start \in Instants : EntryFrom(entry, t, d, start)
  BY DEF EntryOK
<1>3. ToSet(entry.rows) \subseteq Records
  BY RowsHold DEF Entries
<1>4. start \in Nat /\ start <= now /\ now \in Nat /\ now' \in Nat /\ now <= now'
  BY <1>2, NumberTypes, TrailAssumption DEF EntryFrom, Moves, TypeOK
<1>5. ASSUME NEW r \in ToSet(entry.rows) PROVE IsFiled(r, t, d)'
  BY <1>1, <1>3, <1>5, KeptStays DEF IsFiled
<1>6. ASSUME NEW r \in Records, IsFiled(r, t, d)', record'[r].writtenAt < start
      PROVE  r \in ToSet(entry.rows)
  <2>1. record'[r] \in AuditRecords
    BY DEF TypeOK
  <2>2. record'[r].writtenAt \in Nat
    BY <2>1, TrailAssumption DEF AuditRecords
  <2>3. ~(start <= record'[r].writtenAt)
    BY <2>2, <1>6, <1>4
  <2>4. record'[r] = record[r] /\ IsKept(r, t)
    BY <2>3, <1>6, <1>4, NewIsLate DEF IsFiled
  <2>5. IsFiled(r, t, d) /\ record[r].writtenAt < start
    BY <2>4, <1>6 DEF IsFiled
  <2> QED BY <1>2, <2>5 DEF EntryFrom
<1>7. start <= now'
  BY <1>4
<1>8. EntryFrom(entry, t, d, start)'
  <2>1. entry.until <= start + ReadTime + TTLOf(d, start)
    BY <1>2 DEF EntryFrom
  <2> QED BY <1>6, <1>7, <2>1 DEF EntryFrom
<1> QED BY <1>2, <1>5, <1>8

\* A step of the trail that changes the record of r keeps everything else.
LEMMA RecordStep ==
  ASSUME IInv, NEW r \in Records, NEW new \in AuditRecords,
         record' = [record EXCEPT ![r] = new], record[r].at # "written",
         new.at = "written" => new.writtenAt = now,
         UNCHANGED <<now, maxRows, cache, query>>, RecordOK(r)'
  PROVE  IInv'
<1>1. TypeOK /\ record \in [Records -> AuditRecords]
  BY DEF IInv, TypeOK
<1>2. TypeOK'
  BY <1>1 DEF TypeOK
<1>3. /\ record'[r] = new
      /\ \A s \in Records : s # r => record'[s] = record[s]
  BY <1>1
<1>4. now \in Nat
  BY <1>1, NumberTypes
<1>5. Moves
  <2>1. \A s \in Records : record[s].at = "written" => record'[s] = record[s]
    BY <1>3
  <2>2. ASSUME NEW s \in Records, record'[s].at = "written"
        PROVE  record'[s] = record[s] \/ record'[s].writtenAt >= now
    <3>1. CASE s = r
      <4>1. new.writtenAt = now
        BY <2>2, <3>1, <1>3
      <4> QED BY <4>1, <3>1, <1>3, <1>4
    <3> QED BY <3>1, <1>3
  <2>3. now <= now'
    BY <1>4
  <2> QED BY <2>1, <2>2, <2>3 DEF Moves
<1>6. ASSUME NEW s \in Records PROVE RecordOK(s)'
  <2>1. CASE s # r
    <3>1. record'[s] = record[s] /\ now' = now /\ RecordOK(s)
      BY <2>1, <1>3 DEF IInv
    <3> QED BY <3>1 DEF RecordOK
  <2> QED BY <2>1
<1>7. ASSUME NEW t \in Tenants, NEW d \in Days PROVE EntryOK(cache[<<t, d>>], t, d)'
  <2>1. PICK entry \in Entries : entry = cache[<<t, d>>]
    BY <1>1 DEF TypeOK
  <2>2. EntryOK(entry, t, d)
    BY <2>1 DEF IInv
  <2>3. EntryOK(entry, t, d)'
    BY <1>1, <1>2, <1>5, <2>2, EntryStays
  <2>4. entry = cache'[<<t, d>>]
    BY <2>1
  <2> QED BY <2>3, <2>4
<1>8. ASSUME NEW q \in Queries PROVE AskedOK(query[q])'
  <2>1. PICK asked \in QueryStates : asked = query[q]
    BY <1>1 DEF TypeOK
  <2>2. AskedOK(asked)
    BY <2>1 DEF IInv
  <2>3. asked.at \notin {"idle", "done"} => now' <= asked.start + ReadTime
    BY <2>2 DEF AskedOK, SpanOK
  <2>4. AskedOK(asked)'
    BY <1>1, <1>2, <1>5, <2>2, <2>3, QueryStays
  <2>5. asked = query'[q]
    BY <2>1
  <2> QED BY <2>4, <2>5
<1> QED BY <1>2, <1>6, <1>7, <1>8 DEF IInv

LEMMA PersistStep ==
  ASSUME IInv, NEW r \in Records, Persist(r), UNCHANGED <<maxRows, cache, query>>
  PROVE  IInv'
<1> DEFINE old == record[r]
<1>1. /\ TypeOK /\ record \in [Records -> AuditRecords] /\ old \in AuditRecords /\ RecordOK(r)
      /\ now \in Instants /\ now \in Nat /\ DayOf(now) \in Days /\ DayOf(now) \in Nat
      /\ old.uploadedAt \in Nat /\ old.writtenAt \in Nat /\ old.day \in Nat
  BY RecordTypes, NumberTypes, DaysTyped DEF IInv, TypeOK
<1>2. CASE TakeDate(r)
  <2> DEFINE new == [old EXCEPT !.at = "dated", !.day = DayOf(now)]
  <2>1. record' = [record EXCEPT ![r] = new] /\ old.at = "none" /\ now' = now
    BY <1>1, <1>2 DEF TakeDate
  <2>2. /\ new \in AuditRecords /\ new.at = "dated" /\ new.day = DayOf(now)
        /\ new.uploadedAt = old.uploadedAt /\ new.writtenAt = old.writtenAt
    BY <1>1 DEF AuditRecords
  <2> HIDE DEF new
  <2>3. record'[r] = new
    BY <2>1, <1>1
  <2>4. new.uploadedAt <= now /\ new.writtenAt <= now /\ new.day <= DayOf(now)
    BY <2>2, <1>1 DEF RecordOK
  <2>5. RecordOK(r)'
    BY <2>1, <2>2, <2>3, <2>4 DEF RecordOK
  <2> QED BY <2>1, <2>2, <2>5, RecordStep
<1>3. CASE Upload(r)
  <2> DEFINE new == [old EXCEPT !.at = "uploaded", !.uploadedAt = now]
  <2>1. record' = [record EXCEPT ![r] = new] /\ old.at = "dated" /\ now' = now
    BY <1>1, <1>3 DEF Upload
  <2>2. /\ new \in AuditRecords /\ new.at = "uploaded" /\ new.day = old.day
        /\ new.uploadedAt = now /\ new.writtenAt = old.writtenAt
    BY <1>1 DEF AuditRecords
  <2> HIDE DEF new
  <2>3. record'[r] = new
    BY <2>1, <1>1
  <2>4. old.day <= DayOf(now) /\ old.writtenAt <= now
    BY <2>1, <1>1 DEF RecordOK
  <2>5. new.uploadedAt <= now /\ new.writtenAt <= now /\ new.day <= DayOf(new.uploadedAt)
    BY <2>2, <2>4, <1>1
  <2>6. RecordOK(r)'
    BY <2>1, <2>2, <2>3, <2>5 DEF RecordOK
  <2> QED BY <2>1, <2>2, <2>6, RecordStep
<1>4. CASE writeAuditRecord(r)
  <2> DEFINE new == [old EXCEPT !.at = "written", !.writtenAt = now]
  <2>1. record' = [record EXCEPT ![r] = new] /\ old.at = "uploaded" /\ now' = now
    BY <1>1, <1>4 DEF writeAuditRecord
  <2>2. /\ new \in AuditRecords /\ new.at = "written" /\ new.day = old.day
        /\ new.uploadedAt = old.uploadedAt /\ new.writtenAt = now
    BY <1>1 DEF AuditRecords
  <2> HIDE DEF new
  <2>3. record'[r] = new
    BY <2>1, <1>1
  <2>4. old.day <= DayOf(old.uploadedAt) /\ old.uploadedAt <= now
    BY <2>1, <1>1 DEF RecordOK
  <2>5. /\ new.uploadedAt <= now /\ new.writtenAt <= now /\ new.day <= DayOf(new.uploadedAt)
        /\ new.uploadedAt <= new.writtenAt
    BY <2>2, <2>4, <1>1
  <2>6. RecordOK(r)'
    BY <2>1, <2>2, <2>3, <2>5 DEF RecordOK
  <2> QED BY <2>1, <2>2, <2>6, RecordStep
<1>5. CASE Lose(r)
  <2> DEFINE new == [NoRecord EXCEPT !.at = "lost"]
  <2>1. record' = [record EXCEPT ![r] = new] /\ old.at \in {"dated", "uploaded"} /\ now' = now
    BY <1>1, <1>5 DEF Lose
  <2>2. /\ new \in AuditRecords /\ new.at = "lost"
        /\ new.uploadedAt = StartTime /\ new.writtenAt = StartTime
    BY DaysTyped DEF AuditRecords, NoRecord
  <2> HIDE DEF new
  <2>3. record'[r] = new
    BY <2>1, <1>1
  <2>4. new.uploadedAt <= now /\ new.writtenAt <= now
    BY <2>2, <1>1, DaysTyped
  <2>5. RecordOK(r)'
    BY <2>1, <2>2, <2>3, <2>4 DEF RecordOK
  <2> QED BY <2>1, <2>2, <2>5, RecordStep
<1> QED BY <1>2, <1>3, <1>4, <1>5 DEF Persist

LEMMA TickStep ==
  ASSUME IInv, Tick
  PROVE  IInv'
<1>1. PICK t \in Instants :
        /\ t > now /\ \A q \in Queries : IsUnderWay(q) => t <= query[q].start + ReadTime
        /\ now' = t
        /\ cache' = [k \in DOMAIN cache |-> IF t <= cache[k].until THEN cache[k] ELSE NoEntry]
  BY DEF Tick
<1>2. UNCHANGED <<record, maxRows, query>>
  BY DEF Tick
<1>3. TypeOK /\ now \in Nat /\ t \in Nat
  BY NumberTypes, TrailAssumption DEF IInv
<1>4. NoEntry \in Entries
  BY NoRows DEF NoEntry, Entries
<1>5. cache \in [Tenants \X Days -> Entries]
  BY <1>3 DEF TypeOK
<1>6. cache' \in [Tenants \X Days -> Entries]
  BY <1>1, <1>4, <1>5
<1>7. TypeOK'
  BY <1>1, <1>2, <1>3, <1>6 DEF TypeOK
<1>8. Moves
  BY <1>1, <1>2, <1>3 DEF Moves
<1>9. ASSUME NEW r \in Records PROVE RecordOK(r)'
  <2>1. RecordOK(r) /\ record'[r] = record[r]
    BY <1>2 DEF IInv
  <2>2. record[r].uploadedAt \in Nat /\ record[r].writtenAt \in Nat /\ record[r].day \in Nat
    BY <1>3, RecordTypes
  <2>3. record[r].uploadedAt <= now /\ record[r].writtenAt <= now
    BY <2>1 DEF RecordOK
  <2>4. record[r].uploadedAt <= t /\ record[r].writtenAt <= t
    BY <2>2, <2>3, <1>1, <1>3
  <2>5. DayOf(now) \in Nat /\ DayOf(t) \in Nat /\ DayOf(now) <= DayOf(t)
    BY <1>1, <1>3, DayOrder
  <2>6. ASSUME record[r].at = "dated" PROVE record[r].day <= DayOf(t)
    <3>1. record[r].day <= DayOf(now)
      BY <2>1, <2>6 DEF RecordOK
    <3> QED BY <3>1, <2>2, <2>5
  <2> QED BY <2>1, <2>4, <2>6, <1>1 DEF RecordOK
<1>10. ASSUME NEW tenant \in Tenants, NEW d \in Days
       PROVE  EntryOK(cache[<<tenant, d>>], tenant, d)'
  <2>1. PICK entry \in Entries : entry = cache[<<tenant, d>>]
    BY <1>5
  <2>2. EntryOK(entry, tenant, d)
    BY <2>1 DEF IInv
  <2>3. EntryOK(entry, tenant, d)'
    BY <1>3, <1>7, <1>8, <2>2, EntryStays
  <2>4. cache'[<<tenant, d>>] = entry \/ cache'[<<tenant, d>>] = NoEntry
    BY <1>1, <1>5, <2>1
  <2>5. CASE cache'[<<tenant, d>>] = entry
    BY <2>3, <2>5
  <2>6. CASE cache'[<<tenant, d>>] = NoEntry
    BY <2>6 DEF EntryOK, NoEntry
  <2> QED BY <2>4, <2>5, <2>6
<1>11. ASSUME NEW q \in Queries PROVE AskedOK(query[q])'
  <2>1. PICK asked \in QueryStates : asked = query[q]
    BY <1>3 DEF TypeOK
  <2>2. AskedOK(asked)
    BY <2>1 DEF IInv
  <2>3. asked.at \notin {"idle", "done"} => now' <= asked.start + ReadTime
    BY <2>1, <1>1 DEF IsUnderWay
  <2>4. AskedOK(asked)'
    BY <1>3, <1>7, <1>8, <2>2, <2>3, QueryStays
  <2>5. asked = query'[q]
    BY <2>1, <1>2
  <2> QED BY <2>4, <2>5
<1> QED BY <1>7, <1>9, <1>10, <1>11 DEF IInv

LEMMA IdleTyped ==
  /\ Idle \in QueryStates /\ Done \in QueryStates
  /\ Idle.at = "idle" /\ Done.at = "done"
<1>1. (CHOOSE t \in Tenants : TRUE) \in Tenants /\ (CHOOSE w \in Windows : TRUE) \in Windows
  BY DashboardAssumption
<1>2. StartTime \in Instants /\ DayOf(StartTime) \in Days /\ 0 \in 0..Fetchers
  BY DaysTyped, DashboardAssumption
<1>3. Idle \in QueryStates /\ Idle.at = "idle"
  BY <1>1, <1>2, NoRows DEF Idle, QueryStates
<1> HIDE DEF Idle
<1> QED BY <1>3 DEF Done, QueryStates

LEMMA Initially ==
  ASSUME Init
  PROVE  IInv
<1>1. /\ now = StartTime /\ maxRows \in RowLimits
      /\ record = [r \in Records |-> IF r \in OldRecords THEN OldRecord ELSE NoRecord]
      /\ cache = [k \in Tenants \X Days |-> NoEntry]
      /\ query = [q \in Queries |-> Idle]
  BY DEF Init, TrailInit
<1>2. StartTime \in Instants /\ StartTime \in Nat /\ DayOf(StartTime) \in Days /\ DayOf(StartTime) \in Nat
  BY DaysTyped, TrailAssumption, DayOrder
<1>3. /\ NoRecord \in AuditRecords /\ NoRecord.at = "none" /\ NoRecord.day = DayOf(StartTime)
      /\ NoRecord.uploadedAt = StartTime /\ NoRecord.writtenAt = StartTime
  BY <1>2 DEF NoRecord, AuditRecords
<1>4. /\ OldRecord \in AuditRecords /\ OldRecord.at = "written" /\ OldRecord.day = DayOf(StartTime)
      /\ OldRecord.uploadedAt = StartTime /\ OldRecord.writtenAt = StartTime
  <2> HIDE DEF NoRecord
  <2> QED BY <1>3 DEF OldRecord, AuditRecords
<1>5. NoEntry \in Entries /\ ~NoEntry.live
  BY NoRows DEF NoEntry, Entries
<1>6. TypeOK
  BY <1>1, <1>2, <1>3, <1>4, <1>5, IdleTyped DEF TypeOK
<1>7. ASSUME NEW r \in Records PROVE RecordOK(r)
  <2>1. PICK x \in {OldRecord, NoRecord} : record[r] = x
    BY <1>1
  <2>2. x.uploadedAt = StartTime /\ x.writtenAt = StartTime /\ x.day = DayOf(StartTime)
    BY <2>1, <1>3, <1>4
  <2>3. StartTime <= StartTime /\ DayOf(StartTime) <= DayOf(StartTime)
    BY <1>2
  <2> QED BY <2>1, <2>2, <2>3, <1>1 DEF RecordOK
<1>8. ASSUME NEW t \in Tenants, NEW d \in Days PROVE EntryOK(cache[<<t, d>>], t, d)
  BY <1>1, <1>5 DEF EntryOK
<1>9. ASSUME NEW q \in Queries PROVE AskedOK(query[q])
  BY <1>1, IdleTyped DEF AskedOK
<1> QED BY <1>6, <1>7, <1>8, <1>9 DEF IInv

-----------------------------------------------------------------------------
(* Queries *)

\* A step of q that leaves the trail alone, and of the cache one entry at most.
LEMMA QueryStep ==
  ASSUME IInv, NEW q \in Queries, NEW new \in QueryStates, AskedOK(new),
         Becomes(q, new), UNCHANGED <<trailVars, maxRows>>,
         cache' \in [Tenants \X Days -> Entries],
         \A t \in Tenants, d \in Days :
           cache'[<<t, d>>] = cache[<<t, d>>] \/ EntryOK(cache'[<<t, d>>], t, d)
  PROVE  IInv'
<1>1. TypeOK /\ query \in [Queries -> QueryStates]
  BY DEF IInv, TypeOK
<1>2. now' = now /\ record' = record /\ maxRows' = maxRows
  BY DEF trailVars
<1>3. query' = [query EXCEPT ![q] = new]
  BY DEF Becomes
<1>4. TypeOK'
  BY <1>1, <1>2, <1>3 DEF TypeOK
<1>5. ASSUME NEW r \in Records PROVE RecordOK(r)'
  BY <1>2 DEF IInv, RecordOK
<1>6. ASSUME NEW t \in Tenants, NEW d \in Days PROVE EntryOK(cache[<<t, d>>], t, d)'
  <2>1. PICK entry \in Entries : entry = cache'[<<t, d>>]
    OBVIOUS
  <2>2. EntryOK(entry, t, d)
    BY <2>1 DEF IInv
  <2>3. EntryOK(entry, t, d)'
    BY <2>2, <1>2 DEF EntryOK, EntryFrom, IsFiled, IsKept
  <2> QED BY <2>1, <2>3
<1>7. ASSUME NEW p \in Queries PROVE AskedOK(query[p])'
  <2>1. PICK asked \in QueryStates : asked = query'[p]
    BY <1>4 DEF TypeOK
  <2>2. AskedOK(asked)
    BY <2>1, <1>1, <1>3 DEF IInv
  <2>3. AskedOK(asked)'
    BY <2>2, <1>2 DEF AskedOK, SpanOK, AllOK, CutsOK, FailedOK, CompleteOK, RestOK, ReadOK,
                      IsFiled, IsKept, KeptOf, IsExcused, HasLooked, IsRecent
  <2> QED BY <2>1, <2>3
<1> QED BY <1>4, <1>5, <1>6, <1>7 DEF IInv

LEMMA QueryOnly ==
  ASSUME IInv, NEW q \in Queries, NEW new \in QueryStates, AskedOK(new),
         Goes(q, new), UNCHANGED cache
  PROVE  IInv'
<1>1. cache' \in [Tenants \X Days -> Entries]
  BY DEF IInv, TypeOK
<1> QED BY <1>1, QueryStep DEF Goes

LEMMA BeginStep ==
  ASSUME IInv, NEW q \in Queries, Begin(q)
  PROVE  IInv'
<1>1. PICK t \in Askers[q], w \in Windows :
        Becomes(q, [Idle EXCEPT !.at = "lookup", !.tenant = t, !.start = now,
                                !.window = w, !.day = DayOf(now)])
  BY DEF Begin
<1> DEFINE new == [Idle EXCEPT !.at = "lookup", !.tenant = t, !.start = now,
                               !.window = w, !.day = DayOf(now)]
<1>2. t \in Tenants
  BY DashboardAssumption DEF Queries
<1>3. /\ TypeOK /\ now \in Instants /\ now \in Nat /\ DayOf(now) \in Days /\ DayOf(now) \in Nat
      /\ w \in Nat
  BY NumberTypes, DaysTyped, DashboardAssumption DEF IInv
<1>4. /\ Idle \in QueryStates /\ Idle.all = <<>> /\ Idle.rows = <<>> /\ Idle.keys = {}
      /\ Idle.reading = {} /\ Idle.slots = 0 /\ Idle.failed = {}
      /\ ~Idle.incomplete /\ ~Idle.cutDay /\ ~Idle.truncated
  BY IdleTyped DEF Idle
<1> HIDE DEF Idle
<1>5. /\ new \in QueryStates /\ new.at = "lookup" /\ new.tenant = t /\ new.start = now
      /\ new.window = w /\ new.day = DayOf(now)
      /\ new.all = <<>> /\ new.rows = <<>> /\ new.keys = {}
      /\ new.reading = {} /\ new.slots = 0 /\ new.failed = {}
      /\ ~new.incomplete /\ ~new.cutDay /\ ~new.truncated
  BY <1>2, <1>3, <1>4 DEF QueryStates
<1>6. Becomes(q, new) /\ UNCHANGED <<trailVars, maxRows>> /\ UNCHANGED cache
  BY <1>1 DEF Begin
<1> HIDE DEF new
<1>7. SpanOK(new)
  <2>1. now <= now /\ now <= now + ReadTime
    BY <1>3, NumberTypes
  <2>2. DayOf(now) <= DayOf(now) /\ DayOf(now) + w >= DayOf(now)
    BY <1>3
  <2> QED BY <1>3, <1>5, <2>1, <2>2 DEF SpanOK, datePrefixes
<1>8. AllOK(new) /\ FailedOK(new) /\ RestOK(new) /\ ReadOK(new) /\ CutsOK(new)
  BY <1>5, NoRows DEF AllOK, FailedOK, RestOK, ReadOK, CutsOK
<1>9. CompleteOK(new)
  <2>1. ASSUME NEW d \in Days, HasLooked(new, d) PROVE FALSE
    <3>1. d <= DayOf(now) /\ d > DayOf(now)
      BY <2>1, <1>5 DEF HasLooked, datePrefixes
    <3>2. d \in Nat
      BY DaysTyped DEF Days
    <3> QED BY <3>1, <3>2, <1>3
  <2> QED BY <2>1, <1>3, RecordTypes DEF CompleteOK
<1>10. AskedOK(new)
  BY <1>7, <1>8, <1>9 DEF AskedOK
<1> QED BY <1>5, <1>6, <1>10, QueryOnly DEF Goes

LEMMA DoneStep ==
  ASSUME IInv, NEW q \in Queries, Goes(q, Done), UNCHANGED cache
  PROVE  IInv'
BY IdleTyped, QueryOnly DEF AskedOK

LEMMA ListStep ==
  ASSUME IInv, NEW q \in Queries, List(q)
  PROVE  IInv'
<1> DEFINE keys == ListKeys(query[q].tenant, query[q].day)
           cut == Cardinality(keys) > maxRows
           first == {r \in keys : Cardinality({k \in keys : k <= r}) <= maxRows}
<1>1. PICK was \in QueryStates : was = query[q]
  BY DEF IInv, TypeOK
<1> DEFINE new == [was EXCEPT !.at = "read", !.cutDay = cut, !.keys = first]
<1>2. TypeOK /\ AskedOK(was) /\ was.at = "lookup" /\ UNCHANGED cache
  BY <1>1 DEF IInv, List
<1>3. Goes(q, new)
  BY <1>1 DEF List
<1>4. /\ keys \subseteq Records /\ keys \subseteq KeptOf(was.tenant)
      /\ \A r \in Records : r \in keys <=> IsFiled(r, was.tenant, was.day)
  BY <1>1 DEF ListKeys, KeptOf, IsKept, IsFiled
<1> HIDE DEF keys
<1>5. first \subseteq keys
  OBVIOUS
<1>6. IsFiniteSet(keys) /\ Cardinality(keys) \in Nat /\ maxRows \in Nat
  BY <1>2, <1>4, RecordsFinite, NumberTypes
<1>7. ~cut => first = keys
  <2> SUFFICES ASSUME ~cut, NEW r \in keys
               PROVE  Cardinality({k \in keys : k <= r}) <= maxRows
    OBVIOUS
  <2> DEFINE below == {k \in keys : k <= r}
  <2>1. below \subseteq keys
    OBVIOUS
  <2> HIDE DEF below
  <2>2. Cardinality(below) <= Cardinality(keys) /\ Cardinality(below) \in Nat
    BY <2>1, <1>6, <1>4, FS_Subset, FS_CardinalityType
  <2>3. Cardinality(keys) <= maxRows
    BY <1>6
  <2>4. Cardinality(below) <= maxRows
    BY <2>2, <2>3, <1>6
  <2> QED BY <2>4 DEF below
<1>8. cut => Cardinality(KeptOf(was.tenant)) > maxRows
  <2>1. KeptOf(was.tenant) \subseteq Records
    BY DEF KeptOf
  <2>2. IsFiniteSet(KeptOf(was.tenant)) /\ Cardinality(KeptOf(was.tenant)) \in Nat
    BY <2>1, RecordsFinite
  <2>3. Cardinality(keys) <= Cardinality(KeptOf(was.tenant))
    BY <2>2, <1>4, FS_Subset
  <2> QED BY <2>2, <2>3, <1>6
<1>9. cut \in BOOLEAN
  OBVIOUS
<1> HIDE DEF cut, first
<1>10. /\ new \in QueryStates /\ new.at = "read" /\ new.cutDay = cut /\ new.keys = first
       /\ new.tenant = was.tenant /\ new.start = was.start /\ new.window = was.window
       /\ new.day = was.day /\ new.reading = was.reading /\ new.slots = was.slots
       /\ new.rows = was.rows /\ new.all = was.all /\ new.incomplete = was.incomplete
       /\ new.truncated = was.truncated /\ new.failed = was.failed
  BY <1>4, <1>5, <1>9 DEF QueryStates
<1> HIDE DEF new
<1>11. /\ SpanOK(was) /\ AllOK(was) /\ CutsOK(was) /\ FailedOK(was)
       /\ CompleteOK(was) /\ RestOK(was)
  BY <1>2 DEF AskedOK
<1>12. was.reading = {} /\ was.slots = 0 /\ was.rows = <<>>
  BY <1>2, <1>11 DEF RestOK
<1>13. SpanOK(new) /\ FailedOK(new)
  BY <1>2, <1>10, <1>11 DEF SpanOK, FailedOK
<1>14. AllOK(new) /\ RestOK(new)
  BY <1>2, <1>10, <1>11 DEF AllOK, RestOK, IsRecent
<1>15. CutsOK(new)
  BY <1>8, <1>10, <1>11 DEF CutsOK
<1>16. CompleteOK(new)
  BY <1>2, <1>10, <1>11 DEF CompleteOK, IsRecent, HasLooked, IsExcused
<1>17. ReadOK(new)
  <2>1. \A r \in first : IsFiled(r, was.tenant, was.day)
    BY <1>4, <1>5
  <2>2. Cardinality({}) = 0
    BY FS_EmptySet
  <2>3. ~cut => \A r \in Records : IsFiled(r, was.tenant, was.day) => r \in first
    BY <1>4, <1>7
  <2> QED BY <2>1, <2>2, <2>3, <1>10, <1>12, NoRows DEF ReadOK
<1>18. AskedOK(new)
  BY <1>13, <1>14, <1>15, <1>16, <1>17 DEF AskedOK
<1> QED BY <1>2, <1>3, <1>10, <1>18, QueryOnly

\* While a day is read, only its records move between their places.
LEMMA ReadingStays ==
  ASSUME NEW was \in QueryStates, AskedOK(was), was.at = "read",
         NEW new \in QueryStates, new.at = "read", ReadOK(new),
         new.tenant = was.tenant, new.start = was.start, new.window = was.window,
         new.day = was.day, new.all = was.all, new.cutDay = was.cutDay,
         new.truncated = was.truncated, was.failed \subseteq new.failed,
         was.incomplete => new.incomplete,
         \A r \in new.failed \ was.failed :
           IsFiled(r, was.tenant, was.day) /\ new.incomplete
  PROVE  AskedOK(new)
<1>1. /\ SpanOK(was) /\ AllOK(was) /\ CutsOK(was) /\ FailedOK(was)
      /\ CompleteOK(was) /\ ReadOK(was)
  BY DEF AskedOK
<1>2. SpanOK(new)
  BY <1>1 DEF SpanOK
<1>3. AllOK(new)
  BY <1>1 DEF AllOK, IsRecent
<1>4. CutsOK(new)
  BY <1>1 DEF CutsOK
<1>5. FailedOK(new)
  <2>1. ASSUME NEW r \in new.failed
        PROVE  /\ IsKept(r, new.tenant)
               /\ \/ record[r].day > new.day
                  \/ record[r].day = new.day /\ new.incomplete
    <3>1. CASE r \in was.failed
      BY <1>1, <3>1 DEF FailedOK
    <3>2. CASE r \notin was.failed
      BY <3>2 DEF IsFiled
    <3> QED BY <3>1, <3>2
  <2> QED BY <2>1 DEF FailedOK
<1>6. CompleteOK(new)
  <2> SUFFICES ASSUME ~new.truncated, NEW r \in Records, IsKept(r, new.tenant),
                      record[r].writtenAt <= new.start, IsRecent(new, r),
                      HasLooked(new, record[r].day)
               PROVE  r \in ToSet(new.all) \/ IsExcused(new, r)
    BY DEF CompleteOK
  <2>1. IsRecent(was, r) /\ HasLooked(was, record[r].day)
    BY DEF IsRecent, HasLooked
  <2>2. r \in ToSet(was.all) \/ IsExcused(was, r)
    BY <1>1, <2>1 DEF CompleteOK
  <2> QED BY <2>2 DEF IsExcused
<1>7. RestOK(new)
  BY DEF RestOK
<1> QED BY <1>2, <1>3, <1>4, <1>5, <1>6, <1>7 DEF AskedOK

LEMMA FetchStep ==
  ASSUME IInv, NEW q \in Queries, Fetch(q)
  PROVE  IInv'
<1>1. PICK was \in QueryStates : was = query[q]
  BY DEF IInv, TypeOK
<1>2. /\ AskedOK(was) /\ ReadOK(was) /\ was.at = "read" /\ UNCHANGED cache
      /\ was.keys # {} /\ was.slots < Fetchers
  BY <1>1 DEF IInv, Fetch, AskedOK
<1> DEFINE r == CHOOSE k \in was.keys : \A other \in was.keys : k <= other
           new == [was EXCEPT !.keys = @ \ {r}, !.reading = @ \cup {r}, !.slots = @ + 1]
<1>3. Goes(q, new)
  BY <1>1 DEF Fetch
<1>4. was.keys \subseteq Records /\ was.reading \subseteq Records /\ was.slots \in 0..Fetchers
  BY DEF QueryStates
<1>5. r \in was.keys
  <2>1. was.keys \subseteq Nat
    BY <1>4, TrailAssumption DEF Records
  <2>2. \E k \in was.keys : \A other \in was.keys : k <= other
    BY <2>1, <1>2, Least
  <2> QED BY <2>2
<1> HIDE DEF r
<1>6. was.slots + 1 \in 0..Fetchers
  BY <1>2, <1>4, DashboardAssumption
<1>7. /\ new \in QueryStates /\ new.at = "read" /\ new.keys = was.keys \ {r}
      /\ new.reading = was.reading \cup {r} /\ new.slots = was.slots + 1
      /\ new.tenant = was.tenant /\ new.start = was.start /\ new.window = was.window
      /\ new.day = was.day /\ new.rows = was.rows /\ new.all = was.all
      /\ new.incomplete = was.incomplete /\ new.cutDay = was.cutDay
      /\ new.truncated = was.truncated /\ new.failed = was.failed
  BY <1>2, <1>4, <1>5, <1>6 DEF QueryStates
<1> HIDE DEF new
<1>8. ReadOK(new)
  <2>1. new.slots = Cardinality(new.reading)
    <3>1. r \notin was.reading /\ was.slots = Cardinality(was.reading)
      BY <1>2, <1>5 DEF ReadOK
    <3>2. Cardinality(was.reading \cup {r}) = Cardinality(was.reading) + 1
      BY <3>1, <1>4, RecordsFinite, FS_AddElement
    <3> QED BY <3>1, <3>2, <1>7
  <2>2. new.keys \cup new.reading = was.keys \cup was.reading /\ new.keys \cap new.reading = {}
    BY <1>2, <1>5, <1>7 DEF ReadOK
  <2>3. /\ \A s \in new.keys \cup new.reading \cup ToSet(new.rows) :
             IsFiled(s, new.tenant, new.day)
        /\ (new.keys \cup new.reading) \cap ToSet(new.rows) = {}
        /\ ~new.cutDay =>
             \A s \in Records :
               IsFiled(s, new.tenant, new.day) /\ record[s].writtenAt < new.start =>
                 s \in new.keys \cup new.reading \cup ToSet(new.rows) \cup new.failed
    BY <1>2, <1>7, <2>2 DEF ReadOK
  <2> QED BY <2>1, <2>2, <2>3 DEF ReadOK
<1>9. AskedOK(new)
  <2>1. was.failed \subseteq new.failed /\ new.failed \ was.failed = {}
    BY <1>7
  <2> QED BY <1>2, <1>7, <1>8, <2>1, ReadingStays
<1> QED BY <1>2, <1>3, <1>7, <1>9, QueryOnly

LEMMA FetchEndsStep ==
  ASSUME IInv, NEW q \in Queries, NEW r \in Records, FetchEnds(q, r) \/ FetchFails(q, r)
  PROVE  IInv'
<1>1. PICK was \in QueryStates : was = query[q]
  BY DEF IInv, TypeOK
<1>2. /\ AskedOK(was) /\ ReadOK(was) /\ was.at = "read" /\ UNCHANGED cache
      /\ r \in was.reading
  BY <1>1 DEF IInv, FetchEnds, FetchFails, AskedOK
<1>3. /\ was.keys \subseteq Records /\ was.reading \subseteq Records /\ was.slots \in 0..Fetchers
      /\ was.rows \in Rows
  BY DEF QueryStates
<1>4. was.slots = Cardinality(was.reading) /\ Cardinality(was.reading \ {r}) = was.slots - 1
  <2>1. Cardinality(was.reading \ {r}) = Cardinality(was.reading) - 1
    BY <1>2, <1>3, RecordsFinite, FS_RemoveElement
  <2> QED BY <2>1, <1>2 DEF ReadOK
<1>5. was.slots - 1 \in 0..Fetchers
  <2>1. was.slots - 1 \in Nat
    <3>1. was.reading \ {r} \subseteq Records
      BY <1>3
    <3> QED BY <3>1, <1>4, RecordsFinite
  <2> QED BY <2>1, <1>3, DashboardAssumption
<1>6. CASE FetchEnds(q, r)
  <2> DEFINE new == [was EXCEPT !.reading = @ \ {r}, !.slots = @ - 1, !.rows = Append(@, r)]
  <2>1. Goes(q, new)
    BY <1>1, <1>6 DEF FetchEnds, Ends
  <2>2. Append(was.rows, r) \in Rows /\ ToSet(Append(was.rows, r)) = ToSet(was.rows) \cup {r}
    <3>1. r \notin ToSet(was.rows)
      BY <1>2 DEF ReadOK
    <3> QED BY <3>1, <1>3, RowsHold, Appended, RowsAre
  <2>3. /\ new \in QueryStates /\ new.at = "read" /\ new.keys = was.keys
        /\ new.reading = was.reading \ {r} /\ new.slots = was.slots - 1
        /\ new.tenant = was.tenant /\ new.start = was.start /\ new.window = was.window
        /\ new.day = was.day /\ new.rows = Append(was.rows, r) /\ new.all = was.all
        /\ new.incomplete = was.incomplete /\ new.cutDay = was.cutDay
        /\ new.truncated = was.truncated /\ new.failed = was.failed
    BY <1>2, <1>3, <1>5, <2>2 DEF QueryStates
  <2> HIDE DEF new
  <2>4. ReadOK(new)
    <3>1. new.slots = Cardinality(new.reading)
      BY <1>4, <2>3
    <3>2. /\ new.keys \cup new.reading \cup ToSet(new.rows) =
               was.keys \cup was.reading \cup ToSet(was.rows)
          /\ new.keys \cap new.reading = {}
          /\ (new.keys \cup new.reading) \cap ToSet(new.rows) = {}
      BY <1>2, <2>2, <2>3 DEF ReadOK
    <3>3. /\ \A s \in new.keys \cup new.reading \cup ToSet(new.rows) :
               IsFiled(s, new.tenant, new.day)
          /\ ~new.cutDay =>
               \A s \in Records :
                 IsFiled(s, new.tenant, new.day) /\ record[s].writtenAt < new.start =>
                   s \in new.keys \cup new.reading \cup ToSet(new.rows) \cup new.failed
      <4> HIDE DEF new
      <4>1. /\ \A s \in was.keys \cup was.reading \cup ToSet(was.rows) :
                 IsFiled(s, was.tenant, was.day)
            /\ ~was.cutDay =>
                 \A s \in Records :
                   IsFiled(s, was.tenant, was.day) /\ record[s].writtenAt < was.start =>
                     s \in was.keys \cup was.reading \cup ToSet(was.rows) \cup was.failed
        BY <1>2 DEF ReadOK
      <4> QED BY <4>1, <3>2, <2>3
    <3> QED BY <3>1, <3>2, <3>3 DEF ReadOK
  <2>5. AskedOK(new)
    <3>1. was.failed \subseteq new.failed /\ new.failed \ was.failed = {}
      BY <2>3
    <3> QED BY <1>2, <2>3, <2>4, <3>1, ReadingStays
  <2> QED BY <1>2, <2>1, <2>3, <2>5, QueryOnly
<1>7. CASE FetchFails(q, r)
  <2> DEFINE new == [was EXCEPT !.reading = @ \ {r}, !.slots = @ - 1, !.incomplete = TRUE,
                                !.failed = {r}]
  <2>1. Goes(q, new) /\ was.failed = {}
    BY <1>1, <1>7 DEF FetchFails, Ends
  <2>2. /\ new \in QueryStates /\ new.at = "read" /\ new.keys = was.keys
        /\ new.reading = was.reading \ {r} /\ new.slots = was.slots - 1
        /\ new.tenant = was.tenant /\ new.start = was.start /\ new.window = was.window
        /\ new.day = was.day /\ new.rows = was.rows /\ new.all = was.all
        /\ new.incomplete /\ new.cutDay = was.cutDay
        /\ new.truncated = was.truncated /\ new.failed = {r}
    BY <1>2, <1>3, <1>5 DEF QueryStates
  <2> HIDE DEF new
  <2>3. ReadOK(new)
    <3>1. new.slots = Cardinality(new.reading)
      BY <1>4, <2>2
    <3>2. /\ new.keys \cup new.reading \cup ToSet(new.rows) \cup {r} =
               was.keys \cup was.reading \cup ToSet(was.rows)
          /\ new.keys \cap new.reading = {}
          /\ (new.keys \cup new.reading) \cap ToSet(new.rows) = {}
      BY <1>2, <2>2 DEF ReadOK
    <3>3. /\ \A s \in new.keys \cup new.reading \cup ToSet(new.rows) :
               IsFiled(s, new.tenant, new.day)
          /\ ~new.cutDay =>
               \A s \in Records :
                 IsFiled(s, new.tenant, new.day) /\ record[s].writtenAt < new.start =>
                   s \in new.keys \cup new.reading \cup ToSet(new.rows) \cup new.failed
      <4>1. /\ \A s \in was.keys \cup was.reading \cup ToSet(was.rows) :
                 IsFiled(s, was.tenant, was.day)
            /\ ~was.cutDay =>
                 \A s \in Records :
                   IsFiled(s, was.tenant, was.day) /\ record[s].writtenAt < was.start =>
                     s \in was.keys \cup was.reading \cup ToSet(was.rows) \cup was.failed
        BY <1>2 DEF ReadOK
      <4> QED BY <4>1, <3>2, <2>1, <2>2
    <3> QED BY <3>1, <3>2, <3>3 DEF ReadOK
  <2>4. AskedOK(new)
    <3>1. was.failed \subseteq new.failed
      BY <2>1
    <3>2. \A s \in new.failed \ was.failed : IsFiled(s, was.tenant, was.day) /\ new.incomplete
      BY <1>2, <2>2 DEF ReadOK
    <3> QED BY <1>2, <2>2, <2>3, <3>1, <3>2, ReadingStays
  <2> QED BY <1>2, <2>1, <2>2, <2>4, QueryOnly
<1> QED BY <1>6, <1>7

\* What queryRows makes of a day: rows of that day, which lack nothing that was
\* written before the query but for an excuse, unless the day was cut.
LEMMA LoadedDay ==
  ASSUME IInv, NEW q, NEW was \in QueryStates, AskedOK(was), was.at \in {"lookup", "read"},
         was.keys = {}, was.reading = {},
         NEW rows \in Rows, NEW cutDay \in BOOLEAN,
         \A r \in ToSet(rows) : IsFiled(r, was.tenant, was.day),
         cutDay => Cardinality(KeptOf(was.tenant)) > maxRows,
         ~was.truncated /\ ~cutDay =>
           \A r \in Records :
             /\ IsFiled(r, was.tenant, was.day) /\ record[r].writtenAt <= was.start
             /\ IsRecent(was, r)
             => r \in ToSet(rows) \/ IsExcused(was, r)
  PROVE  /\ DayLoaded(q, was, rows, cutDay) \in QueryStates
         /\ AskedOK(DayLoaded(q, was, rows, cutDay))
<1> DEFINE all == AppendRecent(was, rows)
           more == was.day - 1 \in datePrefixes(was.start, was.window)
           truncated == was.truncated \/ cutDay
           next == [was EXCEPT !.rows = <<>>, !.slots = 0, !.incomplete = FALSE,
                               !.cutDay = FALSE]
           looking == [next EXCEPT !.at = "lookup", !.day = was.day - 1, !.all = all,
                                   !.truncated = truncated]
           answering == [next EXCEPT !.at = "answer", !.all = Cut(all),
                                     !.truncated = truncated \/ Len(all) > maxRows]
<1>1. DayLoaded(q, was, rows, cutDay) = IF more THEN looking ELSE answering
  BY DEF DayLoaded
<1>2. /\ SpanOK(was) /\ AllOK(was) /\ CutsOK(was) /\ FailedOK(was) /\ CompleteOK(was)
  BY DEF AskedOK
<1>3. /\ TypeOK /\ maxRows \in Nat /\ \A r \in Records : record[r].uploadedAt \in Nat
      /\ was.day \in Nat /\ was.day \in Days /\ was.start \in Nat /\ was.window \in Nat
      /\ was.all \in Rows /\ DayOf(was.start) \in Nat
  BY NumberTypes, RecordTypes, QueryTypes DEF IInv
<1>4. /\ was.all \in Seq(Records) /\ IsInjective(was.all) /\ ToSet(was.all) \subseteq Records
      /\ rows \in Seq(Records) /\ IsInjective(rows) /\ ToSet(rows) \subseteq Records
  BY <1>3, RowsHold
<1>5. ToSet(was.all) \cap ToSet(rows) = {}
  <2> SUFFICES ASSUME NEW r \in ToSet(was.all), r \in ToSet(rows) PROVE FALSE
    OBVIOUS
  <2>1. record[r].day > was.day /\ record[r].day = was.day
    BY <1>2 DEF AllOK, IsFiled
  <2> QED BY <2>1, <1>3
<1>6. /\ all \in Rows
      /\ ToSet(all) = ToSet(was.all) \cup {r \in ToSet(rows) : IsRecent(was, r)}
  BY <1>4, <1>5, Appending, RowsAre
<1>7. ToSet(all) \subseteq KeptOf(was.tenant)
  BY <1>2, <1>4, <1>6 DEF AllOK, KeptOf, IsFiled
<1>8. /\ Cut(all) \in Rows /\ ToSet(Cut(all)) \subseteq ToSet(all) /\ Len(Cut(all)) <= maxRows
      /\ Len(all) <= maxRows => Cut(all) = all
  BY <1>3, <1>6, Cutting
<1> HIDE DEF all
\* What holds whichever way the query goes on.
<1>9. \A r \in ToSet(all) : IsKept(r, was.tenant) /\ IsRecent(was, r)
  BY <1>2, <1>6 DEF AllOK, IsFiled
<1>10. truncated => Cardinality(KeptOf(was.tenant)) > maxRows
  BY <1>2 DEF CutsOK
<1>11. Len(all) > maxRows => Cardinality(KeptOf(was.tenant)) > maxRows
  <2>1. KeptOf(was.tenant) \subseteq Records
    BY DEF KeptOf
  <2>2. /\ Len(all) \in Nat /\ Len(all) <= Cardinality(KeptOf(was.tenant))
        /\ Cardinality(KeptOf(was.tenant)) \in Nat
    BY <2>1, <1>6, <1>7, RowsCount, RecordsFinite
  <2> QED BY <2>2, <1>3
<1>12. \A r \in was.failed : IsKept(r, was.tenant) /\ record[r].day >= was.day
  <2>1. ASSUME NEW r \in was.failed PROVE IsKept(r, was.tenant) /\ record[r].day >= was.day
    <3>1. IsKept(r, was.tenant) /\ (record[r].day > was.day \/ record[r].day = was.day)
      BY <1>2 DEF FailedOK
    <3>2. record[r].day \in Nat
      BY <1>3, RecordTypes, QueryTypes
    <3> QED BY <3>1, <3>2, <1>3
  <2> QED BY <2>1
<1>13. ASSUME ~truncated, NEW r \in Records, IsKept(r, was.tenant),
              record[r].writtenAt <= was.start, IsRecent(was, r),
              record[r].day \in datePrefixes(was.start, was.window), record[r].day >= was.day
       PROVE  r \in ToSet(all) \/ IsExcused(was, r)
  <2>1. record[r].day > was.day \/ record[r].day = was.day
    BY <1>13, <1>3, RecordTypes
  <2>2. CASE record[r].day > was.day
    <3>1. HasLooked(was, record[r].day)
      BY <1>13, <2>2 DEF HasLooked
    <3>2. r \in ToSet(was.all) \/ IsExcused(was, r)
      BY <3>1, <1>13, <1>2 DEF CompleteOK
    <3> QED BY <3>2, <1>6
  <2>3. CASE record[r].day = was.day
    <3>1. IsFiled(r, was.tenant, was.day)
      BY <1>13, <2>3 DEF IsFiled
    <3>2. r \in ToSet(rows) \/ IsExcused(was, r)
      BY <3>1, <1>13
    <3> QED BY <3>2, <1>6, <1>13
  <2> QED BY <2>1, <2>2, <2>3
<1>14. truncated \in BOOLEAN /\ (truncated \/ Len(all) > maxRows) \in BOOLEAN
  BY DEF QueryStates
<1>15. 0 \in 0..Fetchers
  BY DashboardAssumption
<1>16. CASE more
  <2>1. was.day - 1 \in Days
    BY <1>16 DEF datePrefixes
  <2> DEFINE new == looking
  <2>2. /\ new \in QueryStates /\ new.at = "lookup" /\ new.keys = {}
        /\ new.reading = {} /\ new.slots = 0
        /\ new.tenant = was.tenant /\ new.start = was.start /\ new.window = was.window
        /\ new.day = was.day - 1 /\ new.rows = <<>> /\ new.all = all
        /\ ~new.incomplete /\ ~new.cutDay
        /\ new.truncated = truncated /\ new.failed = was.failed
    BY <2>1, <1>6, <1>14, <1>15, NoRows DEF QueryStates
  <2> HIDE DEF new, truncated
  <2>3. SpanOK(new)
    BY <1>2, <1>16, <2>2 DEF SpanOK
  <2>4. AllOK(new)
    <3>1. ASSUME NEW r \in ToSet(all) PROVE record[r].day > was.day - 1
      <4>1. r \in Records /\ (r \in ToSet(was.all) \/ r \in ToSet(rows))
        BY <1>4, <1>6
      <4>2. record[r].day > was.day \/ record[r].day = was.day
        BY <4>1, <1>2 DEF AllOK, IsFiled
      <4> QED BY <4>1, <4>2, <1>3, RecordTypes
    <3>2. \A r \in ToSet(all) : IsRecent(new, r)
      BY <1>9, <2>2 DEF IsRecent
    <3> QED BY <3>1, <3>2, <1>9, <2>2 DEF AllOK
  <2>5. CutsOK(new)
    BY <1>10, <2>2 DEF CutsOK
  <2>6. FailedOK(new)
    <3>1. ASSUME NEW r \in was.failed PROVE record[r].day > was.day - 1
      <4>1. record[r].day \in Nat /\ record[r].day >= was.day
        BY <1>3, <1>12, RecordTypes, QueryTypes
      <4> QED BY <4>1, <1>3
    <3> QED BY <3>1, <1>12, <2>2 DEF FailedOK
  <2>7. CompleteOK(new)
    <3> SUFFICES ASSUME ~new.truncated, NEW r \in Records, IsKept(r, new.tenant),
                        record[r].writtenAt <= new.start, IsRecent(new, r),
                        HasLooked(new, record[r].day)
                 PROVE  r \in ToSet(new.all) \/ IsExcused(new, r)
      BY DEF CompleteOK
    <3>1. IsRecent(was, r)
      BY <2>2 DEF IsRecent
    <3>2. record[r].day \in datePrefixes(was.start, was.window) /\ record[r].day > was.day - 1
      BY <2>2 DEF HasLooked
    <3>3. record[r].day >= was.day
      BY <3>2, <1>3, RecordTypes
    <3>4. r \in ToSet(all) \/ IsExcused(was, r)
      BY <3>1, <3>2, <3>3, <2>2, <1>13
    <3> QED BY <3>4, <2>2 DEF IsExcused
  <2>8. RestOK(new) /\ ReadOK(new)
    BY <2>2 DEF RestOK, ReadOK
  <2>9. AskedOK(new)
    BY <2>3, <2>4, <2>5, <2>6, <2>7, <2>8 DEF AskedOK
  <2> QED BY <1>1, <1>16, <2>2, <2>9 DEF new
<1>17. CASE ~more
  <2> DEFINE new == answering
  <2>2. /\ new \in QueryStates /\ new.at = "answer" /\ new.keys = {}
        /\ new.reading = {} /\ new.slots = 0
        /\ new.tenant = was.tenant /\ new.start = was.start /\ new.window = was.window
        /\ new.day = was.day /\ new.rows = <<>> /\ new.all = Cut(all)
        /\ ~new.incomplete /\ ~new.cutDay
        /\ new.truncated = (truncated \/ Len(all) > maxRows) /\ new.failed = was.failed
    BY <1>8, <1>14, <1>15, NoRows DEF QueryStates
  <2> HIDE DEF new, truncated
  <2>3. SpanOK(new)
    BY <1>2, <2>2 DEF SpanOK
  <2>4. AllOK(new)
    <3>1. \A r \in ToSet(Cut(all)) : IsKept(r, was.tenant) /\ IsRecent(new, r)
      BY <1>8, <1>9, <2>2 DEF IsRecent
    <3> QED BY <3>1, <1>8, <2>2 DEF AllOK
  <2>5. CutsOK(new)
    BY <1>10, <1>11, <2>2 DEF CutsOK
  <2>6. FailedOK(new)
    BY <1>12, <2>2 DEF FailedOK
  <2>7. CompleteOK(new)
    <3> SUFFICES ASSUME ~new.truncated, NEW r \in Records, IsKept(r, new.tenant),
                        record[r].writtenAt <= new.start, IsRecent(new, r),
                        HasLooked(new, record[r].day)
                 PROVE  r \in ToSet(new.all) \/ IsExcused(new, r)
      BY DEF CompleteOK
    <3>1. IsRecent(was, r)
      BY <2>2 DEF IsRecent
    <3>2. record[r].day \in datePrefixes(was.start, was.window) /\ record[r].day \in Nat
      BY <2>2, <1>3, RecordTypes DEF HasLooked
    <3>3. record[r].day >= was.day
      <4> SUFFICES ASSUME record[r].day < was.day PROVE FALSE
        BY <3>2, <1>3
      <4>1. was.day - 1 \in Nat /\ record[r].day <= was.day - 1
        BY <3>2, <1>3
      <4>2. was.day <= DayOf(was.start) /\ record[r].day + was.window >= DayOf(was.start)
        BY <1>2, <3>2 DEF SpanOK, datePrefixes
      <4>3. was.day - 1 <= DayOf(was.start) /\ was.day - 1 + was.window >= DayOf(was.start)
        BY <4>1, <4>2, <3>2, <1>3
      <4>4. was.day - 1 \in Days
        <5>1. DayOf(Max(Instants)) \in Nat /\ was.day <= DayOf(Max(Instants))
          BY <1>3, DaysTyped DEF Days
        <5> QED BY <5>1, <4>1, <1>3 DEF Days
      <4> QED BY <4>3, <4>4, <1>17 DEF datePrefixes
    <3>4. ~truncated /\ ~(Len(all) > maxRows)
      BY <2>2
    <3>5. r \in ToSet(all) \/ IsExcused(was, r)
      BY <3>1, <3>2, <3>3, <3>4, <2>2, <1>13
    <3>6. Cut(all) = all
      <4>1. Len(all) \in Nat
        BY <1>6, RowsHold
      <4> QED BY <4>1, <3>4, <1>3, <1>8
    <3> QED BY <3>5, <3>6, <2>2 DEF IsExcused
  <2>8. RestOK(new) /\ ReadOK(new)
    BY <2>2 DEF RestOK, ReadOK
  <2>9. AskedOK(new)
    BY <2>3, <2>4, <2>5, <2>6, <2>7, <2>8 DEF AskedOK
  <2> QED BY <1>1, <1>17, <2>2, <2>9 DEF new
<1> QED BY <1>16, <1>17

LEMMA CacheHitStep ==
  ASSUME IInv, NEW q \in Queries, CacheHit(q)
  PROVE  IInv'
<1>1. PICK was \in QueryStates : was = query[q]
  BY DEF IInv, TypeOK
<1>2. /\ AskedOK(was) /\ RestOK(was) /\ SpanOK(was) /\ was.at = "lookup" /\ UNCHANGED cache
  BY <1>1 DEF IInv, CacheHit, AskedOK
<1>3. was.tenant \in Tenants /\ was.day \in Days /\ was.day \in Nat /\ was.start \in Nat
  BY QueryTypes
<1>4. TypeOK /\ cache \in [Tenants \X Days -> Entries]
  BY DEF IInv, TypeOK
<1>5. PICK entry \in Entries : entry = cache[<<was.tenant, was.day>>]
  BY <1>3, <1>4
<1>6. /\ entry.live /\ now <= entry.until
      /\ Goes(q, DayLoaded(q, was, entry.rows, FALSE))
  BY <1>1, <1>5 DEF CacheHit, cacheKey
<1>7. /\ \A r \in ToSet(entry.rows) : IsFiled(r, was.tenant, was.day)
      /\ \E start \in Instants : EntryFrom(entry, was.tenant, was.day, start)
  BY <1>3, <1>5, <1>6 DEF IInv, EntryOK
<1>8. PICK start \in Instants : EntryFrom(entry, was.tenant, was.day, start)
  BY <1>7
<1>9. /\ start \in Nat /\ now \in Nat /\ ReadTime \in Nat /\ OpenTTL \in Nat /\ Grace \in Nat
      /\ entry.until \in Nat /\ was.start <= now
      /\ entry.until <= start + ReadTime + TTLOf(was.day, start)
  BY <1>2, <1>4, <1>8, NumberTypes, TrailAssumption DEF Entries, EntryFrom, SpanOK
<1>10. ASSUME NEW r \in Records, IsFiled(r, was.tenant, was.day)
       PROVE  r \in ToSet(entry.rows) \/ IsExcused(was, r)
  <2>1. record[r].writtenAt \in Nat /\ record[r].day = was.day
    BY <1>4, <1>10, RecordTypes DEF IsFiled
  <2>2. record[r].writtenAt < start => r \in ToSet(entry.rows)
    BY <1>8, <1>10 DEF EntryFrom
  <2>3. CASE start <= record[r].writtenAt /\ dayIsFinal(was.day, start)
    <3> DEFINE end == (was.day + 1) * DayLength
    <3>1. start > end + Grace /\ end \in Nat
      BY <2>3, <1>3, NumberTypes, <1>4 DEF dayIsFinal
    <3> HIDE DEF end
    <3>2. record[r].writtenAt > end + Grace
      BY <3>1, <2>1, <2>3, <1>9
    <3> QED BY <3>2, <2>1 DEF IsExcused, end
  <2>4. CASE start <= record[r].writtenAt /\ ~dayIsFinal(was.day, start)
    <3>1. entry.until <= start + ReadTime + OpenTTL
      BY <2>4, <1>9 DEF TTLOf
    <3>2. was.start <= record[r].writtenAt + ReadTime + OpenTTL
      BY <3>1, <2>1, <2>4, <1>3, <1>6, <1>9
    <3> QED BY <3>2 DEF IsExcused
  <2> QED BY <2>1, <2>2, <2>3, <2>4, <1>9
<1>11. was.keys = {} /\ was.reading = {} /\ entry.rows \in Rows
  BY <1>2 DEF RestOK, Entries
<1> DEFINE new == DayLoaded(q, was, entry.rows, FALSE)
<1>12. new \in QueryStates /\ AskedOK(new)
  BY <1>2, <1>7, <1>10, <1>11, LoadedDay
<1> HIDE DEF new
<1> QED BY <1>2, <1>6, <1>12, QueryOnly DEF new

LEMMA StoreDayStep ==
  ASSUME IInv, NEW q \in Queries, StoreDay(q)
  PROVE  IInv'
<1>1. PICK was \in QueryStates : was = query[q]
  BY DEF IInv, TypeOK
<1>2. /\ AskedOK(was) /\ ReadOK(was) /\ SpanOK(was) /\ FailedOK(was) /\ CutsOK(was)
      /\ was.at = "read" /\ was.keys = {} /\ was.reading = {}
  BY <1>1 DEF IInv, StoreDay, AskedOK
<1>3. /\ was.tenant \in Tenants /\ was.day \in Days /\ was.day \in Nat
      /\ was.start \in Nat /\ was.start \in Instants /\ was.rows \in Rows
      /\ was.failed \subseteq Records /\ was.cutDay \in BOOLEAN
  BY QueryTypes DEF QueryStates
<1>4. TypeOK /\ cache \in [Tenants \X Days -> Entries] /\ now \in Nat
      /\ ReadTime \in Nat /\ OpenTTL \in Nat /\ FinalTTL \in Nat
  BY NumberTypes DEF IInv, TypeOK
<1> DEFINE ttl == IF dayIsFinal(was.day, was.start) THEN FinalTTL ELSE OpenTTL
           entry == [rows |-> was.rows, until |-> now + ttl, live |-> TRUE]
           key == <<was.tenant, was.day>>
           new == DayLoaded(q, was, was.rows, was.cutDay)
<1>5. /\ \/ UNCHANGED cache
         \/ Cacheable(was) /\ cache' = [cache EXCEPT ![key] = entry]
      /\ Goes(q, new)
  BY <1>1 DEF StoreDay, cacheKey
<1>6. was.start <= now /\ now <= was.start + ReadTime /\ ttl \in Nat
  BY <1>2, <1>4 DEF SpanOK
<1>7. /\ entry \in Entries /\ entry.rows = was.rows /\ entry.live
      /\ entry.until = now + TTLOf(was.day, was.start)
  BY <1>3, <1>4, <1>6 DEF Entries, TTLOf
<1>8. \A r \in ToSet(was.rows) : IsFiled(r, was.tenant, was.day)
  BY <1>2 DEF ReadOK
<1>9. ASSUME ~was.cutDay, NEW r \in Records, IsFiled(r, was.tenant, was.day),
             record[r].writtenAt < was.start
      PROVE  r \in ToSet(was.rows) \cup was.failed
  BY <1>2, <1>9 DEF ReadOK
<1> HIDE DEF entry, new
<1>10. ASSUME Cacheable(was) PROVE EntryOK(entry, was.tenant, was.day)
  <2>1. ~was.cutDay /\ ~was.incomplete
    BY <1>10 DEF Cacheable
  <2>2. ASSUME NEW r \in Records, IsFiled(r, was.tenant, was.day),
               record[r].writtenAt < was.start
        PROVE  r \in ToSet(entry.rows)
    <3>1. r \notin was.failed
      <4>1. ASSUME r \in was.failed PROVE FALSE
        <5>1. record[r].day > was.day /\ record[r].day = was.day
          BY <2>1, <2>2, <4>1, <1>2 DEF FailedOK, IsFiled
        <5> QED BY <5>1, <1>3
      <4> QED BY <4>1
    <3> QED BY <3>1, <2>1, <2>2, <1>7, <1>9
  <2>3. entry.until <= was.start + ReadTime + TTLOf(was.day, was.start)
    <3>1. TTLOf(was.day, was.start) \in Nat
      BY <1>4 DEF TTLOf
    <3> QED BY <3>1, <1>3, <1>4, <1>6, <1>7
  <2>4. EntryFrom(entry, was.tenant, was.day, was.start)
    BY <2>2, <2>3, <1>6 DEF EntryFrom
  <2> QED BY <2>4, <1>3, <1>7, <1>8 DEF EntryOK
<1>11. cache' \in [Tenants \X Days -> Entries]
  BY <1>4, <1>5, <1>7
<1>12. ASSUME NEW t \in Tenants, NEW d \in Days
       PROVE  cache'[<<t, d>>] = cache[<<t, d>>] \/ EntryOK(cache'[<<t, d>>], t, d)
  <2>1. CASE UNCHANGED cache
    BY <2>1
  <2>2. CASE Cacheable(was) /\ cache' = [cache EXCEPT ![key] = entry]
    <3>1. CASE t = was.tenant /\ d = was.day
      <4>1. cache'[<<t, d>>] = entry
        BY <1>3, <1>4, <2>2, <3>1
      <4> QED BY <4>1, <3>1, <2>2, <1>10
    <3>2. CASE ~(t = was.tenant /\ d = was.day)
      <4>1. <<t, d>> # key
        BY <3>2
      <4>2. <<t, d>> \in Tenants \X Days
        OBVIOUS
      <4> HIDE DEF key
      <4> QED BY <4>1, <4>2, <2>2, <1>4
    <3> QED BY <3>1, <3>2
  <2> QED BY <2>1, <2>2, <1>5
<1>13. ASSUME ~was.cutDay, NEW r \in Records, IsFiled(r, was.tenant, was.day),
              record[r].writtenAt <= was.start
       PROVE  r \in ToSet(was.rows) \/ IsExcused(was, r)
  <2>1. record[r].writtenAt \in Nat
    BY <1>4, RecordTypes
  <2>2. CASE record[r].writtenAt < was.start
    BY <2>2, <1>9, <1>13 DEF IsExcused
  <2>3. CASE record[r].writtenAt = was.start
    <3>1. was.start <= record[r].writtenAt + ReadTime + OpenTTL
      BY <2>3, <1>3, <1>4
    <3> QED BY <3>1 DEF IsExcused
  <2> QED BY <2>1, <2>2, <2>3, <1>3, <1>13
<1>14. was.cutDay => Cardinality(KeptOf(was.tenant)) > maxRows
  BY <1>2 DEF CutsOK
<1>15. new \in QueryStates /\ AskedOK(new)
  BY <1>2, <1>3, <1>8, <1>13, <1>14, LoadedDay DEF new
<1> QED BY <1>5, <1>11, <1>12, <1>15, QueryStep DEF Goes

-----------------------------------------------------------------------------
(* The theorems *)

LEMMA Inductive ==
  ASSUME IInv, [Next]_vars
  PROVE  IInv'
<1>1. ASSUME NEW r \in Records, Persist(r), UNCHANGED <<maxRows, cache, query>>
      PROVE  IInv'
  BY <1>1, PersistStep
<1>2. ASSUME NEW q \in Queries, Handle(q)
      PROVE  IInv'
  <2>1. CASE Begin(q)
    BY <2>1, BeginStep
  <2>2. CASE CacheHit(q)
    BY <2>2, CacheHitStep
  <2>3. CASE List(q)
    BY <2>3, ListStep
  <2>4. CASE ListFails(q) \/ Answered(q)
    BY <2>4, DoneStep DEF ListFails, Answered
  <2>5. CASE Fetch(q)
    BY <2>5, FetchStep
  <2>6. ASSUME NEW r \in Records, FetchEnds(q, r) \/ FetchFails(q, r)
        PROVE  IInv'
    BY <2>6, FetchEndsStep
  <2>7. CASE StoreDay(q)
    BY <2>7, StoreDayStep
  <2> QED BY <1>2, <2>1, <2>2, <2>3, <2>4, <2>5, <2>6, <2>7 DEF Handle
<1>3. CASE Tick
  BY <1>3, TickStep
<1>4. CASE UNCHANGED vars
  <2>1. UNCHANGED <<now, record, maxRows, cache, query>>
    BY <1>4 DEF vars, trailVars
  <2>2. TypeOK'
    BY <2>1 DEF IInv, TypeOK
  <2>3. \A r \in Records : RecordOK(r)'
    BY <2>1 DEF IInv, RecordOK
  <2>4. ASSUME NEW t \in Tenants, NEW d \in Days PROVE EntryOK(cache[<<t, d>>], t, d)'
    <3>1. EntryOK(cache[<<t, d>>], t, d)
      BY DEF IInv
    <3> QED BY <3>1, <2>1 DEF EntryOK, EntryFrom, IsFiled, IsKept
  <2>5. ASSUME NEW q \in Queries PROVE AskedOK(query[q])'
    <3>1. PICK asked \in QueryStates : asked = query[q]
      BY DEF IInv, TypeOK
    <3>2. AskedOK(asked)
      BY <3>1 DEF IInv
    <3>3. AskedOK(asked)'
      BY <3>2, <2>1 DEF AskedOK, SpanOK, AllOK, CutsOK, FailedOK, CompleteOK, RestOK, ReadOK,
                        IsFiled, IsKept, KeptOf, IsExcused, HasLooked, IsRecent
    <3>4. asked = query'[q]
      BY <3>1, <2>1
    <3> QED BY <3>3, <3>4
  <2> QED BY <2>2, <2>3, <2>4, <2>5 DEF IInv
<1> QED BY <1>1, <1>2, <1>3, <1>4 DEF Next

\* The inductive invariant holds throughout.
LEMMA Invariance == Spec => []IInv
<1>1. Init => IInv
  BY Initially
<1>2. IInv /\ [Next]_vars => IInv'
  BY Inductive
<1> QED BY <1>1, <1>2, PTL DEF Spec

\* Records, cache and queries are of their types: no fetcher's slot is taken that
\* is not there or given back twice, and no rows hold a record twice.
THEOREM TypeCorrect == Spec => []TypeOK
<1>1. IInv => TypeOK
  BY DEF IInv
<1> QED BY <1>1, Invariance, PTL

LEMMA ShownHolds ==
  ASSUME IInv
  PROVE  ShownIsRecorded
<1> SUFFICES ASSUME NEW q \in Queries, query[q].at = "answer"
             PROVE  LET asked == query[q]
                    IN  /\ \A r \in ToSet(asked.all) :
                             /\ record[r].at = "written" /\ TenantOf[r] = asked.tenant
                             /\ IsRecent(asked, r)
                        /\ IsInjective(asked.all) /\ Len(asked.all) <= maxRows
                        /\ asked.truncated =>
                             Cardinality({r \in Records : TenantOf[r] = asked.tenant
                                                            /\ record[r].at = "written"}) > maxRows
                        /\ \A rows \in Rows, mode \in Modes :
                             LET sorted == sortRows(rows, mode)
                             IN  /\ ToSet(sorted) = ToSet(rows) /\ Len(sorted) = Len(rows)
                                 /\ \A i, j \in DOMAIN rows :
                                      i < j => ~Precedes(mode, sorted[j], sorted[i])
                                 /\ FlattenSeq([p \in 1..Pages(rows) |-> paginate(sorted, p)]) = sorted
  BY DEF ShownIsRecorded
<1>1. PICK asked \in QueryStates : asked = query[q]
  BY DEF IInv, TypeOK
<1>2. AllOK(asked) /\ CutsOK(asked) /\ asked.at = "answer"
  BY <1>1 DEF IInv, AskedOK
<1>3. IsInjective(asked.all)
  BY QueryTypes, RowsHold
<1>4. asked.truncated =>
        Cardinality({r \in Records : TenantOf[r] = asked.tenant
                                       /\ record[r].at = "written"}) > maxRows
  <2>1. KeptOf(asked.tenant) = {r \in Records : TenantOf[r] = asked.tenant
                                                  /\ record[r].at = "written"}
    BY DEF KeptOf, IsKept
  <2> QED BY <2>1, <1>2 DEF CutsOK
<1>5. ASSUME NEW rows \in Rows, NEW mode \in Modes
      PROVE  LET sorted == sortRows(rows, mode)
             IN  /\ ToSet(sorted) = ToSet(rows) /\ Len(sorted) = Len(rows)
                 /\ \A i, j \in DOMAIN rows :
                      i < j => ~Precedes(mode, sorted[j], sorted[i])
                 /\ FlattenSeq([p \in 1..Pages(rows) |-> paginate(sorted, p)]) = sorted
  <2> DEFINE sorted == sortRows(rows, mode)
  <2>1. rows \in Seq(Records) /\ \A r \in Records : record[r].uploadedAt \in Nat
    BY RowsHold, RecordTypes DEF IInv
  <2>2. /\ sorted \in [1..Len(rows) -> Records] /\ ToSet(sorted) = ToSet(rows)
        /\ \A i, j \in 1..Len(rows) : i < j => ~Precedes(mode, sorted[j], sorted[i])
    BY <2>1, Sorting
  <2> HIDE DEF sorted
  <2>3. sorted \in Seq(Records) /\ Len(sorted) = Len(rows) /\ DOMAIN rows = 1..Len(rows)
    BY <2>1, <2>2
  <2>4. Pages(sorted) = Pages(rows)
    BY <2>3 DEF Pages
  <2>5. FlattenSeq([p \in 1..Pages(rows) |-> paginate(sorted, p)]) = sorted
    BY <2>3, <2>4, Paging
  <2> QED BY <2>2, <2>3, <2>5 DEF sorted
<1>6. /\ \A r \in ToSet(asked.all) :
           /\ record[r].at = "written" /\ TenantOf[r] = asked.tenant /\ IsRecent(asked, r)
      /\ Len(asked.all) <= maxRows
  BY <1>2 DEF AllOK, IsKept
<1> QED BY <1>1, <1>3, <1>4, <1>5, <1>6

\* What a tenant is shown is its own, of the window, once, and no more than
\* maxRows (queryRows); sortRows keeps the rows and orders them, and paginate
\* divides them, whatever rows the search leaves.
THEOREM ShownRecorded == Spec => []ShownIsRecorded
<1>1. IInv => ShownIsRecorded
  BY ShownHolds
<1> QED BY <1>1, Invariance, PTL

LEMMA MissingHolds ==
  ASSUME IInv
  PROVE  MissingIsExcused
<1> SUFFICES ASSUME NEW q \in Queries, query[q].at = "answer", ~query[q].truncated,
                    NEW r \in Records,
                    TenantOf[r] = query[q].tenant, record[r].at = "written",
                    record[r].writtenAt <= query[q].start, IsRecent(query[q], r),
                    r \notin ToSet(query[q].all)
             PROVE  \/ r \in query[q].failed
                    \/ query[q].start <= record[r].writtenAt + ReadTime + OpenTTL
                    \/ record[r].writtenAt > (record[r].day + 1) * DayLength + Grace
                    \/ record[r].day + query[q].window < DayOf(query[q].start)
  BY DEF MissingIsExcused
<1>1. PICK asked \in QueryStates : asked = query[q]
  BY DEF IInv, TypeOK
<1>2. CompleteOK(asked) /\ asked.at = "answer"
  BY <1>1 DEF IInv, AskedOK
<1>3. /\ record[r].day \in Nat /\ record[r].day \in Days /\ record[r].uploadedAt \in Nat
      /\ record[r].writtenAt \in Nat /\ asked.window \in Nat /\ DayOf(asked.start) \in Nat
      /\ asked.start \in Nat
  BY RecordTypes, QueryTypes DEF IInv
<1>4. CASE record[r].day + asked.window >= DayOf(asked.start)
  <2>1. record[r].day <= DayOf(record[r].uploadedAt) /\ record[r].uploadedAt <= record[r].writtenAt
    BY DEF IInv, RecordOK
  <2>2. record[r].uploadedAt <= asked.start
    BY <2>1, <1>1, <1>3
  <2>3. /\ DayOf(record[r].uploadedAt) <= DayOf(asked.start)
        /\ DayOf(record[r].uploadedAt) \in Nat
    BY <2>2, <1>3, DayOrder
  <2>4. record[r].day <= DayOf(asked.start)
    BY <2>1, <2>3, <1>3
  <2>5. HasLooked(asked, record[r].day)
    BY <2>4, <1>2, <1>3, <1>4 DEF HasLooked, datePrefixes
  <2>6. IsExcused(asked, r)
    BY <2>5, <1>1, <1>2 DEF CompleteOK, IsKept
  <2> QED BY <2>6, <1>1 DEF IsExcused
<1>5. CASE record[r].day + asked.window < DayOf(asked.start)
  BY <1>1, <1>5
<1> QED BY <1>3, <1>4, <1>5

\* A record that is missing from an answer not marked truncated was written too
\* recently or too late for the cache, could not be read by this very query, or is
\* filed under a day outside the window (queryRows, loadDay, redisDayCache).
THEOREM MissingExcused == Spec => []MissingIsExcused
<1>1. IInv => MissingIsExcused
  BY MissingHolds
<1> QED BY <1>1, Invariance, PTL
=============================================================================
