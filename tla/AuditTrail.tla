----------------------------- MODULE AuditTrail ------------------------------
(***************************************************************************)
(* The audit records of CLEAN files (s3_storage.go) and the clock they are *)
(* stamped with.  A record's day, which is part of its key, is taken       *)
(* before the file is uploaded, its time of upload after, and the record   *)
(* itself is written last: each of the three may be on another day.        *)
(***************************************************************************)
EXTENDS Naturals, FiniteSetsExt

CONSTANTS NRecords,       \* scans whose file is to be kept
          OldRecords,     \* those whose records are there at the start
          TenantOf,       \* the tenant of each
          DayLength,      \* minutes to a day
          Instants        \* bound of the model: when something may happen, in minutes

ASSUME TrailAssumption == /\ NRecords \in Nat /\ DayLength \in Nat \ {0}
                          /\ IsFiniteSet(Instants) /\ Instants # {}
                          /\ Instants \subseteq Nat

VARIABLES now, record

trailVars == <<now, record>>

\* Ordered as their keys are: by a scan id that says nothing of the time.
Records == 1..NRecords
DayOf(t) == t \div DayLength
Days == 0..DayOf(Max(Instants))
StartTime == Min(Instants)

AuditRecords == [at : {"none", "dated", "uploaded", "written", "lost"},
                 day : Days, uploadedAt : Instants, writtenAt : Instants]

NoRecord == [at |-> "none", day |-> DayOf(StartTime), uploadedAt |-> StartTime,
             writtenAt |-> StartTime]

OldRecord == [NoRecord EXCEPT !.at = "written"]

\* The trail may hold records already.
TrailInit ==
  /\ now = StartTime
  /\ record = [r \in Records |-> IF r \in OldRecords THEN OldRecord ELSE NoRecord]

\* persistScannedFile takes the day for the keys.
TakeDate(r) ==
  /\ record[r].at = "none"
  /\ record' = [record EXCEPT ![r].at = "dated", ![r].day = DayOf(now)]
  /\ UNCHANGED now

\* uploadAndPresign has stored the file and signed its link.
Upload(r) ==
  /\ record[r].at = "dated"
  /\ record' = [record EXCEPT ![r].at = "uploaded", ![r].uploadedAt = now]
  /\ UNCHANGED now

\* writeAuditRecord's PutObject.
writeAuditRecord(r) ==
  /\ record[r].at = "uploaded"
  /\ record' = [record EXCEPT ![r].at = "written", ![r].writtenAt = now]
  /\ UNCHANGED now

\* The upload, its link or the record's own upload fails, or the process ends:
\* there will be no record.
Lose(r) ==
  /\ record[r].at \in {"dated", "uploaded"}
  /\ record' = [record EXCEPT ![r] = [NoRecord EXCEPT !.at = "lost"]]
  /\ UNCHANGED now

Persist(r) == TakeDate(r) \/ Upload(r) \/ writeAuditRecord(r) \/ Lose(r)

\* What ListObjectsV2 gives for audit/<tenant>/<day>/.
ListKeys(tenant, day) ==
  {r \in Records : record[r].at = "written" /\ record[r].day = day
                     /\ TenantOf[r] = tenant}
=============================================================================
