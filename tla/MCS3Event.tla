------------------------------ MODULE MCS3Event ------------------------------
(***************************************************************************)
(* Small instances of S3Event.  S3Event.cfg: a queued event about a        *)
(* version of an object, delivered to two workers and POSTed once more.    *)
(* S3Users.cfg: an event of two created records, of a version and of an    *)
(* unversioned object under the same key; one worker goes through them,    *)
(* while users write.  S3Quarantine.cfg: two versions under one key.       *)
(***************************************************************************)
EXTENDS S3Event, TLC

CONSTANTS o1, o2, e1, e2, k1

Created(o) == [object |-> o, created |-> TRUE]
Removed(o) == [object |-> o, created |-> FALSE]

TwoVersions == {o1, o2}
OneObject   == {o1}
Other       == {o2}
NoObject    == {}
OneEvent    == {e1}
TwoEvents   == {e1, e2}
OneKey      == [o \in Objects |-> k1]

Duplicates  == (e1 :> <<Created(o1), Removed(o1)>>) @@ (e2 :> <<Created(o1)>>)
SameKey     == e1 :> <<Created(o1), Created(o2)>>
Unversioned == e1 :> <<Removed(o2), Created(o2)>>

\* ERROR and PARSE ERROR are to processS3Event what FOUND is.
MCOutcomes  == {"OK", "FOUND", "clamErr"}
AllSettings == [quarantine : BOOLEAN, delete : BOOLEAN]
Quarantining == [quarantine : {TRUE}, delete : BOOLEAN]
=============================================================================
