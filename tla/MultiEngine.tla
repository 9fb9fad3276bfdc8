----------------------------- MODULE MultiEngine -----------------------------
(***************************************************************************)
(* One call of RunMultiEngineScanTimed (multi_engine.go, yara_views.go):   *)
(* four goroutines scan the staged file, a WaitGroup waits for them, and   *)
(* their results are aggregated into one verdict.  The YARA worker itself  *)
(* runs two passes, over the file and over its decoded content.            *)
(*                                                                         *)
(* Descriptions are abstracted to the set of engines they name.  What each *)
(* subprocess really did is kept beside the result the code read from it,  *)
(* so that a property can compare the two.                                 *)
(***************************************************************************)
EXTENDS ScanTypes, Naturals

CONSTANT MaxReplies       \* bound on the replies of one clamd connection

ASSUME MaxRepliesAssumption == MaxReplies \in Nat

Engines == {"ClamAV", "YARA", "Maldet", "MalwareBazaar"}

VARIABLES
  clam,      \* worker 1: the connection and the captured clamResult, clamErr
  raw,       \* the YARA pass over the uploaded file
  view,      \* the YARA pass over the decoded content, and its temp file
  yara,      \* worker 2's captured yaraResult, once merged
  maldet,    \* worker 3 and its captured maldetResult
  bazaar,    \* worker 4 and its captured malwareBazaarResult
  verdict    \* what the call returned

vars == <<clam, raw, view, yara, maldet, bazaar, verdict>>
-----------------------------------------------------------------------------
(* Engine results *)

\* An EngineResult: neither Error nor IsInfected, one, or the other (no code
\* sets both).  scanDecodedView also returns nil.
Results == {"clean", "failed", "hit"}

\* How a subprocess ended: whether its deadline had passed when it was reaped,
\* whether it exited with status 0, and what it printed to either of its outputs:
\* nothing, text that reports matches or hits, or other text, such as a warning or
\* a summary without hits.  A binary that could not be started ends non-zero and
\* prints nothing.
Prints == {"nothing", "hits", "other"}
Exits  == [late : BOOLEAN, zero : BOOLEAN, out : Prints]
NotRun == [late |-> FALSE, zero |-> FALSE, out |-> "nothing"]

\* A rule match is any output of a YARA process that exited with 0: every line of
\* CombinedOutput counts, whether yara printed it as a match or as a warning.
RunYaraScan(exit) ==
  IF exit.late \/ ~exit.zero THEN "failed"
  ELSE IF exit.out # "nothing" THEN "hit" ELSE "clean"

\* BUG: a non-zero exit always counts as hits, as maldet's exit code suggests.
ExitCodeIsHit(exit) ==
  IF exit.late THEN "failed"
  ELSE IF ~exit.zero \/ exit.out = "hits" THEN "hit" ELSE "clean"

\* maldet exits non-zero when it finds something, so a non-zero exit that
\* printed anything is parsed like any other.
RunMaldetScan(exit) ==
  IF exit.late \/ (~exit.zero /\ exit.out = "nothing") THEN "failed"
  ELSE IF exit.out = "hits" THEN "hit" ELSE "clean"

\* BUG: the error of either pass wins over the other pass's hit.
ErrorWins(r, v) ==
  IF v = "nil" THEN r
  ELSE IF "failed" \in {r, v} THEN "failed"
  ELSE IF "hit" \in {r, v} THEN "hit" ELSE "clean"

\* BUG: only the raw pass's error survives.
ViewErrorLost(r, v) == IF v = "hit" THEN "hit" ELSE r

\* A hit of either pass is a hit and hides the other pass's error; otherwise
\* an error of either pass is an error.
mergeYaraResults(r, v) ==
  IF v = "nil" THEN r
  ELSE IF "hit" \in {r, v} THEN "hit"
  ELSE IF "failed" \in {r, v} THEN "failed" ELSE "clean"
-----------------------------------------------------------------------------
(* Worker 1: ClamAV over its TCP connection, with no timeout *)

Streaming == clam.at = "streaming"

\* ScanStream fails: no connection, or the stream could not be sent.
ClamFails ==
  /\ Streaming /\ clam.replies = 0
  /\ clam' = [clam EXCEPT !.at = "done", !.result = "ERROR", !.err = TRUE]
  /\ UNCHANGED <<raw, view, yara, maldet, bazaar, verdict>>

\* One result arrives on the response channel; the last one wins.
ClamReplies(status) ==
  /\ Streaming /\ clam.replies < MaxReplies
  /\ clam' = [clam EXCEPT !.result = status, !.replies = @ + 1]
  /\ UNCHANGED <<raw, view, yara, maldet, bazaar, verdict>>

\* The channel is closed: clamd closed the connection, replies or none.
ClamCloses ==
  /\ Streaming
  /\ clam' = [clam EXCEPT !.at = "done"]
  /\ UNCHANGED <<raw, view, yara, maldet, bazaar, verdict>>
-----------------------------------------------------------------------------
(* Worker 2: YARA over the raw file and, concurrently, the decoded view *)

\* BUG: exec.Command without the context: a pass ends only by itself.
NoDeadline(exit) ==
  /\ raw.at = "running" /\ ~exit.late
  /\ raw' = [at |-> "done", exit |-> exit, result |-> RunYaraScan(exit)]
  /\ UNCHANGED <<clam, view, yara, maldet, bazaar, verdict>>

RawPass(exit) ==
  /\ raw.at = "running"
  /\ raw' = [at |-> "done", exit |-> exit, result |-> RunYaraScan(exit)]
  /\ UNCHANGED <<clam, view, yara, maldet, bazaar, verdict>>

\* The decoded pass is left out: the file cannot be read, is over the decode
\* limit or has nothing decodable, or the bundle's temp file cannot be made.
ViewSkipped ==
  /\ view.at = "decoding"
  /\ view' = [view EXCEPT !.at = "done", !.result = "nil"]
  /\ UNCHANGED <<clam, raw, yara, maldet, bazaar, verdict>>

ViewStaged ==
  /\ view.at = "decoding"
  /\ view' = [view EXCEPT !.at = "staged", !.file = TRUE]
  /\ UNCHANGED <<clam, raw, yara, maldet, bazaar, verdict>>

\* BUG: the early return after a failed write leaves the temp file behind.
ViewWriteFailsKeepsFile ==
  /\ view.at = "staged"
  /\ view' = [view EXCEPT !.at = "done", !.result = "nil"]
  /\ UNCHANGED <<clam, raw, yara, maldet, bazaar, verdict>>

\* The bundle cannot be written; the deferred os.Remove still runs.
ViewWriteFails ==
  /\ view.at = "staged"
  /\ view' = [view EXCEPT !.at = "done", !.result = "nil", !.file = FALSE]
  /\ UNCHANGED <<clam, raw, yara, maldet, bazaar, verdict>>

ViewPass(exit) ==
  /\ view.at = "staged"
  /\ view' = [at |-> "done", exit |-> exit, result |-> RunYaraScan(exit),
              file |-> FALSE]
  /\ UNCHANGED <<clam, raw, yara, maldet, bazaar, verdict>>

\* BUG: the merge does not wait on rawDone, and takes the raw result as it is.
MergeEarly ==
  /\ view.at = "done" /\ yara.at = "running"
  /\ yara' = [at |-> "done", result |-> mergeYaraResults(raw.result, view.result)]
  /\ UNCHANGED <<clam, raw, view, maldet, bazaar, verdict>>

\* RunYaraScanWithViews returns once both passes are in.
YaraMerges ==
  /\ raw.at = "done" /\ view.at = "done" /\ yara.at = "running"
  /\ yara' = [at |-> "done", result |-> mergeYaraResults(raw.result, view.result)]
  /\ UNCHANGED <<clam, raw, view, maldet, bazaar, verdict>>
-----------------------------------------------------------------------------
(* Workers 3 and 4 *)

MaldetEnds(exit) ==
  /\ maldet.at = "running"
  /\ maldet' = [at |-> "done", exit |-> exit, result |-> RunMaldetScan(exit)]
  /\ UNCHANGED <<clam, raw, view, yara, bazaar, verdict>>

\* The lookup is disabled, misses, hits or fails; HashReputation looks inside.
BazaarEnds(result) ==
  /\ bazaar.at = "running"
  /\ bazaar' = [at |-> "done", result |-> result]
  /\ UNCHANGED <<clam, raw, view, yara, maldet, verdict>>
-----------------------------------------------------------------------------
(* wg.Wait, then the aggregation *)

AllDone == \A w \in {clam, yara, maldet, bazaar} : w.at = "done"

ResultOf == [YARA |-> yara.result, Maldet |-> maldet.result,
             MalwareBazaar |-> bazaar.result]

LocalHits == {e \in DOMAIN ResultOf : ResultOf[e] = "hit"}
Warnings  == {e \in DOMAIN ResultOf : ResultOf[e] = "failed"}

Hits == LocalHits \cup (IF clam.result = "FOUND" THEN {"ClamAV"} ELSE {})

\* BUG: without a local hit clamd's status is passed on, nil included.
PassThrough == IF Hits # {} THEN "FOUND" ELSE clam.result

FinalStatus ==
  IF Hits # {} THEN "FOUND"
  ELSE IF clam.result \in {"ERROR", "PARSE ERROR"} THEN clam.result ELSE "OK"

Pending == [outcome |-> "pending", hits |-> {}, warned |-> {}]

\* A clamd error hides what the other engines found; no reply at all from
\* clamd (clamResult still nil) counts as a clean ClamAV result.
Aggregate ==
  /\ AllDone /\ verdict = Pending
  /\ verdict' = IF clam.err
                THEN [outcome |-> "clamErr", hits |-> {}, warned |-> {}]
                ELSE [outcome |-> FinalStatus, hits |-> Hits, warned |-> Warnings]
  /\ UNCHANGED <<clam, raw, view, yara, maldet, bazaar>>
-----------------------------------------------------------------------------
Init ==
  /\ clam = [at |-> "streaming", result |-> "nil", err |-> FALSE, replies |-> 0]
  /\ raw = [at |-> "running", exit |-> NotRun, result |-> "clean"]
  /\ view = [at |-> "decoding", exit |-> NotRun, result |-> "nil", file |-> FALSE]
  /\ yara = [at |-> "running", result |-> "clean"]
  /\ maldet = [at |-> "running", exit |-> NotRun, result |-> "clean"]
  /\ bazaar = [at |-> "running", result |-> "clean"]
  /\ verdict = Pending

Next ==
  \/ ClamFails \/ ClamCloses
  \/ \E status \in Statuses : ClamReplies(status)
  \/ \E exit \in Exits : RawPass(exit) \/ ViewPass(exit) \/ MaldetEnds(exit)
  \/ ViewSkipped \/ ViewStaged \/ ViewWriteFails \/ YaraMerges
  \/ \E result \in Results : BazaarEnds(result)
  \/ Aggregate

\* Only the deadlines are relied on: exec.CommandContext kills a pass or maldet
\* when its time is up, and the lookup's request carries a deadline too.
\* Decoding and merging are local computation.  Nothing bounds clamd.
EngineFairness ==
  /\ WF_vars(\E exit \in Exits : exit.late /\ RawPass(exit))
  /\ WF_vars(\E exit \in Exits : exit.late /\ ViewPass(exit))
  /\ WF_vars(\E exit \in Exits : exit.late /\ MaldetEnds(exit))
  /\ WF_vars(BazaarEnds("failed"))
  /\ WF_vars(ViewSkipped \/ ViewStaged)
  /\ WF_vars(YaraMerges)
  /\ WF_vars(Aggregate)

Spec == Init /\ [][Next]_vars
FairSpec == Spec /\ EngineFairness
-----------------------------------------------------------------------------
(* Properties *)

Passes == [at : {"running", "done"}, exit : Exits, result : Results]

\* Every variable holds what the Go variable it stands for can hold.
TypeOK ==
  /\ clam \in [at : {"streaming", "done"}, result : Statuses \cup {"nil"},
              err : BOOLEAN, replies : 0..MaxReplies]
  /\ raw \in Passes
  /\ view \in [at : {"decoding", "staged", "done"}, exit : Exits,
              result : Results \cup {"nil"}, file : BOOLEAN]
  /\ yara \in [at : {"running", "done"}, result : Results]
  /\ maldet \in Passes
  /\ bazaar \in [at : {"running", "done"}, result : Results]
  /\ verdict \in [outcome : ScanOutcomes \cup {"pending"},
                 hits : SUBSET Engines, warned : SUBSET Engines]

\* A verdict aggregated from the four engines, not clamErr.
Aggregated == verdict.outcome \in Statuses

InTime(exit) == exit.zero /\ ~exit.late

\* No hit is lost on the way through merge and aggregation: a hit of a process
\* that ended in time, or of clamd's last reply, is named and makes the verdict
\* FOUND; hits printed by a process that failed at least leave its engine
\* among the warnings (multi_engine.go:257-318, yara_views.go:68-84).
NoHitIsLost ==
  Aggregated =>
    /\ clam.result = "FOUND" => "ClamAV" \in verdict.hits
    /\ \A exit \in {raw.exit, view.exit} : exit.out = "hits" =>
         "YARA" \in verdict.hits \cup (IF InTime(exit) THEN {} ELSE verdict.warned)
    /\ maldet.exit.out = "hits" =>
         "Maldet" \in (IF maldet.exit.late THEN verdict.warned ELSE verdict.hits)
    /\ bazaar.result = "hit" => "MalwareBazaar" \in verdict.hits
    /\ verdict.hits # {} => verdict.outcome = "FOUND"

\* An engine that ended in time reported a detection.
Reported ==
  \/ clam.result = "FOUND"
  \/ \E exit \in {raw.exit, view.exit} : InTime(exit) /\ exit.out = "hits"
  \/ maldet.exit.out = "hits" /\ ~maldet.exit.late
  \/ bazaar.result = "hit"

\* A pass of YARA matched nothing, and exited with 0 after printing something.
WarnedOnly ==
  \E exit \in {raw.exit, view.exit} : InTime(exit) /\ exit.out = "other"

\* FOUND always rests on a reply or on output in which an engine that ended
\* in time says so; no failure of an engine is taken for a detection.  The one
\* exception is the code's: a warning of a yara that exits with 0 is read as the
\* name of a rule (multi_engine.go:73, 91-106).
FoundHasEvidence == verdict.outcome = "FOUND" => Reported \/ WarnedOnly

\* A CLEAN verdict without a warning means that YARA ended in time on every
\* view it was given, that maldet ran, that the lookup did not fail and that
\* clamd reported no trouble: no reduced coverage goes unmentioned, apart from
\* a decoded view that was never staged and a clamd that never replied.
CleanIsComplete ==
  verdict.outcome = "OK" /\ verdict.warned = {} =>
    /\ InTime(raw.exit)
    /\ view.result = "nil" \/ InTime(view.exit)
    /\ ~maldet.exit.late /\ (maldet.exit.zero \/ maldet.exit.out # "nothing")
    /\ bazaar.result # "failed"
    /\ clam.result \in {"OK", "nil"} /\ ~clam.err

\* The decoded bundle's temp file is gone when the call returns.
NoTempFileLeft == verdict # Pending => ~view.file

\* What the engines have detected: a YARA pass counts as soon as it ends, and
\* clamd once its channel is closed, because a later reply replaces a result.
Detected ==
  {e \in Engines :
     \/ e = "ClamAV" /\ clam.at = "done" /\ clam.result = "FOUND"
     \/ e = "YARA" /\ (raw.result = "hit" \/ view.result = "hit")
     \/ e = "Maldet" /\ maldet.result = "hit"
     \/ e = "MalwareBazaar" /\ bazaar.result = "hit"}

Call == INSTANCE ScanCall WITH detected <- Detected, answer <- verdict.outcome

\* The call keeps the contract its callers rely on.
ImplementsScanCall == Call!Spec

\* Once clamd's connection has ended, the call returns: the other engines'
\* deadlines bound everything else it waits for.
ReturnsAfterClamd == clam.at = "done" ~> verdict # Pending

\* README.md:28 says that each engine runs under a bounded timeout, so that the
\* call always returns.  The ClamAV worker has none (multi_engine.go:196-204).
AlwaysReturns == <>(verdict # Pending)

\* README.md:28 says that an engine that fails to complete is reported instead
\* of a silent all-clear.  A clamd that closes the connection without a reply
\* leaves clamResult nil, which reads as clean (multi_engine.go:202, 262).
CleanMeansClamAVReplied ==
  verdict.outcome = "OK" => clam.replies > 0 \/ verdict.warned # {}
=============================================================================
