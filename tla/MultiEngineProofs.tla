-------------------------- MODULE MultiEngineProofs --------------------------
(***************************************************************************)
(* What MultiEngine promises, for any number of clamd replies: the         *)
(* inductive invariant ties every result to the subprocess it was read     *)
(* from and the verdict to the four results, and the properties follow     *)
(* from it by cases.                                                       *)
(***************************************************************************)
EXTENDS MultiEngine, TLAPS

\* A pass over the file, or maldet: its result is what the code reads from its
\* exit once it has ended, and both are untouched before.
RawInv == /\ raw.at = "running" => raw.exit = NotRun /\ raw.result = "clean"
          /\ raw.at = "done" => raw.result = RunYaraScan(raw.exit)

ViewInv == /\ view.at = "decoding" => ~view.file
           /\ view.at # "done" => view.exit = NotRun /\ view.result = "nil"
           /\ view.at = "done" =>
                /\ ~view.file
                /\ \/ view.result = "nil" /\ view.exit = NotRun
                   \/ view.result = RunYaraScan(view.exit)

YaraInv == yara.at = "done" =>
             /\ raw.at = "done" /\ view.at = "done"
             /\ yara.result = mergeYaraResults(raw.result, view.result)

MaldetInv == /\ maldet.at = "running" => maldet.exit = NotRun /\ maldet.result = "clean"
             /\ maldet.at = "done" => maldet.result = RunMaldetScan(maldet.exit)

BazaarInv == bazaar.at = "running" => bazaar.result = "clean"

\* The verdict is the aggregation of results that can no longer change.
VerdictInv ==
  verdict # Pending =>
    /\ AllDone
    /\ verdict = IF clam.err
                 THEN [outcome |-> "clamErr", hits |-> {}, warned |-> {}]
                 ELSE [outcome |-> FinalStatus, hits |-> Hits, warned |-> Warnings]

IInv == TypeOK /\ RawInv /\ ViewInv /\ YaraInv /\ MaldetInv /\ BazaarInv /\ VerdictInv

\* The sets a verdict carries, spelled out engine by engine.
LEMMA ResultSets ==
  /\ LocalHits = {e \in {"YARA", "Maldet", "MalwareBazaar"} :
                    \/ e = "YARA" /\ yara.result = "hit"
                    \/ e = "Maldet" /\ maldet.result = "hit"
                    \/ e = "MalwareBazaar" /\ bazaar.result = "hit"}
  /\ Warnings = {e \in {"YARA", "Maldet", "MalwareBazaar"} :
                    \/ e = "YARA" /\ yara.result = "failed"
                    \/ e = "Maldet" /\ maldet.result = "failed"
                    \/ e = "MalwareBazaar" /\ bazaar.result = "failed"}
<1>1. DOMAIN ResultOf = {"YARA", "Maldet", "MalwareBazaar"}
  BY DEF ResultOf
<1>2. /\ ResultOf["YARA"] = yara.result
      /\ ResultOf["Maldet"] = maldet.result
      /\ ResultOf["MalwareBazaar"] = bazaar.result
  BY DEF ResultOf
<1> QED BY <1>1, <1>2 DEF LocalHits, Warnings

\* The membership each engine has in a verdict's hits and warnings.
LEMMA Membership ==
  /\ Hits \subseteq Engines /\ Warnings \subseteq Engines
  /\ "ClamAV" \in Hits <=> clam.result = "FOUND"
  /\ "YARA" \in Hits <=> yara.result = "hit"
  /\ "Maldet" \in Hits <=> maldet.result = "hit"
  /\ "MalwareBazaar" \in Hits <=> bazaar.result = "hit"
  /\ "YARA" \in Warnings <=> yara.result = "failed"
  /\ "Maldet" \in Warnings <=> maldet.result = "failed"
  /\ "MalwareBazaar" \in Warnings <=> bazaar.result = "failed"
BY ResultSets DEF Hits, Engines

\* The readings of an exit and the merge stay within Results.
LEMMA ResultTypes ==
  /\ \A exit \in Exits : RunYaraScan(exit) \in Results /\ RunMaldetScan(exit) \in Results
  /\ \A r \in Results, v \in Results \cup {"nil"} : mergeYaraResults(r, v) \in Results
BY DEF RunYaraScan, RunMaldetScan, mergeYaraResults, Results

LEMMA InitInv == Init => IInv
BY MaxRepliesAssumption
   DEF Init, IInv, TypeOK, RawInv, ViewInv, YaraInv, MaldetInv, BazaarInv, VerdictInv,
       Passes, Exits, Prints, NotRun, Results, Pending, ScanOutcomes, Statuses, Engines

\* While a worker is still running there is no verdict yet.
LEMMA NoVerdictYet ==
  ASSUME VerdictInv,
         \/ clam.at # "done" \/ yara.at # "done"
         \/ maldet.at # "done" \/ bazaar.at # "done"
  PROVE  verdict = Pending
BY DEF VerdictInv, AllDone

LEMMA NextInv == IInv /\ [Next]_vars => IInv'
<1> SUFFICES ASSUME IInv, [Next]_vars PROVE IInv'
  OBVIOUS
<1> USE DEF IInv
<1>1. CASE ClamFails \/ ClamCloses \/ \E status \in Statuses : ClamReplies(status)
  <2>1. verdict = Pending /\ verdict' = Pending
    BY <1>1, NoVerdictYet DEF ClamFails, ClamCloses, ClamReplies, Streaming
  <2>2. UNCHANGED <<raw, view, yara, maldet, bazaar>>
    BY <1>1 DEF ClamFails, ClamCloses, ClamReplies
  <2> DEFINE Clams == [at : {"streaming", "done"}, result : Statuses \cup {"nil"},
                       err : BOOLEAN, replies : 0..MaxReplies]
  <2>3. clam' \in Clams
    <3>0. clam \in Clams
      BY DEF TypeOK
    <3>1. CASE ClamFails
      <4>1. clam' = [clam EXCEPT !.at = "done", !.result = "ERROR", !.err = TRUE]
        BY <3>1 DEF ClamFails
      <4>2. "ERROR" \in Statuses
        BY DEF Statuses
      <4> QED BY <3>0, <4>1, <4>2
    <3>2. CASE ClamCloses
      <4>1. clam' = [clam EXCEPT !.at = "done"]
        BY <3>2 DEF ClamCloses
      <4> QED BY <3>0, <4>1
    <3>3. ASSUME NEW status \in Statuses, ClamReplies(status) PROVE clam' \in Clams
      <4>1. /\ clam.replies < MaxReplies
            /\ clam' = [clam EXCEPT !.result = status, !.replies = @ + 1]
        BY <3>3 DEF ClamReplies
      <4>2. clam.replies + 1 \in 0..MaxReplies
        BY <3>0, <4>1, MaxRepliesAssumption
      <4> QED BY <3>0, <4>1, <4>2
    <3> QED BY <1>1, <3>1, <3>2, <3>3
  <2> QED BY <2>1, <2>2, <2>3
          DEF TypeOK, RawInv, ViewInv, YaraInv, MaldetInv, BazaarInv, VerdictInv
<1>2. ASSUME NEW exit \in Exits, RawPass(exit) PROVE IInv'
  <2>1. yara.at = "running"
    BY <1>2 DEF RawPass, YaraInv, TypeOK
  <2>2. verdict = Pending /\ verdict' = Pending
    BY <1>2, <2>1, NoVerdictYet DEF RawPass
  <2>3. raw' \in Passes
    BY <1>2, ResultTypes DEF RawPass, Passes
  <2> QED BY <1>2, <2>1, <2>2, <2>3
          DEF RawPass, TypeOK, RawInv, ViewInv, YaraInv, MaldetInv, BazaarInv, VerdictInv
<1>3. ASSUME NEW exit \in Exits, ViewPass(exit) PROVE IInv'
  <2>1. yara.at = "running"
    BY <1>3 DEF ViewPass, YaraInv, TypeOK
  <2>2. verdict = Pending /\ verdict' = Pending
    BY <1>3, <2>1, NoVerdictYet DEF ViewPass
  <2> QED BY <1>3, <2>1, <2>2, ResultTypes
          DEF ViewPass, TypeOK, RawInv, ViewInv, YaraInv, MaldetInv, BazaarInv,
              VerdictInv
<1>4. CASE ViewSkipped \/ ViewStaged \/ ViewWriteFails
  <2>1. yara.at = "running"
    BY <1>4 DEF ViewSkipped, ViewStaged, ViewWriteFails, YaraInv, TypeOK
  <2>2. verdict = Pending /\ verdict' = Pending
    BY <1>4, <2>1, NoVerdictYet DEF ViewSkipped, ViewStaged, ViewWriteFails
  <2>3. view.at # "done" /\ view.exit = NotRun /\ view.result = "nil"
    BY <1>4 DEF ViewSkipped, ViewStaged, ViewWriteFails, ViewInv
  <2>4. /\ view' \in [at : {"decoding", "staged", "done"}, exit : Exits,
                      result : Results \cup {"nil"}, file : BOOLEAN]
        /\ view'.exit = NotRun /\ view'.result = "nil"
        /\ view'.at # "decoding" /\ (view'.at = "done" => ~view'.file)
    <3>1. CASE ViewSkipped
      <4>1. view.file = FALSE
        BY <3>1 DEF ViewSkipped, ViewInv, TypeOK
      <4> QED BY <3>1, <4>1, <2>3 DEF ViewSkipped, TypeOK
    <3>2. CASE ViewStaged \/ ViewWriteFails
      BY <3>2, <2>3 DEF ViewStaged, ViewWriteFails, TypeOK
    <3> QED BY <1>4, <3>1, <3>2
  <2>5. UNCHANGED <<clam, raw, yara, maldet, bazaar>>
    BY <1>4 DEF ViewSkipped, ViewStaged, ViewWriteFails
  <2>6. TypeOK'
    BY <2>2, <2>4, <2>5 DEF TypeOK
  <2> QED BY <2>1, <2>2, <2>4, <2>5, <2>6
          DEF RawInv, ViewInv, YaraInv, MaldetInv, BazaarInv, VerdictInv
<1>5. CASE YaraMerges
  <2>1. verdict = Pending /\ verdict' = Pending
    BY <1>5, NoVerdictYet DEF YaraMerges
  <2> QED BY <1>5, <2>1, ResultTypes
          DEF YaraMerges, TypeOK, Passes, RawInv, ViewInv, YaraInv, MaldetInv, BazaarInv,
              VerdictInv
<1>6. ASSUME NEW exit \in Exits, MaldetEnds(exit) PROVE IInv'
  <2>1. verdict = Pending /\ verdict' = Pending
    BY <1>6, NoVerdictYet DEF MaldetEnds
  <2> QED BY <1>6, <2>1, ResultTypes
          DEF MaldetEnds, TypeOK, Passes, RawInv, ViewInv, YaraInv, MaldetInv, BazaarInv,
              VerdictInv
<1>7. ASSUME NEW result \in Results, BazaarEnds(result) PROVE IInv'
  <2>1. verdict = Pending /\ verdict' = Pending
    BY <1>7, NoVerdictYet DEF BazaarEnds
  <2> QED BY <1>7, <2>1
          DEF BazaarEnds, TypeOK, RawInv, ViewInv, YaraInv, MaldetInv, BazaarInv, VerdictInv
<1>8. CASE Aggregate
  <2>1. UNCHANGED <<clam, raw, view, yara, maldet, bazaar>> /\ AllDone
    BY <1>8 DEF Aggregate
  <2>2. FinalStatus' = FinalStatus /\ Hits' = Hits /\ Warnings' = Warnings /\ AllDone'
    BY <2>1 DEF FinalStatus, Hits, Warnings, LocalHits, ResultOf, AllDone
  <2>3. FinalStatus \in Statuses
    BY DEF FinalStatus, Statuses
  <2>4. VerdictInv'
    BY <1>8, <2>1, <2>2 DEF Aggregate, VerdictInv
  <2>5. verdict' \in [outcome : ScanOutcomes \cup {"pending"},
                      hits : SUBSET Engines, warned : SUBSET Engines]
    BY <1>8, <2>3, Membership DEF Aggregate, ScanOutcomes
  <2> QED BY <2>1, <2>4, <2>5
          DEF TypeOK, RawInv, ViewInv, YaraInv, MaldetInv, BazaarInv
<1>9. CASE UNCHANGED vars
  <2>1. UNCHANGED <<clam, raw, view, yara, maldet, bazaar, verdict>>
    BY <1>9 DEF vars
  <2>2. VerdictInv'
    BY <2>1 DEF VerdictInv, AllDone, FinalStatus, Hits, Warnings, LocalHits, ResultOf
  <2> QED BY <2>1, <2>2 DEF TypeOK, RawInv, ViewInv, YaraInv, MaldetInv, BazaarInv
<1> QED
  BY <1>1, <1>2, <1>3, <1>4, <1>5, <1>6, <1>7, <1>8, <1>9 DEF Next

THEOREM Invariance == Spec => []IInv
BY InitInv, NextInv, PTL DEF Spec
-----------------------------------------------------------------------------
(* The properties of the runs *)

\* The variables stay within the types of the Go variables they stand for.
THEOREM TypeCorrect == Spec => []TypeOK
<1>1. IInv => TypeOK
  BY DEF IInv
<1> QED BY Invariance, <1>1, PTL

\* What the invariant says of a verdict that was aggregated without clamErr.
LEMMA AggregatedFacts ==
  ASSUME IInv, Aggregated
  PROVE  /\ raw.at = "done" /\ view.at = "done"
         /\ raw.result = RunYaraScan(raw.exit)
         /\ \/ view.result = "nil" /\ view.exit = NotRun
            \/ view.result = RunYaraScan(view.exit)
         /\ yara.result = mergeYaraResults(raw.result, view.result)
         /\ maldet.result = RunMaldetScan(maldet.exit)
         /\ ~clam.err
         /\ verdict.outcome = FinalStatus
         /\ verdict.hits = Hits
         /\ verdict.warned = Warnings
<1>1. verdict.outcome # "pending" /\ verdict.outcome # "clamErr"
  BY DEF Aggregated, Statuses
<1>2. Pending.outcome = "pending"
  BY DEF Pending
<1>3. verdict # Pending
  BY <1>1, <1>2
<1>4. /\ AllDone
      /\ verdict = IF clam.err
                   THEN [outcome |-> "clamErr", hits |-> {}, warned |-> {}]
                   ELSE [outcome |-> FinalStatus, hits |-> Hits, warned |-> Warnings]
  BY <1>3 DEF IInv, VerdictInv
<1>5. clam.at = "done" /\ yara.at = "done" /\ maldet.at = "done"
  BY <1>4 DEF AllDone
<1>6. ~clam.err
  BY <1>1, <1>4
<1>7. verdict.outcome = FinalStatus /\ verdict.hits = Hits /\ verdict.warned = Warnings
  BY <1>4, <1>6
<1> QED BY <1>5, <1>6, <1>7 DEF IInv, YaraInv, RawInv, ViewInv, MaldetInv

\* A hit of any engine reaches the verdict, or its engine's failure does.
THEOREM NoHitLost == Spec => []NoHitIsLost
<1>1. ASSUME IInv PROVE NoHitIsLost
  <2> SUFFICES ASSUME Aggregated PROVE NoHitIsLost
    BY DEF NoHitIsLost
  <2>1. \A exit \in {raw.exit, view.exit} : exit.out = "hits" =>
          "YARA" \in Hits \cup (IF InTime(exit) THEN {} ELSE Warnings)
    <3>1. ASSUME raw.exit.out = "hits"
          PROVE yara.result = "hit" \/ (~InTime(raw.exit) /\ yara.result = "failed")
      BY <1>1, <3>1, AggregatedFacts DEF RunYaraScan, mergeYaraResults, InTime
    <3>2. ASSUME view.exit.out = "hits"
          PROVE yara.result = "hit" \/ (~InTime(view.exit) /\ yara.result = "failed")
      BY <1>1, <3>2, AggregatedFacts DEF RunYaraScan, mergeYaraResults, InTime, NotRun
    <3> QED BY <3>1, <3>2, Membership
  <2>2. maldet.exit.out = "hits" =>
          "Maldet" \in (IF maldet.exit.late THEN Warnings ELSE Hits)
    BY <1>1, AggregatedFacts, Membership DEF RunMaldetScan
  <2>3. Hits # {} => FinalStatus = "FOUND"
    BY DEF FinalStatus
  <2> QED BY <1>1, <2>1, <2>2, <2>3, AggregatedFacts, Membership DEF NoHitIsLost
<1> QED BY Invariance, <1>1, PTL

\* FOUND rests on an engine's own, timely report, or else on a warning that yara
\* printed before it exited with 0.
THEOREM FoundIsEvidenced == Spec => []FoundHasEvidence
<1>1. ASSUME IInv PROVE FoundHasEvidence
  <2> SUFFICES ASSUME verdict.outcome = "FOUND" PROVE FoundHasEvidence
    BY DEF FoundHasEvidence
  <2>1. Aggregated
    BY DEF Aggregated, Statuses
  <2>2. Hits # {}
    BY <1>1, <2>1, AggregatedFacts DEF FinalStatus
  <2>3. \/ clam.result = "FOUND" \/ yara.result = "hit"
        \/ maldet.result = "hit" \/ bazaar.result = "hit"
    BY <2>2, ResultSets DEF Hits
  <2>4. yara.result = "hit" =>
          \E exit \in {raw.exit, view.exit} : InTime(exit) /\ exit.out \in {"hits", "other"}
    <3>1. raw.exit.out \in Prints /\ view.exit.out \in Prints
      BY <1>1 DEF IInv, TypeOK, Passes, Exits
    <3> QED BY <1>1, <2>1, <3>1, AggregatedFacts
            DEF RunYaraScan, mergeYaraResults, InTime, Prints, NotRun
  <2>5. maldet.result = "hit" => maldet.exit.out = "hits" /\ ~maldet.exit.late
    BY <1>1, <2>1, AggregatedFacts DEF RunMaldetScan
  <2> QED BY <2>3, <2>4, <2>5 DEF FoundHasEvidence, Reported, WarnedOnly
<1> QED BY Invariance, <1>1, PTL

\* A CLEAN verdict without a warning is a complete one.
THEOREM CleanComplete == Spec => []CleanIsComplete
<1>1. ASSUME IInv PROVE CleanIsComplete
  <2> SUFFICES ASSUME verdict.outcome = "OK", verdict.warned = {} PROVE CleanIsComplete
    BY DEF CleanIsComplete
  <2>1. Aggregated
    BY DEF Aggregated, Statuses
  <2>2. Hits = {} /\ Warnings = {} /\ clam.result \notin {"ERROR", "PARSE ERROR"}
    BY <1>1, <2>1, AggregatedFacts DEF FinalStatus
  <2>3. yara.result \notin {"hit", "failed"} /\ maldet.result \notin {"hit", "failed"}
        /\ bazaar.result # "failed" /\ clam.result # "FOUND"
    BY <2>2, Membership
  <2>4. InTime(raw.exit) /\ (view.result = "nil" \/ InTime(view.exit))
    BY <1>1, <2>1, <2>3, AggregatedFacts DEF RunYaraScan, mergeYaraResults, InTime
  <2>5. ~maldet.exit.late /\ (maldet.exit.zero \/ maldet.exit.out # "nothing")
    BY <1>1, <2>1, <2>3, AggregatedFacts DEF RunMaldetScan
  <2>6. clam.result \in {"OK", "nil"} /\ ~clam.err
    BY <1>1, <2>1, <2>2, <2>3, AggregatedFacts DEF IInv, TypeOK, Statuses
  <2> QED BY <2>3, <2>4, <2>5, <2>6 DEF CleanIsComplete
<1> QED BY Invariance, <1>1, PTL

\* The temp file of the decoded view does not outlive the call.
THEOREM TempFileRemoved == Spec => []NoTempFileLeft
<1>1. ASSUME IInv PROVE NoTempFileLeft
  <2> SUFFICES ASSUME verdict # Pending PROVE ~view.file
    BY DEF NoTempFileLeft
  <2>1. yara.at = "done"
    BY <1>1 DEF IInv, VerdictInv, AllDone
  <2> QED BY <1>1, <2>1 DEF IInv, YaraInv, ViewInv
<1> QED BY Invariance, <1>1, PTL
-----------------------------------------------------------------------------
(* The refinement of ScanCall *)

\* An engine's membership in Detected, engine by engine.
LEMMA DetectedMembership ==
  /\ Detected \subseteq Engines
  /\ "ClamAV" \in Detected <=> clam.at = "done" /\ clam.result = "FOUND"
  /\ "YARA" \in Detected <=> raw.result = "hit" \/ view.result = "hit"
  /\ "Maldet" \in Detected <=> maldet.result = "hit"
  /\ "MalwareBazaar" \in Detected <=> bazaar.result = "hit"
BY DEF Detected, Engines

\* Once every worker is done, what was detected is what the verdict names.
LEMMA DetectedIsHits ==
  ASSUME IInv, AllDone PROVE Hits = Detected
<1>1. clam.at = "done" /\ yara.at = "done"
  BY DEF AllDone
<1>2. yara.result = mergeYaraResults(raw.result, view.result)
        /\ raw.result \in Results /\ view.result \in Results \cup {"nil"}
  BY <1>1 DEF IInv, YaraInv, TypeOK, Passes
<1>3. yara.result = "hit" <=> raw.result = "hit" \/ view.result = "hit"
  BY <1>2 DEF mergeYaraResults, Results
<1>4. \A e \in Engines : e \in Hits <=> e \in Detected
  BY <1>1, <1>3, Membership, DetectedMembership DEF Engines
<1> QED BY <1>4, Membership, DetectedMembership

LEMMA ScanCallStep ==
  ASSUME IInv, IInv', Next
  PROVE  [Call!Next]_(Call!callVars)
<1>1. CASE Aggregate
  <2>1. /\ AllDone /\ verdict.outcome = "pending"
        /\ UNCHANGED <<clam, raw, view, yara, maldet, bazaar>>
    BY <1>1 DEF Aggregate, Pending
  <2>2. Detected' = Detected
    BY <2>1 DEF Detected
  <2>3. verdict'.outcome = IF clam.err THEN "clamErr" ELSE FinalStatus
    BY <1>1 DEF Aggregate
  <2>4. FinalStatus \in Statuses /\ (FinalStatus = "FOUND" <=> Hits # {})
    BY DEF FinalStatus, Statuses
  <2>5. "clamErr" \notin Statuses
    BY DEF Statuses
  <2>6. Call!Answer
    BY <2>1, <2>2, <2>3, <2>4, <2>5, DetectedIsHits DEF Call!Answer, ScanOutcomes,
       Call!ScanOutcomes, Call!Statuses, Statuses
  <2> QED BY <2>6 DEF Call!Next
<1>2. CASE ~Aggregate
  <2>1. verdict' = verdict
    BY <1>2 DEF Next, ClamFails, ClamCloses, ClamReplies, RawPass, ViewPass, MaldetEnds,
                ViewSkipped, ViewStaged, ViewWriteFails, YaraMerges, BazaarEnds
  <2>2. Detected \subseteq Detected'
    <3>1. clam.at = "done" => clam' = clam
      BY <1>2 DEF Next, ClamFails, ClamCloses, ClamReplies, Streaming, RawPass, ViewPass,
                  MaldetEnds, ViewSkipped, ViewStaged, ViewWriteFails, YaraMerges, BazaarEnds
    <3>2. raw.result = "hit" => raw' = raw
      BY <1>2 DEF Next, ClamFails, ClamCloses, ClamReplies, RawPass, ViewPass,
                  MaldetEnds, ViewSkipped, ViewStaged, ViewWriteFails, YaraMerges, BazaarEnds,
                  IInv, RawInv
    <3>3. view.result = "hit" => view' = view
      BY <1>2 DEF Next, ClamFails, ClamCloses, ClamReplies, RawPass, ViewPass,
                  MaldetEnds, ViewSkipped, ViewStaged, ViewWriteFails, YaraMerges, BazaarEnds,
                  IInv, ViewInv
    <3>4. maldet.result = "hit" => maldet' = maldet
      BY <1>2 DEF Next, ClamFails, ClamCloses, ClamReplies, RawPass, ViewPass,
                  MaldetEnds, ViewSkipped, ViewStaged, ViewWriteFails, YaraMerges, BazaarEnds,
                  IInv, MaldetInv
    <3>5. bazaar.result = "hit" => bazaar' = bazaar
      BY <1>2 DEF Next, ClamFails, ClamCloses, ClamReplies, RawPass, ViewPass,
                  MaldetEnds, ViewSkipped, ViewStaged, ViewWriteFails, YaraMerges, BazaarEnds,
                  IInv, BazaarInv
    <3> QED BY <3>1, <3>2, <3>3, <3>4, <3>5 DEF Detected
  <2>3. CASE verdict.outcome = "pending"
    BY <2>1, <2>2, <2>3, DetectedMembership DEF Call!Next, Call!Detect, Detected
  <2>4. CASE verdict.outcome # "pending"
    <3>1. AllDone
      BY <2>4 DEF IInv, VerdictInv, Pending
    <3>2. Detected' = Detected
      BY <3>1, <1>2 DEF AllDone, Next, ClamFails, ClamCloses, ClamReplies, Streaming, RawPass,
         ViewPass, MaldetEnds, ViewSkipped, ViewStaged, ViewWriteFails, YaraMerges, BazaarEnds,
         IInv, YaraInv, Detected
    <3> QED BY <2>1, <3>2 DEF Call!callVars
  <2> QED BY <2>3, <2>4
<1> QED BY <1>1, <1>2

\* A whole multi-engine scan looks to its caller like ScanCall.
THEOREM ScanCallImplemented == Spec => ImplementsScanCall
<1>1. Init => Call!Init
  BY DEF Init, Call!Init, Detected, Pending, Engines
<1>2. IInv /\ IInv' /\ [Next]_vars => [Call!Next]_(Call!callVars)
  <2>1. ASSUME UNCHANGED vars PROVE UNCHANGED Call!callVars
    BY <2>1 DEF vars, Call!callVars, Detected
  <2> QED BY <2>1, ScanCallStep
<1> QED BY Invariance, <1>1, <1>2, PTL DEF Spec, ImplementsScanCall, Call!Spec
=============================================================================
