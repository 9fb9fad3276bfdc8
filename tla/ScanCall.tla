------------------------------ MODULE ScanCall -------------------------------
(***************************************************************************)
(* What a caller of RunMultiEngineScan may rely on: detections only        *)
(* accumulate, and the single answer is FOUND exactly when something was   *)
(* detected, unless the call ends in an error.  AsyncScan and S3Event call *)
(* the scan through this contract; MultiEngine implements it.              *)
(***************************************************************************)
EXTENDS ScanTypes

CONSTANT Engines          \* the engines that can detect something

VARIABLES detected,       \* the engines that have detected something so far
          answer          \* "pending", then what the call returned

callVars == <<detected, answer>>

Init ==
  /\ detected = {}
  /\ answer = "pending"

\* Engines finish at their own pace and in any order.
Detect ==
  /\ answer = "pending"
  /\ detected' \in SUBSET Engines
  /\ detected \subseteq detected'
  /\ UNCHANGED answer

Answer ==
  /\ answer = "pending"
  /\ answer' \in ScanOutcomes
  /\ answer' # "clamErr" => (answer' = "FOUND" <=> detected # {})
  /\ UNCHANGED detected

Next == Detect \/ Answer

Spec == Init /\ [][Next]_callVars
=============================================================================
