----------------------------- MODULE ScanTicket ------------------------------
(***************************************************************************)
(* What polling promises a client, per scan_id: a ticket is first in       *)
(* progress, then has a final result.  While it is shown, a result neither *)
(* changes nor turns back into PROCESSING.  A write to the store may be    *)
(* lost, so a ticket can skip its in-progress phase, and it can expire.    *)
(***************************************************************************)
EXTENDS ScanTypes

CONSTANT Scans

VARIABLE ticket     \* what the store shows under each scan_id

vars == <<ticket>>

Init == ticket = [s \in Scans |-> "absent"]

Accept(s) ==
  /\ ticket[s] = "absent"
  /\ ticket' = [ticket EXCEPT ![s] = "PROCESSING"]

Finish(s) ==
  /\ ticket[s] \notin FinalWords
  /\ \E word \in FinalWords : ticket' = [ticket EXCEPT ![s] = word]

Expire(s) == ticket' = [ticket EXCEPT ![s] = "absent"]

Next == \E s \in Scans : Accept(s) \/ Finish(s) \/ Expire(s)

Spec == Init /\ [][Next]_vars
=============================================================================
