------------------------------ MODULE ScanTypes ------------------------------
(***************************************************************************)
(* The vocabulary the scanning modules share: the statuses of a clamd      *)
(* result, what one multi-engine scan can return to its caller, and the    *)
(* status word a caller shows to a client.                                 *)
(***************************************************************************)

\* clamd.RES_OK, RES_FOUND, RES_ERROR and RES_PARSE_ERROR.
Statuses == {"OK", "FOUND", "ERROR", "PARSE ERROR"}

\* RunMultiEngineScan returns a result, or a non-nil error (clamErr).
ScanOutcomes == Statuses \cup {"clamErr"}

\* The word clients see for a status.  Unlike processS3Event, it keeps the
\* two error statuses apart from FOUND.
formatStatus(status) ==
  CASE status = "OK" -> "CLEAN"
    [] status = "FOUND" -> "INFECTED"
    [] OTHER -> status

\* What a client can be told about a finished scan.
FinalWords == {formatStatus(s) : s \in Statuses}
=============================================================================
