------------------------------- MODULE Service -------------------------------
(***************************************************************************)
(* The service's process and its container: main, waitForClamD and the     *)
(* admin commands (clamrest.go, admin.go), and InitJWKS (middleware.go).   *)
(* entrypoint.sh ends the container when any of its processes ends, and    *)
(* the platform starts a new one.                                          *)
(***************************************************************************)
EXTENDS Auth, Naturals

CONSTANTS MaxAttempts,    \* waitForClamD gives up after this many (90)
          MaxRestarts     \* bound of the model

ASSUME ServiceAssumption == MaxAttempts \in Nat \ {0} /\ MaxRestarts \in Nat

VARIABLES phase,      \* of the process: "down", "init", "waiting" or "serving"
          attempt,    \* of waitForClamD
          jwks,       \* the verification keys were fetched
          issuerSet,  \* COGNITO_ISSUER is configured
          clamd,      \* "loading" (connections are refused), "ready", or
                      \* "busy" (it accepts them and says nothing)
          restarts

serviceVars == <<phase, attempt, jwks, issuerSet, clamd, restarts>>

ServiceInit ==
  /\ phase = "init" /\ attempt = 0 /\ jwks = FALSE
  /\ issuerSet \in BOOLEAN
  /\ clamd = "loading" /\ restarts = 0

\* The keys are fetched once, before anything else; a failure is logged and the
\* process goes on.  The SQS consumer starts here too, ahead of clamd.
InitJWKS ==
  /\ phase = "init"
  /\ jwks' \in BOOLEAN
  /\ phase' = "waiting" /\ attempt' = 1
  /\ UNCHANGED <<issuerSet, clamd, restarts>>

\* BUG: one attempt more than the 90 of the code.
OneAttemptMore ==
  /\ phase = "waiting" /\ clamd # "busy"
  /\ IF clamd = "ready" THEN phase' = "serving" /\ attempt' = 0
                        ELSE attempt' = attempt + 1 /\ UNCHANGED phase
  /\ attempt <= MaxAttempts
  /\ UNCHANGED <<jwks, issuerSet, clamd, restarts>>

\* BUG: the attempts are not counted.
WaitsForEver ==
  /\ phase = "waiting" /\ clamd # "busy"
  /\ IF clamd = "ready" THEN phase' = "serving" /\ attempt' = 0
                        ELSE UNCHANGED <<phase, attempt>>
  /\ UNCHANGED <<jwks, issuerSet, clamd, restarts>>

\* One attempt: clamd tells its version and the servers start; or it refuses the
\* connection and is tried again after 4 s, or the process exits and takes the
\* container with it.  Only the dial has a deadline: with a clamd that accepts and
\* stays silent, Ping, Version or the range over its channel does not return, and
\* the attempt is not over, let alone counted, until clamd speaks.
waitForClamD ==
  /\ phase = "waiting"
  /\ \/ clamd = "ready" /\ phase' = "serving" /\ attempt' = 0 /\ UNCHANGED clamd
     \/ /\ clamd = "loading" /\ attempt < MaxAttempts
        /\ attempt' = attempt + 1 /\ UNCHANGED <<phase, clamd>>
     \/ /\ clamd = "loading" /\ attempt >= MaxAttempts
        /\ phase' = "down" /\ attempt' = 0 /\ clamd' = "loading"
  /\ UNCHANGED <<jwks, issuerSet, restarts>>

\* clamd has its database in memory and listens.
ClamdLoads ==
  /\ phase # "down" /\ clamd = "loading"
  /\ clamd' = "ready"
  /\ UNCHANGED <<phase, attempt, jwks, issuerSet, restarts>>

\* adminReloadHandler, and the goroutine of adminUpdateSignaturesHandler after a
\* freshclam that succeeded.  Without concurrent reload (entrypoint.sh) clamd
\* serves nobody until the database is loaded.
Reload ==
  /\ phase = "serving" /\ clamd = "ready"
  /\ \E t \in Tokens : AdminAuthMiddleware(jwks, issuerSet, t).code = "none"
  /\ clamd' = "busy"
  /\ UNCHANGED <<phase, attempt, jwks, issuerSet, restarts>>

\* clamd falls silent by itself: freshclam or its own check makes it reload, or
\* it hangs.
FallsSilent ==
  /\ phase # "down" /\ clamd = "ready"
  /\ clamd' = "busy"
  /\ UNCHANGED <<phase, attempt, jwks, issuerSet, restarts>>

\* Nothing says that it does.
ReloadEnds ==
  /\ clamd = "busy"
  /\ clamd' = "ready"
  /\ UNCHANGED <<phase, attempt, jwks, issuerSet, restarts>>

\* Any process of the container ends.
ContainerEnds ==
  /\ phase # "down" /\ restarts < MaxRestarts
  /\ phase' = "down" /\ attempt' = 0 /\ jwks' = FALSE /\ clamd' = "loading"
  /\ UNCHANGED <<issuerSet, restarts>>

\* The platform replaces it; the model bounds how often.
ContainerStarts ==
  /\ phase = "down" /\ restarts < MaxRestarts
  /\ phase' = "init" /\ jwks' = FALSE
  /\ restarts' = restarts + 1
  /\ UNCHANGED <<attempt, issuerSet, clamd>>
=============================================================================
