--------------------------- MODULE SyncScanProofs ----------------------------
(***************************************************************************)
(* What SyncScan promises for any requests, tenants and bounds.  The       *)
(* inductive invariant has three parts: where a handler is decides what it *)
(* has scanned, stored and answered; a handler at work means a process     *)
(* with keys; and no "not found" is older than the cache and a call allow. *)
(***************************************************************************)
EXTENDS SyncScan, TLAPS

BeforeScan == {"new", "form", "copy"}
AfterScan  == {"put", "presign", "audit", "answer"}

\* A signature that the lookup found makes the result of a finished scan FOUND.
Told(r) == lookup[r].answer = "signature" => request[r].scan = "FOUND"

\* What a handler has done, by where it is.
HandlerOK(r) ==
  LET q == request[r]
  IN  /\ q.at \in BeforeScan => lookup[r].at = "idle" /\ lookup[r].answer = "none"
      /\ q.at \in BeforeScan \cup {"scan"} => q.scan = "none"
      /\ q.at \in BeforeScan \cup {"scan", "put"} => /\ q.file = "none" /\ ~q.path
                                                /\ ~q.link /\ ~q.audit
      /\ q.at \in BeforeScan \cup AfterScan \cup {"scan"} => q.code = "none"
      /\ q.at \in AfterScan => q.scan \in Statuses /\ Told(r)
      /\ q.at \in {"put", "presign"} => q.scan \in {"OK", "FOUND"}
      /\ q.at = "presign" => q.file = bucketFor(q.scan)
      /\ q.at = "audit" => q.file = "clean" /\ q.path

\* The properties of one request.
VerdictOK(r) ==
  request[r].at = "done" =>
    LET q == request[r]
    IN  /\ q.code = "200" =>
             \/ q.scan = "OK" /\ lookup[r].answer # "signature"
             \/ q.scan = "none" /\ lookup[r].at = "idle" /\ ~IsURL(r)
        /\ q.code = "406" <=> q.scan = "FOUND"
        /\ lookup[r].answer = "signature" => q.code = "406" \/ q.scan = "clamErr"
        /\ q.scan = "ERROR" => q.code = "400"
        /\ q.code = "400" => q.scan = "ERROR" \/ (q.scan = "none" /\ IsURL(r))
        /\ q.code = "412" => q.scan = "PARSE ERROR"
        /\ q.scan = "PARSE ERROR" => q.code = "412" \/ (q.code = "413" /\ ~IsURL(r))
        /\ q.code = "415" => q.scan = "none" /\ lookup[r].at = "idle"

StorageOK(r) ==
  LET q == request[r]
  IN  /\ q.file = "clean" => q.scan = "OK" /\ lookup[r].answer # "signature"
      /\ q.file = "quarantine" => q.scan = "FOUND"
      /\ q.path => q.file # "none"
      /\ q.link \/ q.audit => q.path /\ q.file = "clean"
      /\ q.at = "done" /\ q.file # "none" => q.code \in {"200", "406"}

TempOK(r) ==
  /\ request[r].at \in {"new", "form", "done"} => ~request[r].temp
  /\ request[r].at \in {"copy", "scan"} \cup AfterScan => request[r].temp

RequestOK(r) == HandlerOK(r) /\ VerdictOK(r) /\ StorageOK(r) /\ TempOK(r)

\* An entry and a running call are as young as their deadlines allow, and a
\* "not found" was given before the hash was known.
CacheOK ==
  /\ cache # NoEntry => now <= cache.expires /\ cache.expires <= now + TTL
  /\ cache.value = "not found" => cache.expires <= known + Timeout + TTL

LookupOK(r) ==
  /\ Running(r) => lookup[r].since <= now /\ now <= lookup[r].since + Timeout
  /\ lookup[r].at = "told" =>
       /\ lookup[r].answer \in Answers \ {"failed"}
       /\ lookup[r].answer = "not found" => lookup[r].since <= known

IInv ==
  /\ TypeOK /\ HandledIsAuthorized
  /\ \A r \in Requests : RequestOK(r) /\ LookupOK(r)
  /\ CacheOK
-----------------------------------------------------------------------------
(* Authorization *)

\* Who gets through has a verified token of our issuer, and a tenant.
LEMMA LetThrough ==
  ASSUME NEW t \in Tokens, jwks \in BOOLEAN, issuerSet \in BOOLEAN,
         AuthMiddleware(jwks, issuerSet, t).code = "none"
  PROVE  jwks /\ issuerSet /\ AuthMiddleware(jwks, issuerSet, t).tenant \in Tenants
BY DEF AuthMiddleware, Deny, Pass, Tokens

\* Nobody else is answered a code that a verdict is answered with.
LEMMA KeptOut ==
  ASSUME NEW t \in Tokens, jwks \in BOOLEAN, issuerSet \in BOOLEAN,
         AuthMiddleware(jwks, issuerSet, t).code # "none"
  PROVE  AuthMiddleware(jwks, issuerSet, t).code \in {"401", "403", "500"}
BY DEF AuthMiddleware, Deny, Pass, Tokens

\* The two middlewares agree on whoever is let in as an administrator, in every
\* state of the keys and the issuer and for every token.
LEMMA AdministratorsPass ==
  ASSUME jwks \in BOOLEAN, issuerSet \in BOOLEAN
  PROVE  AdminsAreUsers
BY DEF AdminsAreUsers, AdminAuthMiddleware, AuthMiddleware, Deny, Pass, Tokens

-----------------------------------------------------------------------------
(* Requests that a step leaves alone *)

LEMMA RequestStays ==
  ASSUME NEW r \in Requests, RequestOK(r),
         request'[r] = request[r], lookup'[r] = lookup[r]
  PROVE  RequestOK(r)'
<1>1. HandlerOK(r)'
  BY DEF RequestOK, HandlerOK, Told
<1>2. VerdictOK(r)'
  BY DEF RequestOK, VerdictOK, IsURL
<1>3. StorageOK(r)'
  BY DEF RequestOK, StorageOK
<1>4. TempOK(r)'
  BY DEF RequestOK, TempOK
<1> QED BY <1>1, <1>2, <1>3, <1>4 DEF RequestOK

\* A handler's own step, when it and the lookup of its scan keep their word.
LEMMA HandlerStep ==
  ASSUME IInv, NEW r \in Requests, NEW new \in HandlerStates, Becomes(r, new),
         new.at \notin {"new", "done", "lost"} =>
           phase = "serving" /\ jwks /\ issuerSet /\ new.tenant \in Tenants,
         UNCHANGED <<now, known, cache>>,
         lookup' \in [Requests -> Lookups],
         \A s \in Requests \ {r} : lookup'[s] = lookup[s],
         LookupOK(r)', RequestOK(r)'
  PROVE  IInv'
<1>1. /\ request' = [request EXCEPT ![r] = new] /\ TypeOK
      /\ UNCHANGED <<phase, attempt, jwks, issuerSet, clamd, restarts>>
  BY DEF Becomes, serviceVars, IInv
<1>2. /\ request'[r] = new
      /\ \A s \in Requests \ {r} : request'[s] = request[s]
  BY <1>1 DEF TypeOK
<1>3. TypeOK'
  BY <1>1 DEF TypeOK
<1>4. HandledIsAuthorized'
  BY <1>1, <1>2 DEF IInv, HandledIsAuthorized, InFlight
<1>5. \A s \in Requests : RequestOK(s)'
  BY <1>2, RequestStays DEF IInv
<1>6. \A s \in Requests : LookupOK(s)'
  <2> SUFFICES ASSUME NEW s \in Requests \ {r} PROVE LookupOK(s)'
    OBVIOUS
  <2>1. LookupOK(s)
    BY DEF IInv
  <2> QED BY <2>1 DEF LookupOK, Running
<1>7. CacheOK'
  BY DEF IInv, CacheOK
<1> QED BY <1>3, <1>4, <1>5, <1>6, <1>7 DEF IInv

\* The same, of a step that has nothing to do with the lookups.
LEMMA LonelyStep ==
  ASSUME IInv, NEW r \in Requests, NEW new \in HandlerStates, Becomes(r, new), Alone,
         new.at \notin {"new", "done", "lost"} =>
           phase = "serving" /\ jwks /\ issuerSet /\ new.tenant \in Tenants,
         RequestOK(r)'
  PROVE  IInv'
<1>1. /\ UNCHANGED <<now, known, cache>> /\ lookup' = lookup
      /\ lookup \in [Requests -> Lookups] /\ LookupOK(r)
  BY DEF IInv, TypeOK, Alone, reputationVars
<1>2. LookupOK(r)'
  BY <1>1 DEF LookupOK, Running
<1> QED BY <1>1, <1>2, HandlerStep

\* The codes of an answer before the scan.
EarlyCodes == {"none", "200", "400", "401", "403", "405", "413", "415", "500"}

\* A handler that returns before its scan.
LEMMA EarlyAnswer ==
  ASSUME IInv, NEW r \in Requests, request[r].at \in BeforeScan,
         NEW code \in EarlyCodes, Answer(r, code), Alone,
         code = "400" => IsURL(r), code = "200" => ~IsURL(r)
  PROVE  IInv'
<1> DEFINE new == [Leave(r) EXCEPT !.code = code]
<1>1. request[r] \in HandlerStates /\ RequestOK(r)
  BY DEF IInv, TypeOK
<1>2. /\ new \in HandlerStates /\ new.at = "done" /\ ~new.temp /\ new.code = code
      /\ new.scan = request[r].scan /\ new.file = request[r].file
      /\ new.path = request[r].path /\ new.link = request[r].link /\ new.audit = request[r].audit
  BY <1>1 DEF Leave, HandlerStates, Codes, EarlyCodes, Stages
<1>3. Becomes(r, new)
  BY DEF Answer
<1> HIDE DEF new
<1>4. request'[r] = new /\ lookup' = lookup
  BY <1>3 DEF Becomes, IInv, TypeOK, Alone, reputationVars
<1>5. RequestOK(r)'
  <2>1. HandlerOK(r)'
    BY <1>1, <1>2, <1>4 DEF RequestOK, HandlerOK, Told, BeforeScan, AfterScan
  <2>2. VerdictOK(r)'
    BY <1>1, <1>2, <1>4 DEF RequestOK, HandlerOK, VerdictOK, IsURL, Told, BeforeScan, AfterScan, EarlyCodes
  <2>3. StorageOK(r)'
    BY <1>1, <1>2, <1>4 DEF RequestOK, HandlerOK, StorageOK, Told, BeforeScan, AfterScan, HandlerStates
  <2>4. TempOK(r)'
    BY <1>1, <1>2, <1>4 DEF RequestOK, TempOK, BeforeScan, AfterScan
  <2> QED BY <2>1, <2>2, <2>3, <2>4 DEF RequestOK
<1> QED BY <1>2, <1>3, <1>5, LonelyStep
-----------------------------------------------------------------------------
(* The steps of a handler *)

LEMMA ArriveKeeps ==
  ASSUME IInv, NEW r \in Requests, Arrive(r)
  PROVE  IInv'
<1>1. PICK t \in Tokens : LET auth == AuthMiddleware(jwks, issuerSet, t)
                          IN  IF auth.code = "none"
                              THEN Becomes(r, [request[r] EXCEPT !.at = "form",
                                                                 !.tenant = auth.tenant])
                              ELSE Answer(r, auth.code)
  BY DEF Arrive
<1>2. /\ request[r].at = "new" /\ phase = "serving" /\ Alone
      /\ request[r] \in HandlerStates /\ RequestOK(r) /\ jwks \in BOOLEAN /\ issuerSet \in BOOLEAN
  BY DEF Arrive, IInv, TypeOK
<1> DEFINE tenant == AuthMiddleware(jwks, issuerSet, t).tenant
           new == [request[r] EXCEPT !.at = "form", !.tenant = tenant]
<1>3. CASE AuthMiddleware(jwks, issuerSet, t).code = "none"
  <2>1. jwks /\ issuerSet /\ tenant \in Tenants
    BY <1>2, <1>3, LetThrough
  <2>2. Becomes(r, new)
    BY <1>1, <1>3
  <2> HIDE DEF tenant
  <2>3. /\ new \in HandlerStates /\ new.at = "form" /\ new.tenant = tenant
        /\ new.temp = request[r].temp /\ new.code = request[r].code
        /\ new.scan = request[r].scan /\ new.file = request[r].file
        /\ new.path = request[r].path /\ new.link = request[r].link /\ new.audit = request[r].audit
    BY <1>2, <2>1 DEF HandlerStates, Stages
  <2> HIDE DEF new
  <2>4. request'[r] = new /\ lookup' = lookup
    BY <1>2, <2>2 DEF Becomes, IInv, TypeOK, Alone, reputationVars
  <2>5. RequestOK(r)'
    <3>1. HandlerOK(r)'
      BY <1>2, <2>3, <2>4 DEF RequestOK, HandlerOK, Told, BeforeScan, AfterScan
    <3>2. VerdictOK(r)'
      BY <1>2, <2>3, <2>4 DEF RequestOK, HandlerOK, VerdictOK, IsURL, Told, BeforeScan, AfterScan
    <3>3. StorageOK(r)'
      BY <1>2, <2>3, <2>4 DEF RequestOK, HandlerOK, StorageOK, Told, BeforeScan, AfterScan
    <3>4. TempOK(r)'
      BY <1>2, <2>3, <2>4 DEF RequestOK, TempOK, BeforeScan, AfterScan
    <3> QED BY <3>1, <3>2, <3>3, <3>4 DEF RequestOK
  <2> QED BY <1>2, <2>1, <2>2, <2>3, <2>5, LonelyStep
<1>4. CASE AuthMiddleware(jwks, issuerSet, t).code # "none"
  <2> DEFINE code == AuthMiddleware(jwks, issuerSet, t).code
  <2>1. code \in {"401", "403", "500"} /\ Answer(r, code)
    BY <1>1, <1>2, <1>4, KeptOut
  <2> HIDE DEF code
  <2> QED BY <1>2, <2>1, EarlyAnswer DEF BeforeScan, EarlyCodes
<1> QED BY <1>3, <1>4

\* A handler at work has what it arrived with.
LEMMA AtWork ==
  ASSUME IInv, NEW r \in Requests, InFlight(r)
  PROVE  phase = "serving" /\ jwks /\ issuerSet /\ request[r].tenant \in Tenants
BY DEF IInv, HandledIsAuthorized

LEMMA ReadKeeps ==
  ASSUME IInv, NEW r \in Requests, ReadForm(r) \/ FetchURL(r)
  PROVE  IInv'
<1>1. /\ request[r].at = "form" /\ Alone
      /\ \/ \E code \in EarlyCodes : /\ Answer(r, code)
                                     /\ code = "400" => IsURL(r)
                                     /\ code = "200" => ~IsURL(r)
         \/ Becomes(r, [request[r] EXCEPT !.at = "copy", !.temp = TRUE])
      /\ request[r] \in HandlerStates /\ RequestOK(r)
  BY DEF ReadForm, FetchURL, CreateTemp, EarlyCodes, IInv, TypeOK
<1>2. ASSUME NEW code \in EarlyCodes, Answer(r, code),
             code = "400" => IsURL(r), code = "200" => ~IsURL(r)
      PROVE  IInv'
  BY <1>1, <1>2, EarlyAnswer DEF BeforeScan
<1>3. CASE Becomes(r, [request[r] EXCEPT !.at = "copy", !.temp = TRUE])
  <2> DEFINE new == [request[r] EXCEPT !.at = "copy", !.temp = TRUE]
  <2>1. /\ new \in HandlerStates /\ new.at = "copy" /\ new.tenant = request[r].tenant
        /\ new.temp /\ new.code = request[r].code
        /\ new.scan = request[r].scan /\ new.file = request[r].file
        /\ new.path = request[r].path /\ new.link = request[r].link /\ new.audit = request[r].audit
    BY <1>1 DEF HandlerStates, Stages
  <2>2. Becomes(r, new)
    BY <1>3
  <2> HIDE DEF new
  <2>3. request'[r] = new /\ lookup' = lookup
    BY <1>1, <2>2 DEF Becomes, IInv, TypeOK, Alone, reputationVars
  <2>4. RequestOK(r)'
    <3>1. HandlerOK(r)'
      BY <1>1, <2>1, <2>3 DEF RequestOK, HandlerOK, Told, BeforeScan, AfterScan
    <3>2. VerdictOK(r)'
      BY <1>1, <2>1, <2>3 DEF RequestOK, HandlerOK, VerdictOK, IsURL, Told, BeforeScan, AfterScan
    <3>3. StorageOK(r)'
      BY <1>1, <2>1, <2>3 DEF RequestOK, HandlerOK, StorageOK, Told, BeforeScan, AfterScan
    <3>4. TempOK(r)'
      BY <1>1, <2>1, <2>3 DEF RequestOK, TempOK, BeforeScan, AfterScan
    <3> QED BY <3>1, <3>2, <3>3, <3>4 DEF RequestOK
  <2> QED BY <1>1, <2>1, <2>2, <2>4, AtWork, LonelyStep DEF InFlight
<1> QED BY <1>1, <1>2, <1>3

\* A handler goes on to its next stage and changes nothing else.
LEMMA GoesOn ==
  ASSUME IInv, NEW r \in Requests, NEW there \in {"scan"} \cup AfterScan, Goes(r, there), Alone,
         InFlight(r), request[r].temp,
         RequestOK(r) /\ [request[r] EXCEPT !.at = there] = request'[r]
           /\ lookup' = lookup => HandlerOK(r)'
  PROVE  IInv'
<1> DEFINE new == [request[r] EXCEPT !.at = there]
<1>1. request[r] \in HandlerStates /\ RequestOK(r) /\ Becomes(r, new)
  BY DEF IInv, TypeOK, Goes
<1>2. /\ new \in HandlerStates /\ new.at = there /\ new.tenant = request[r].tenant
      /\ new.temp /\ new.code = request[r].code
      /\ new.scan = request[r].scan /\ new.file = request[r].file
      /\ new.path = request[r].path /\ new.link = request[r].link /\ new.audit = request[r].audit
  BY <1>1 DEF HandlerStates, Stages, AfterScan
<1> HIDE DEF new
<1>3. request'[r] = new /\ lookup' = lookup
  BY <1>1 DEF Becomes, IInv, TypeOK, Alone, reputationVars
<1>4. HandlerOK(r)'
  BY <1>1, <1>3 DEF new
<1>5. RequestOK(r)'
  <2>1. HandlerOK(r)'
    BY <1>1, <1>2, <1>3, <1>4 DEF RequestOK, HandlerOK, Told, BeforeScan, AfterScan
  <2>2. VerdictOK(r)'
    BY <1>1, <1>2, <1>3, <1>4 DEF RequestOK, HandlerOK, VerdictOK, IsURL, Told, BeforeScan, AfterScan
  <2>3. StorageOK(r)'
    BY <1>1, <1>2, <1>3, <1>4 DEF RequestOK, HandlerOK, StorageOK, Told, BeforeScan, AfterScan
  <2>4. TempOK(r)'
    BY <1>1, <1>2, <1>3, <1>4 DEF RequestOK, TempOK, BeforeScan, AfterScan
  <2> QED BY <2>1, <2>2, <2>3, <2>4 DEF RequestOK
<1> QED BY <1>1, <1>2, <1>5, AtWork, LonelyStep

LEMMA CopyKeeps ==
  ASSUME IInv, NEW r \in Requests, CopyBody(r)
  PROVE  IInv'
<1>1. /\ request[r].at = "copy" /\ Alone /\ request[r] \in HandlerStates /\ RequestOK(r)
      /\ (\E code \in {"413", "415", "500"} : Answer(r, code)) \/ Goes(r, "scan")
  BY DEF CopyBody, IInv, TypeOK
<1>2. ASSUME NEW code \in {"413", "415", "500"}, Answer(r, code) PROVE IInv'
  BY <1>1, <1>2, EarlyAnswer DEF BeforeScan, EarlyCodes
<1>3. CASE Goes(r, "scan")
  <2>1. request[r].temp /\ InFlight(r)
    BY <1>1 DEF RequestOK, TempOK, InFlight
  <2>2. RequestOK(r) /\ [request[r] EXCEPT !.at = "scan"] = request'[r]
           /\ lookup' = lookup => HandlerOK(r)'
    BY <1>1 DEF RequestOK, HandlerOK, BeforeScan, AfterScan, HandlerStates
  <2> QED BY <1>1, <1>3, <2>1, <2>2, GoesOn
<1> QED BY <1>1, <1>2, <1>3
\* What is known of a handler that stores or answers.
LEMMA Storing ==
  ASSUME IInv, NEW r \in Requests, request[r].at \in AfterScan
  PROVE  /\ request[r] \in HandlerStates /\ RequestOK(r) /\ InFlight(r) /\ request[r].temp
         /\ request[r].code = "none" /\ request[r].scan \in Statuses /\ Told(r)
BY DEF IInv, TypeOK, RequestOK, HandlerOK, TempOK, InFlight, BeforeScan, AfterScan

\* The buckets, by status.
LEMMA Buckets ==
  /\ bucketFor("OK") = "clean" /\ bucketFor("FOUND") = "quarantine"
  /\ bucketFor("ERROR") = "none" /\ bucketFor("PARSE ERROR") = "none"
BY DEF bucketFor, formatStatus

LEMMA PutKeeps ==
  ASSUME IInv, NEW r \in Requests, PutFile(r)
  PROVE  IInv'
<1>1. /\ request[r].at = "put" /\ request[r].at \in AfterScan /\ Alone
      /\ \/ Goes(r, "answer")
         \/ Becomes(r, [request[r] EXCEPT !.at = "presign", !.file = bucketFor(request[r].scan)])
  BY DEF PutFile, AfterScan
<1>2. request[r] \in HandlerStates /\ RequestOK(r) /\ InFlight(r) /\ request[r].temp
  BY <1>1, Storing
<1>3. CASE Goes(r, "answer")
  <2>1. RequestOK(r) /\ [request[r] EXCEPT !.at = "answer"] = request'[r]
           /\ lookup' = lookup => HandlerOK(r)'
    BY <1>1, <1>2 DEF RequestOK, HandlerOK, BeforeScan, AfterScan, HandlerStates, Told
  <2> QED BY <1>1, <1>2, <1>3, <2>1, GoesOn DEF AfterScan
<1>4. CASE Becomes(r, [request[r] EXCEPT !.at = "presign", !.file = bucketFor(request[r].scan)])
  <2> DEFINE bucket == bucketFor(request[r].scan)
             new == [request[r] EXCEPT !.at = "presign", !.file = bucket]
  <2>1. \/ request[r].scan = "OK" /\ bucket = "clean"
        \/ request[r].scan = "FOUND" /\ bucket = "quarantine"
    BY <1>1, <1>2, Buckets DEF RequestOK, HandlerOK
  <2>2. Becomes(r, new)
    BY <1>4
  <2>3. /\ new \in HandlerStates /\ new.at = "presign" /\ new.tenant = request[r].tenant
        /\ new.temp /\ new.code = request[r].code
        /\ new.scan = request[r].scan /\ new.file = bucket
        /\ new.path = request[r].path /\ new.link = request[r].link /\ new.audit = request[r].audit
    <3> HIDE DEF bucket
    <3> QED BY <1>2, <2>1 DEF HandlerStates, Stages
  <2> HIDE DEF new
  <2>4. request'[r] = new /\ lookup' = lookup
    BY <1>1, <2>2 DEF Becomes, IInv, TypeOK, Alone, reputationVars
  <2>5. HandlerOK(r)'
    BY <1>1, <1>2, <2>1, <2>3, <2>4, Buckets
       DEF RequestOK, HandlerOK, Told, BeforeScan, AfterScan
  <2>6. VerdictOK(r)' /\ TempOK(r)'
    BY <2>3, <2>4 DEF VerdictOK, TempOK, IsURL
  <2>7. StorageOK(r)'
    BY <1>1, <1>2, <2>1, <2>3, <2>4
       DEF RequestOK, HandlerOK, StorageOK, Told, BeforeScan, AfterScan
  <2> QED BY <1>1, <1>2, <2>2, <2>3, <2>5, <2>6, <2>7, AtWork, LonelyStep DEF RequestOK
<1> QED BY <1>1, <1>3, <1>4

LEMMA PresignKeeps ==
  ASSUME IInv, NEW r \in Requests, Presign(r)
  PROVE  IInv'
<1>1. /\ request[r].at = "presign" /\ request[r].at \in AfterScan /\ Alone
      /\ \/ Goes(r, "answer")
         \/ /\ request[r].file = "quarantine"
            /\ Becomes(r, [request[r] EXCEPT !.at = "answer", !.path = TRUE])
         \/ /\ request[r].file = "clean"
            /\ Becomes(r, [request[r] EXCEPT !.at = "audit", !.path = TRUE, !.link = TRUE])
  BY DEF Presign, AfterScan
<1>2. request[r] \in HandlerStates /\ RequestOK(r) /\ InFlight(r) /\ request[r].temp
  BY <1>1, Storing
<1>3. CASE Goes(r, "answer")
  <2>1. RequestOK(r) /\ [request[r] EXCEPT !.at = "answer"] = request'[r]
           /\ lookup' = lookup => HandlerOK(r)'
    BY <1>1, <1>2 DEF RequestOK, HandlerOK, BeforeScan, AfterScan, HandlerStates, Told
  <2> QED BY <1>1, <1>2, <1>3, <2>1, GoesOn DEF AfterScan
<1>4. CASE /\ request[r].file = "clean"
           /\ Becomes(r, [request[r] EXCEPT !.at = "audit", !.path = TRUE, !.link = TRUE])
  <2> DEFINE new == [request[r] EXCEPT !.at = "audit", !.path = TRUE, !.link = TRUE]
  <2>1. /\ new \in HandlerStates /\ new.at = "audit" /\ new.tenant = request[r].tenant
        /\ new.temp /\ new.code = request[r].code
        /\ new.scan = request[r].scan /\ new.file = "clean"
        /\ new.path /\ new.link /\ new.audit = request[r].audit
    BY <1>2, <1>4 DEF HandlerStates, Stages
  <2>2. Becomes(r, new)
    BY <1>4
  <2> HIDE DEF new
  <2>3. request'[r] = new /\ lookup' = lookup
    BY <1>1, <2>2 DEF Becomes, IInv, TypeOK, Alone, reputationVars
  <2>4. RequestOK(r)'
    <3>1. HandlerOK(r)'
      BY <1>1, <1>2, <1>4, <2>1, <2>3 DEF RequestOK, HandlerOK, Told, BeforeScan, AfterScan
    <3>2. VerdictOK(r)'
      BY <1>1, <1>2, <1>4, <2>1, <2>3 DEF RequestOK, HandlerOK, VerdictOK, IsURL, Told, BeforeScan, AfterScan
    <3>3. StorageOK(r)'
      BY <1>1, <1>2, <1>4, <2>1, <2>3 DEF RequestOK, HandlerOK, StorageOK, Told, BeforeScan, AfterScan
    <3>4. TempOK(r)'
      BY <1>1, <1>2, <1>4, <2>1, <2>3 DEF RequestOK, TempOK, BeforeScan, AfterScan
    <3> QED BY <3>1, <3>2, <3>3, <3>4 DEF RequestOK
  <2> QED BY <1>1, <1>2, <2>1, <2>2, <2>4, AtWork, LonelyStep
<1>5. CASE /\ request[r].file = "quarantine"
           /\ Becomes(r, [request[r] EXCEPT !.at = "answer", !.path = TRUE])
  <2> DEFINE new == [request[r] EXCEPT !.at = "answer", !.path = TRUE]
  <2>1. /\ new \in HandlerStates /\ new.at = "answer" /\ new.tenant = request[r].tenant
        /\ new.temp /\ new.code = request[r].code
        /\ new.scan = request[r].scan /\ new.file = "quarantine"
        /\ new.path /\ new.link = request[r].link /\ new.audit = request[r].audit
    BY <1>2, <1>5 DEF HandlerStates, Stages
  <2>2. Becomes(r, new)
    BY <1>5
  <2> HIDE DEF new
  <2>3. request'[r] = new /\ lookup' = lookup
    BY <1>1, <2>2 DEF Becomes, IInv, TypeOK, Alone, reputationVars
  <2>4. RequestOK(r)'
    <3>1. HandlerOK(r)'
      BY <1>1, <1>2, <1>5, <2>1, <2>3 DEF RequestOK, HandlerOK, Told, BeforeScan, AfterScan
    <3>2. VerdictOK(r)'
      BY <1>1, <1>2, <1>5, <2>1, <2>3 DEF RequestOK, HandlerOK, VerdictOK, IsURL, Told, BeforeScan, AfterScan
    <3>3. StorageOK(r)'
      BY <1>1, <1>2, <1>5, <2>1, <2>3 DEF RequestOK, HandlerOK, StorageOK, Told, BeforeScan, AfterScan
    <3>4. TempOK(r)'
      BY <1>1, <1>2, <1>5, <2>1, <2>3 DEF RequestOK, TempOK, BeforeScan, AfterScan
    <3> QED BY <3>1, <3>2, <3>3, <3>4 DEF RequestOK
  <2> QED BY <1>1, <1>2, <2>1, <2>2, <2>4, AtWork, LonelyStep
<1> QED BY <1>1, <1>3, <1>4, <1>5

LEMMA AuditKeeps ==
  ASSUME IInv, NEW r \in Requests, WriteAudit(r)
  PROVE  IInv'
<1>1. /\ request[r].at = "audit" /\ request[r].at \in AfterScan /\ Alone
      /\ \/ Goes(r, "answer")
         \/ Becomes(r, [request[r] EXCEPT !.at = "answer", !.audit = TRUE])
  BY DEF WriteAudit, AfterScan
<1>2. request[r] \in HandlerStates /\ RequestOK(r) /\ InFlight(r) /\ request[r].temp
  BY <1>1, Storing
<1>3. CASE Goes(r, "answer")
  <2>1. RequestOK(r) /\ [request[r] EXCEPT !.at = "answer"] = request'[r]
           /\ lookup' = lookup => HandlerOK(r)'
    BY <1>1, <1>2 DEF RequestOK, HandlerOK, BeforeScan, AfterScan, HandlerStates, Told
  <2> QED BY <1>1, <1>2, <1>3, <2>1, GoesOn DEF AfterScan
<1>4. CASE Becomes(r, [request[r] EXCEPT !.at = "answer", !.audit = TRUE])
  <2> DEFINE new == [request[r] EXCEPT !.at = "answer", !.audit = TRUE]
  <2>1. /\ new \in HandlerStates /\ new.at = "answer" /\ new.tenant = request[r].tenant
        /\ new.temp /\ new.code = request[r].code
        /\ new.scan = request[r].scan /\ new.file = request[r].file
        /\ new.path = request[r].path /\ new.link = request[r].link /\ new.audit
    BY <1>2 DEF HandlerStates, Stages
  <2>2. Becomes(r, new)
    BY <1>4
  <2> HIDE DEF new
  <2>3. request'[r] = new /\ lookup' = lookup
    BY <1>1, <2>2 DEF Becomes, IInv, TypeOK, Alone, reputationVars
  <2>4. RequestOK(r)'
    <3>1. HandlerOK(r)'
      BY <1>1, <1>2, <2>1, <2>3 DEF RequestOK, HandlerOK, Told, BeforeScan, AfterScan
    <3>2. VerdictOK(r)'
      BY <1>1, <1>2, <2>1, <2>3 DEF RequestOK, HandlerOK, VerdictOK, IsURL, Told, BeforeScan, AfterScan
    <3>3. StorageOK(r)'
      BY <1>1, <1>2, <2>1, <2>3 DEF RequestOK, HandlerOK, StorageOK, Told, BeforeScan, AfterScan
    <3>4. TempOK(r)'
      BY <1>1, <1>2, <2>1, <2>3 DEF RequestOK, TempOK, BeforeScan, AfterScan
    <3> QED BY <3>1, <3>2, <3>3, <3>4 DEF RequestOK
  <2> QED BY <1>1, <1>2, <2>1, <2>2, <2>4, AtWork, LonelyStep
<1> QED BY <1>1, <1>3, <1>4

LEMMA AnswerKeeps ==
  ASSUME IInv, NEW r \in Requests, WriteAnswer(r)
  PROVE  IInv'
<1> DEFINE code == StatusCode(request[r].scan)
           new == [Leave(r) EXCEPT !.code = code]
<1>1. /\ request[r].at = "answer" /\ request[r].at \in AfterScan /\ Alone /\ Becomes(r, new)
  BY DEF WriteAnswer, AfterScan
<1>2. /\ request[r] \in HandlerStates /\ RequestOK(r) /\ request[r].scan \in Statuses /\ Told(r)
  BY <1>1, Storing
<1>3. /\ code \in {"200", "406", "400", "412"}
      /\ code = "200" <=> request[r].scan = "OK"
      /\ code = "406" <=> request[r].scan = "FOUND"
      /\ code = "400" <=> request[r].scan = "ERROR"
      /\ code = "412" <=> request[r].scan = "PARSE ERROR"
  BY <1>2 DEF StatusCode, Statuses
<1> HIDE DEF code
<1>4. /\ new \in HandlerStates /\ new.at = "done" /\ ~new.temp /\ new.code = code
      /\ new.scan = request[r].scan /\ new.file = request[r].file
      /\ new.path = request[r].path /\ new.link = request[r].link /\ new.audit = request[r].audit
  BY <1>2, <1>3 DEF Leave, HandlerStates, Codes, Stages
<1> HIDE DEF new
<1>5. request'[r] = new /\ lookup' = lookup
  BY <1>1 DEF Becomes, IInv, TypeOK, Alone, reputationVars
<1>6. RequestOK(r)'
  <2>1. HandlerOK(r)'
    BY <1>2, <1>3, <1>4, <1>5 DEF RequestOK, HandlerOK, Told, BeforeScan, AfterScan
  <2>2. VerdictOK(r)'
    BY <1>2, <1>3, <1>4, <1>5 DEF RequestOK, HandlerOK, VerdictOK, IsURL, Told, BeforeScan, AfterScan
  <2>3. StorageOK(r)'
    BY <1>2, <1>3, <1>4, <1>5 DEF RequestOK, HandlerOK, StorageOK, Told, BeforeScan, AfterScan, HandlerStates
  <2>4. TempOK(r)'
    BY <1>2, <1>3, <1>4, <1>5 DEF RequestOK, TempOK, BeforeScan, AfterScan
  <2> QED BY <2>1, <2>2, <2>3, <2>4 DEF RequestOK
<1> QED BY <1>1, <1>4, <1>6, LonelyStep
\* What a scan that ends leaves of the lookup, and what its result means.
LEMMA ScannedIs ==
  ASSUME IInv, NEW r \in Requests, NEW result \in ScanOutcomes, Scanned(r, result)
  PROVE  /\ request[r].at = "scan" /\ InFlight(r) /\ request[r] \in HandlerStates /\ RequestOK(r)
         /\ UNCHANGED <<now, known, cache>> /\ LookupOK(r)'
         /\ lookup' \in [Requests -> Lookups]
         /\ \A s \in Requests \ {r} : lookup'[s] = lookup[s]
         /\ lookup'[r].answer = "signature" => result \in {"FOUND", "clamErr"}
<1>1. PICK engines \in ScanOutcomes : result = ScanResult(engines, r)
  BY DEF Scanned
<1> DEFINE kept == IF lookup[r].answer = "signature" THEN lookup[r].answer ELSE "none"
<1>2. /\ request[r].at = "scan" /\ lookup[r].at = "done"
      /\ lookup' = [lookup EXCEPT ![r].answer = kept]
      /\ UNCHANGED <<now, known, cache>>
      /\ lookup \in [Requests -> Lookups] /\ request[r] \in HandlerStates /\ RequestOK(r)
  BY DEF Scanned, IInv, TypeOK
<1>3. kept \in Answers \cup {"none"} /\ (kept = "signature" => lookup[r].answer = "signature")
  BY DEF Answers
<1> HIDE DEF kept
<1>4. /\ lookup' \in [Requests -> Lookups]
      /\ \A s \in Requests \ {r} : lookup'[s] = lookup[s]
      /\ lookup'[r].answer = kept /\ lookup'[r].at = "done"
  BY <1>2, <1>3 DEF Lookups
<1>5. LookupOK(r)'
  BY <1>4 DEF LookupOK, Running
<1>6. kept = "signature" => result \in {"FOUND", "clamErr"}
  BY <1>1, <1>3 DEF ScanResult
<1> QED BY <1>2, <1>4, <1>5, <1>6 DEF InFlight

LEMMA ScanKeeps ==
  ASSUME IInv, NEW r \in Requests, ScanFails(r) \/ ScanUnparsed(r) \/ ScanEnds(r)
  PROVE  IInv'
<1>1. ASSUME NEW result \in {"clamErr", "PARSE ERROR"}, NEW code \in {"413", "500"}, Scanned(r, result),
             code = "413" <=> result = "PARSE ERROR", code = "413" => ~IsURL(r),
             Becomes(r, [Leave(r) EXCEPT !.scan = result, !.code = code])
      PROVE  IInv'
  <2> DEFINE new == [Leave(r) EXCEPT !.scan = result, !.code = code]
  <2>1. result \in ScanOutcomes
    BY DEF ScanOutcomes, Statuses
  <2>2. /\ request[r].at = "scan" /\ request[r] \in HandlerStates /\ RequestOK(r)
        /\ lookup'[r].answer = "signature" => result \in {"FOUND", "clamErr"}
    BY <1>1, <2>1, ScannedIs
  <2>3. /\ new \in HandlerStates /\ new.at = "done" /\ ~new.temp /\ new.code = code
        /\ new.scan = result /\ new.file = request[r].file
        /\ new.path = request[r].path /\ new.link = request[r].link /\ new.audit = request[r].audit
    BY <2>1, <2>2 DEF Leave, HandlerStates, Codes, Stages
  <2> HIDE DEF new
  <2>4. request'[r] = new /\ Becomes(r, new)
    BY <1>1 DEF Becomes, IInv, TypeOK, new
  <2>5. RequestOK(r)'
    <3>1. HandlerOK(r)'
      BY <1>1, <2>2, <2>3, <2>4 DEF RequestOK, HandlerOK, Told, BeforeScan, AfterScan
    <3>2. VerdictOK(r)'
      BY <1>1, <2>2, <2>3, <2>4 DEF RequestOK, HandlerOK, VerdictOK, IsURL, Told, BeforeScan, AfterScan
    <3>3. StorageOK(r)'
      BY <1>1, <2>2, <2>3, <2>4 DEF RequestOK, HandlerOK, StorageOK, Told, BeforeScan, AfterScan
    <3>4. TempOK(r)'
      BY <1>1, <2>2, <2>3, <2>4 DEF RequestOK, TempOK, BeforeScan, AfterScan
    <3> QED BY <3>1, <3>2, <3>3, <3>4 DEF RequestOK
  <2> QED BY <1>1, <2>1, <2>3, <2>4, <2>5, ScannedIs, HandlerStep
<1>2. ASSUME NEW result \in Statuses, Scanned(r, result),
             Becomes(r, [request[r] EXCEPT !.scan = result,
                           !.at = IF bucketFor(result) = "none" THEN "answer" ELSE "put"])
      PROVE  IInv'
  <2> DEFINE there == IF bucketFor(result) = "none" THEN "answer" ELSE "put"
             new == [request[r] EXCEPT !.scan = result, !.at = there]
  <2>1. result \in ScanOutcomes
    BY DEF ScanOutcomes
  <2>2. /\ request[r].at = "scan" /\ request[r] \in HandlerStates /\ RequestOK(r) /\ InFlight(r)
        /\ lookup'[r].answer = "signature" => result = "FOUND"
    BY <1>2, <2>1, ScannedIs DEF Statuses
  <2>3. there \in {"answer", "put"} /\ (there = "put" => result \in {"OK", "FOUND"})
    BY Buckets DEF Statuses
  <2>4. Becomes(r, new)
    BY <1>2
  <2> HIDE DEF there
  <2>5. /\ new \in HandlerStates /\ new.at = there /\ new.temp = request[r].temp
        /\ new.tenant = request[r].tenant /\ new.code = request[r].code
        /\ new.scan = result /\ new.file = request[r].file
        /\ new.path = request[r].path /\ new.link = request[r].link /\ new.audit = request[r].audit
    BY <2>1, <2>2, <2>3 DEF HandlerStates, Stages
  <2> HIDE DEF new
  <2>6. request'[r] = new
    BY <2>4 DEF Becomes, IInv, TypeOK
  <2>7. RequestOK(r)'
    <3>1. HandlerOK(r)'
      BY <2>2, <2>3, <2>5, <2>6 DEF RequestOK, HandlerOK, Told, BeforeScan, AfterScan
    <3>2. VerdictOK(r)'
      BY <2>2, <2>3, <2>5, <2>6 DEF RequestOK, HandlerOK, VerdictOK, IsURL, Told, BeforeScan, AfterScan
    <3>3. StorageOK(r)'
      BY <2>2, <2>3, <2>5, <2>6 DEF RequestOK, HandlerOK, StorageOK, Told, BeforeScan, AfterScan
    <3>4. TempOK(r)'
      BY <2>2, <2>3, <2>5, <2>6 DEF RequestOK, TempOK, BeforeScan, AfterScan
    <3> QED BY <3>1, <3>2, <3>3, <3>4 DEF RequestOK
  <2> QED BY <1>2, <2>1, <2>2, <2>4, <2>5, <2>7, AtWork, ScannedIs, HandlerStep
<1>3. CASE ScanFails(r)
  BY <1>1, <1>3 DEF ScanFails
<1>4. CASE ScanUnparsed(r)
  BY <1>1, <1>4 DEF ScanUnparsed, IsUnparsed
<1>5. CASE ScanEnds(r)
  BY <1>2, <1>5 DEF ScanEnds
<1> QED BY <1>3, <1>4, <1>5

-----------------------------------------------------------------------------
(* The hash lookups *)

\* When a lookup ends, and its answer is "not found", the hash was unknown within
\* the life of an entry and of one call.
Recent(r) ==
  lookup'[r].at = "done" /\ lookup[r].at # "done" /\ lookup'[r].answer = "not found"
    => now <= known + TTL + Timeout

LEMMA ClockTyped ==
  ASSUME TypeOK
  PROVE  /\ now \in Nat /\ known \in Nat /\ TTL \in Nat /\ Timeout \in Nat /\ MaxTime \in Nat
         /\ now <= MaxTime /\ MaxTime + TTL \in Nat
         /\ cache \in Entries /\ cache.expires \in Nat
         /\ cache # NoEntry => cache.value \in Answers
         /\ \A r \in Requests : lookup[r] \in Lookups /\ lookup[r].since \in Nat
<1>1. cache.expires \in Nat /\ cache \in Entries /\ (cache # NoEntry => cache.value \in Answers)
  BY ReputationAssumption DEF TypeOK, Entries, NoEntry
<1>2. \A r \in Requests : lookup[r] \in Lookups /\ lookup[r].since \in Nat
  BY ReputationAssumption DEF TypeOK, Lookups
<1> QED BY <1>1, <1>2, ReputationAssumption DEF TypeOK, Never

\* The state a lookup may be in after a step of its own.
Young(new) ==
  /\ new.at \in {"asking", "told"} => new.since <= now /\ now <= new.since + Timeout
  /\ new.at = "told" =>
       /\ new.answer \in Answers \ {"failed"}
       /\ new.answer = "not found" => new.since <= known
  /\ new.at = "done" /\ new.answer = "not found" => now <= known + TTL + Timeout

LEMMA LookUpIs ==
  ASSUME IInv, NEW r \in Requests, LookUp(r)
  PROVE  \E new \in Lookups : lookup' = [lookup EXCEPT ![r] = new] /\ Young(new)
<1>1. TypeOK /\ CacheOK /\ LookupOK(r)
  BY DEF IInv
<1>2. /\ now \in Nat /\ known \in Nat /\ TTL \in Nat /\ Timeout \in Nat /\ MaxTime \in Nat
      /\ now <= MaxTime /\ cache.expires \in Nat /\ lookup[r].since \in Nat
  BY <1>1, ClockTyped
<1>3. (cache # NoEntry => cache.value \in Answers) /\ lookup[r] \in Lookups
  BY <1>1, ClockTyped
<1>4. ASSUME NEW answer \in Answers \cup {"none"}, Ends(r, answer),
             answer = "not found" => now <= known + TTL + Timeout
      PROVE  \E new \in Lookups : lookup' = [lookup EXCEPT ![r] = new] /\ Young(new)
  <2> DEFINE new == [at |-> "done", since |-> 0, answer |-> answer]
  <2>1. 0 \in 0..MaxTime
    BY <1>2
  <2>2. new \in Lookups /\ Young(new)
    BY <1>4, <2>1 DEF Lookups, Young
  <2> QED BY <1>4, <2>2 DEF Ends
<1>5. CASE Begin(r)
  <2>1. CASE Ends(r, "failed")
    BY <1>4, <2>1 DEF Answers
  <2>2. CASE cache # NoEntry /\ Ends(r, cache.value)
    <3>1. ASSUME cache.value = "not found" PROVE now <= known + TTL + Timeout
      <4>1. now <= cache.expires /\ cache.expires <= known + Timeout + TTL
        BY <1>1, <2>2, <3>1 DEF CacheOK
      <4> QED BY <1>2, <4>1
    <3> QED BY <1>3, <1>4, <2>2, <3>1
  <2>3. CASE lookup' = [lookup EXCEPT ![r] = [at |-> "asking", since |-> now, answer |-> "none"]]
    <3> DEFINE new == [at |-> "asking", since |-> now, answer |-> "none"]
    <3>1. now \in 0..MaxTime /\ now <= now /\ now <= now + Timeout
      BY <1>2
    <3>2. new \in Lookups /\ Young(new)
      BY <3>1 DEF Lookups, Young
    <3> QED BY <2>3, <3>2
  <2> QED BY <1>5, <2>1, <2>2, <2>3 DEF Begin
<1>6. CASE Tell(r)
  <2>1. PICK answer \in Answers \ {"failed"} :
          /\ answer = "not found" => ~(known <= now)
          /\ lookup' = [lookup EXCEPT ![r].at = "told", ![r].answer = answer]
    BY <1>6 DEF Tell, Answers
  <2>2. /\ lookup[r].at = "asking" /\ lookup[r].since <= now
        /\ now <= lookup[r].since + Timeout
    BY <1>1, <1>6 DEF Tell, LookupOK, Running
  <2> DEFINE new == [lookup[r] EXCEPT !.at = "told", !.answer = answer]
  <2>4. new \in Lookups /\ new.at = "told" /\ new.answer = answer /\ new.since = lookup[r].since
    BY <1>3 DEF Lookups
  <2>5. lookup' = [lookup EXCEPT ![r] = new]
    BY <1>1, <2>1 DEF TypeOK
  <2>6. ASSUME answer = "not found" PROVE lookup[r].since <= known
    <3>1. lookup[r].since <= now /\ ~(known <= now)
      BY <2>1, <2>2, <2>6
    <3> QED BY <1>2, <3>1
  <2> HIDE DEF new
  <2> QED BY <2>2, <2>4, <2>5, <2>6 DEF Young
<1>7. CASE TellFails(r)
  BY <1>4, <1>7 DEF TellFails, Answers
<1>8. CASE Store(r)
  <2>1. lookup[r].at = "told" /\ Ends(r, lookup[r].answer)
    BY <1>8 DEF Store
  <2>2. /\ lookup[r].since <= now /\ now <= lookup[r].since + Timeout
        /\ lookup[r].answer \in Answers
        /\ lookup[r].answer = "not found" => lookup[r].since <= known
    BY <1>1, <2>1 DEF LookupOK, Running
  <2>3. ASSUME lookup[r].answer = "not found" PROVE now <= known + TTL + Timeout
    <3>1. now <= lookup[r].since + Timeout /\ lookup[r].since <= known
      BY <2>2, <2>3
    <3> QED BY <1>2, <3>1
  <2> QED BY <1>4, <2>1, <2>2, <2>3
<1> QED BY <1>5, <1>6, <1>7, <1>8 DEF LookUp

\* The entry after a lookup's step: the one before it, or what was told just now.
LEMMA EntryIs ==
  ASSUME IInv, NEW r \in Requests, LookUp(r)
  PROVE  cache' \in Entries /\ CacheOK' /\ UNCHANGED <<now, known>>
<1>1. TypeOK /\ CacheOK /\ LookupOK(r) /\ UNCHANGED <<now, known>>
  BY DEF IInv, LookUp, Begin, Tell, TellFails, Store
<1>2. /\ now \in Nat /\ known \in Nat /\ TTL \in Nat /\ Timeout \in Nat /\ MaxTime \in Nat
      /\ now <= MaxTime /\ cache \in Entries /\ lookup[r].since \in Nat
  BY <1>1, ClockTyped
<1>3. CASE UNCHANGED cache
  BY <1>1, <1>2, <1>3 DEF CacheOK
<1>4. CASE Store(r) /\ cache' = [value |-> lookup[r].answer, expires |-> now + TTL]
  <2>1. /\ now <= lookup[r].since + Timeout
        /\ lookup[r].answer \in Answers \ {"failed"}
        /\ lookup[r].answer = "not found" => lookup[r].since <= known
    BY <1>1, <1>4 DEF Store, LookupOK, Running
  <2>2. now + TTL \in 0..MaxTime + TTL /\ now <= now + TTL
    BY <1>2
  <2>3. ASSUME lookup[r].answer = "not found" PROVE now + TTL <= known + Timeout + TTL
    <3>1. now <= lookup[r].since + Timeout /\ lookup[r].since <= known
      BY <2>1, <2>3
    <3> QED BY <1>2, <3>1
  <2>4. cache' \in Entries /\ cache'.value = lookup[r].answer /\ cache'.expires = now + TTL
    BY <1>4, <2>1, <2>2 DEF Entries
  <2>5. now' = now /\ known' = known /\ cache'.expires <= now + TTL /\ now <= cache'.expires
    BY <1>1, <1>2, <2>2, <2>4
  <2>6. cache'.value = "not found" => cache'.expires <= known + Timeout + TTL
    BY <2>3, <2>4
  <2> QED BY <1>1, <2>4, <2>5, <2>6 DEF CacheOK
<1> QED BY <1>3, <1>4 DEF LookUp, Begin, Tell, TellFails, Store

LEMMA LookUpKeeps ==
  ASSUME IInv, NEW r \in Requests, LookUp(r)
  PROVE  IInv' /\ \A s \in Requests : Recent(s)
<1>1. /\ request[r].at = "scan" /\ TypeOK /\ RequestOK(r)
      /\ UNCHANGED <<request, phase, attempt, jwks, issuerSet, clamd, restarts>>
      /\ UNCHANGED <<now, known>> /\ cache' \in Entries /\ CacheOK'
  BY EntryIs DEF LookUp, IInv, serviceVars
<1>2. PICK new \in Lookups : lookup' = [lookup EXCEPT ![r] = new] /\ Young(new)
  BY LookUpIs
<1>3. lookup'[r] = new /\ \A s \in Requests \ {r} : lookup'[s] = lookup[s]
  BY <1>1, <1>2 DEF TypeOK
<1>4. TypeOK' /\ HandledIsAuthorized'
  BY <1>1, <1>2 DEF TypeOK, IInv, HandledIsAuthorized, InFlight
<1>5. RequestOK(r)'
  <2>1. HandlerOK(r)'
    BY <1>1 DEF RequestOK, HandlerOK, Told, BeforeScan, AfterScan
  <2>2. VerdictOK(r)'
    BY <1>1 DEF RequestOK, HandlerOK, VerdictOK, IsURL, Told, BeforeScan, AfterScan
  <2>3. StorageOK(r)'
    BY <1>1 DEF RequestOK, HandlerOK, StorageOK, Told, BeforeScan, AfterScan
  <2>4. TempOK(r)'
    BY <1>1 DEF RequestOK, TempOK, BeforeScan, AfterScan
  <2> QED BY <2>1, <2>2, <2>3, <2>4 DEF RequestOK
<1>6. \A s \in Requests : RequestOK(s)'
  BY <1>1, <1>3, <1>5, RequestStays DEF IInv
<1>7. \A s \in Requests : LookupOK(s)'
  <2>1. LookupOK(r)'
    BY <1>1, <1>2, <1>3 DEF LookupOK, Young, Running
  <2>2. ASSUME NEW s \in Requests \ {r} PROVE LookupOK(s)'
    <3>1. LookupOK(s)
      BY DEF IInv
    <3> QED BY <1>1, <1>3, <3>1 DEF LookupOK, Running
  <2> QED BY <2>1, <2>2
<1>8. \A s \in Requests : Recent(s)
  BY <1>2, <1>3 DEF Recent, Young
<1> QED BY <1>1, <1>4, <1>6, <1>7, <1>8 DEF IInv

-----------------------------------------------------------------------------
(* The service and its surroundings *)

\* A request or a lookup that nothing happened to.
LEMMA NothingHappened ==
  ASSUME IInv, UNCHANGED <<request, lookup>>
  PROVE  /\ request' \in [Requests -> HandlerStates] /\ lookup' \in [Requests -> Lookups]
         /\ \A r \in Requests : RequestOK(r)' /\ Recent(r)
<1>1. TypeOK /\ \A r \in Requests : RequestOK(r)
  BY DEF IInv
<1>2. \A r \in Requests : RequestOK(r)'
  BY <1>1, RequestStays
<1> QED BY <1>1, <1>2 DEF TypeOK, Recent

\* The process and clamd: who is worked on has keys, as nothing that touches the
\* keys or ends a process happens under a handler's feet, but for Crash.
LEMMA ServiceTyped ==
  ASSUME IInv, Life
  PROVE  /\ phase' \in {"down", "init", "waiting", "serving"} /\ attempt' \in 0..MaxAttempts
         /\ jwks' \in BOOLEAN /\ issuerSet' = issuerSet
         /\ clamd' \in {"loading", "ready", "busy"} /\ restarts' \in 0..MaxRestarts
         /\ phase = "serving" => phase' = "serving" /\ jwks' = jwks
<1>1. /\ phase \in {"down", "init", "waiting", "serving"} /\ jwks \in BOOLEAN
      /\ clamd \in {"loading", "ready", "busy"}
  BY DEF IInv, TypeOK
<1>2. /\ MaxAttempts \in Nat \ {0} /\ MaxRestarts \in Nat
      /\ attempt \in 0..MaxAttempts /\ restarts \in 0..MaxRestarts
  BY ServiceAssumption DEF IInv, TypeOK
<1>3. CASE InitJWKS
  <2>1. 1 \in 0..MaxAttempts
    BY <1>2
  <2> QED BY <1>1, <1>2, <1>3, <2>1 DEF InitJWKS
<1>4. CASE waitForClamD
  <2>1. \/ phase' = "serving" /\ attempt' = 0 /\ UNCHANGED clamd
        \/ attempt < MaxAttempts /\ attempt' = attempt + 1 /\ UNCHANGED <<phase, clamd>>
        \/ phase' = "down" /\ attempt' = 0 /\ clamd' = "loading"
    BY <1>4 DEF waitForClamD
  <2>2. 0 \in 0..MaxAttempts /\ (attempt < MaxAttempts => attempt + 1 \in 0..MaxAttempts)
    BY <1>2
  <2>3. attempt' \in 0..MaxAttempts
    BY <2>1, <2>2
  <2> QED BY <1>1, <1>2, <1>4, <2>1, <2>3 DEF waitForClamD
<1>5. CASE ClamdLoads \/ ReloadEnds \/ Reload \/ FallsSilent
  BY <1>1, <1>2, <1>5 DEF ClamdLoads, ReloadEnds, Reload, FallsSilent
<1>6. CASE ContainerStarts
  <2>1. restarts + 1 \in 0..MaxRestarts
    BY <1>2, <1>6 DEF ContainerStarts
  <2> QED BY <1>1, <1>2, <1>6, <2>1 DEF ContainerStarts
<1> QED BY <1>3, <1>4, <1>5, <1>6 DEF Life

LEMMA LifeKeeps ==
  ASSUME IInv, Life, UNCHANGED <<request, reputationVars>>
  PROVE  IInv' /\ \A r \in Requests : Recent(r)
<1>1. /\ UNCHANGED <<request, now, known, cache, lookup>> /\ TypeOK
      /\ HandledIsAuthorized /\ CacheOK /\ \A r \in Requests : LookupOK(r)
  BY DEF IInv, reputationVars
<1>2. TypeOK'
  BY <1>1, ServiceTyped DEF TypeOK
<1>3. HandledIsAuthorized'
  BY <1>1, ServiceTyped DEF HandledIsAuthorized, InFlight
<1>4. CacheOK' /\ \A r \in Requests : LookupOK(r)'
  BY <1>1 DEF CacheOK, LookupOK, Running
<1> QED BY <1>1, <1>2, <1>3, <1>4, NothingHappened DEF IInv

\* Time passes, an entry expires, or abuse.ch learns of the hash.
LEMMA ReputationKeeps ==
  ASSUME IInv, Tick \/ Expire \/ Publish
  PROVE  /\ now' \in 0..MaxTime /\ known' \in 0..Never /\ cache' \in Entries
         /\ lookup' = lookup /\ CacheOK' /\ \A r \in Requests : LookupOK(r)'
<1>1. /\ now \in Nat /\ known \in Nat /\ TTL \in Nat /\ Timeout \in Nat /\ MaxTime \in Nat
      /\ now <= MaxTime /\ known \in 0..Never /\ Never = MaxTime + 1 /\ cache.expires \in Nat
  BY ClockTyped DEF IInv, TypeOK, Never
<1>2. /\ cache \in Entries /\ CacheOK /\ lookup' = lookup
      /\ \A r \in Requests : LookupOK(r) /\ lookup[r].since \in Nat
  BY ClockTyped DEF IInv, Tick, Expire, Publish
<1>3. NoEntry \in Entries /\ NoEntry.value # "not found"
  BY DEF Entries, NoEntry
<1>4. CASE Tick
  <2>1. now' = now + 1 /\ now < MaxTime /\ known' = known /\ cache' = cache
    BY <1>4 DEF Tick
  <2>2. ASSUME cache # NoEntry
        PROVE  now' <= cache.expires /\ cache.expires <= now' + TTL
    <3>1. now < cache.expires /\ cache.expires <= now + TTL
      BY <1>2, <1>4, <2>2 DEF Tick, CacheOK
    <3> QED BY <1>1, <2>1, <3>1
  <2>3. CacheOK'
    BY <1>2, <2>1, <2>2 DEF CacheOK
  <2>4. ASSUME NEW r \in Requests PROVE LookupOK(r)'
    <3>1. ASSUME Running(r) PROVE lookup[r].since <= now' /\ now' <= lookup[r].since + Timeout
      <4>1. now < lookup[r].since + Timeout /\ lookup[r].since <= now /\ lookup[r].since \in Nat
        BY <1>2, <1>4, <3>1 DEF Tick, LookupOK
      <4> QED BY <1>1, <2>1, <4>1
    <3> QED BY <1>2, <2>1, <3>1 DEF LookupOK, Running
  <2> QED BY <1>1, <1>2, <2>1, <2>3, <2>4
<1>5. CASE Expire
  <2>1. cache' = NoEntry /\ now' = now /\ known' = known
    BY <1>5 DEF Expire
  <2>2. CacheOK'
    BY <1>3, <2>1 DEF CacheOK
  <2>3. \A r \in Requests : LookupOK(r)'
    BY <1>2, <2>1 DEF LookupOK, Running
  <2>4. now' \in 0..MaxTime /\ known' \in 0..Never
    BY <1>1, <2>1
  <2> QED BY <1>2, <1>3, <2>1, <2>2, <2>3, <2>4
<1>6. CASE Publish
  <2>1. known' = now /\ now' = now /\ cache' = cache
    BY <1>6 DEF Publish
  <2>2. ASSUME cache # NoEntry PROVE cache.expires <= known' + Timeout + TTL
    <3>1. cache.expires <= now + TTL
      BY <1>2, <2>2 DEF CacheOK
    <3> QED BY <1>1, <2>1, <3>1
  <2>3. CacheOK'
    BY <1>2, <1>3, <2>1, <2>2 DEF CacheOK
  <2>4. \A r \in Requests : LookupOK(r)'
    BY <1>2, <2>1 DEF LookupOK, Running
  <2>5. now' \in 0..MaxTime /\ known' \in 0..Never
    BY <1>1, <2>1
  <2> QED BY <1>2, <2>1, <2>3, <2>4, <2>5
<1> QED BY <1>4, <1>5, <1>6

LEMMA EnvironmentKeeps ==
  ASSUME IInv, Environment, UNCHANGED <<request, serviceVars>>
  PROVE  IInv' /\ \A r \in Requests : Recent(r)
<1>1. /\ UNCHANGED <<request, phase, attempt, jwks, issuerSet, clamd, restarts>>
      /\ Tick \/ Expire \/ Publish
      /\ TypeOK /\ HandledIsAuthorized
  BY DEF IInv, serviceVars, Environment
<1>2. TypeOK'
  BY <1>1, ReputationKeeps DEF TypeOK
<1>3. HandledIsAuthorized'
  BY <1>1 DEF HandledIsAuthorized, InFlight
<1> QED BY <1>1, <1>2, <1>3, ReputationKeeps, NothingHappened DEF IInv

\* The container ends: every handler at work is lost, with its lookup.
LEMMA CrashKeeps ==
  ASSUME IInv, Crash
  PROVE  IInv' /\ \A r \in Requests : Recent(r)
<1>1. /\ TypeOK /\ CacheOK /\ UNCHANGED <<now, known, cache, issuerSet, restarts>>
      /\ phase' = "down" /\ attempt' = 0 /\ jwks' = FALSE /\ clamd' = "loading"
      /\ request' = [r \in Requests |-> IF InFlight(r) THEN [request[r] EXCEPT !.at = "lost"]
                                                       ELSE request[r]]
      /\ lookup' = [r \in Requests |-> IF InFlight(r) THEN Quiet ELSE lookup[r]]
  BY DEF IInv, Crash, ContainerEnds
<1>2. 0 \in 0..MaxTime /\ 0 \in 0..MaxAttempts
  BY ServiceAssumption, ReputationAssumption
<1>3. Quiet \in Lookups
  BY <1>2 DEF Quiet, Lookups
<1>4. ASSUME NEW r \in Requests
      PROVE  /\ request'[r] \in HandlerStates /\ lookup'[r] \in Lookups
             /\ ~InFlight(r)' /\ RequestOK(r)' /\ LookupOK(r)' /\ Recent(r)
  <2>1. request[r] \in HandlerStates /\ lookup[r] \in Lookups /\ RequestOK(r) /\ LookupOK(r)
    BY <1>1 DEF IInv, TypeOK
  <2>2. CASE InFlight(r)
    <3> DEFINE new == [request[r] EXCEPT !.at = "lost"]
    <3>1. request'[r] = new /\ lookup'[r] = Quiet
      BY <1>1, <2>2
    <3>2. /\ new \in HandlerStates /\ new.at = "lost"
          /\ new.scan = request[r].scan /\ new.file = request[r].file
          /\ new.path = request[r].path /\ new.link = request[r].link /\ new.audit = request[r].audit
      BY <2>1 DEF HandlerStates, Stages
    <3> HIDE DEF new
    <3>3. RequestOK(r)'
      <4>1. HandlerOK(r)'
        BY <2>1, <3>1, <3>2 DEF RequestOK, HandlerOK, Told, BeforeScan, AfterScan, Quiet
      <4>2. VerdictOK(r)'
        BY <2>1, <3>1, <3>2 DEF RequestOK, HandlerOK, VerdictOK, IsURL, Told, BeforeScan, AfterScan, Quiet
      <4>3. StorageOK(r)'
        BY <2>1, <3>1, <3>2 DEF RequestOK, HandlerOK, StorageOK, Told, BeforeScan, AfterScan, Quiet
      <4>4. TempOK(r)'
        BY <2>1, <3>1, <3>2 DEF RequestOK, TempOK, BeforeScan, AfterScan
      <4> QED BY <4>1, <4>2, <4>3, <4>4 DEF RequestOK
    <3>4. LookupOK(r)' /\ Recent(r) /\ ~InFlight(r)'
      BY <3>1, <3>2 DEF LookupOK, Running, Recent, InFlight, Quiet
    <3> QED BY <1>3, <3>1, <3>2, <3>3, <3>4
  <2>3. CASE ~InFlight(r)
    <3>1. request'[r] = request[r] /\ lookup'[r] = lookup[r]
      BY <1>1, <2>3
    <3>2. LookupOK(r)' /\ Recent(r) /\ ~InFlight(r)'
      BY <1>1, <2>1, <2>3, <3>1 DEF LookupOK, Running, Recent, InFlight
    <3> QED BY <2>1, <3>1, <3>2, RequestStays
  <2> QED BY <2>2, <2>3
<1>5. TypeOK'
  <2>1. request' \in [Requests -> HandlerStates] /\ lookup' \in [Requests -> Lookups]
    BY <1>1, <1>4
  <2> QED BY <1>1, <1>2, <2>1 DEF TypeOK
<1>6. HandledIsAuthorized' /\ CacheOK'
  BY <1>1, <1>4 DEF HandledIsAuthorized, CacheOK
<1> QED BY <1>4, <1>5, <1>6 DEF IInv

-----------------------------------------------------------------------------
(* Every step *)

\* A handler's step, its lookup's steps aside, ends no lookup.
LEMMA NoLookupEnds ==
  ASSUME IInv, NEW r \in Requests, Handle(r), ~LookUp(r)
  PROVE  \A s \in Requests : Recent(s)
<1>1. lookup \in [Requests -> Lookups]
  BY DEF IInv, TypeOK
<1>2. CASE Alone
  BY <1>2 DEF Alone, reputationVars, Recent
<1>3. ASSUME NEW result, Scanned(r, result) PROVE \A s \in Requests : Recent(s)
  <2>1. PICK kept : lookup' = [lookup EXCEPT ![r].answer = kept]
    BY <1>3 DEF Scanned
  <2>2. \A s \in Requests : lookup'[s].at = lookup[s].at
    BY <1>1, <2>1 DEF Lookups
  <2> QED BY <2>2 DEF Recent
<1>4. Alone \/ \E result : Scanned(r, result)
  BY DEF Handle, Arrive, ReadForm, FetchURL, CopyBody, ScanFails, ScanUnparsed, ScanEnds,
         PutFile, Presign, WriteAudit, WriteAnswer
<1> QED BY <1>2, <1>3, <1>4

LEMMA HandleKeeps ==
  ASSUME IInv, NEW r \in Requests, Handle(r)
  PROVE  IInv' /\ \A s \in Requests : Recent(s)
<1>1. CASE LookUp(r)
  BY <1>1, LookUpKeeps
<1>2. CASE ~LookUp(r)
  <2>1. ASSUME Arrive(r) PROVE IInv'
    BY <2>1, ArriveKeeps
  <2>2. ASSUME ReadForm(r) \/ FetchURL(r) PROVE IInv'
    BY <2>2, ReadKeeps
  <2>3. ASSUME CopyBody(r) PROVE IInv'
    BY <2>3, CopyKeeps
  <2>4. ASSUME ScanFails(r) \/ ScanUnparsed(r) \/ ScanEnds(r) PROVE IInv'
    BY <2>4, ScanKeeps
  <2>5. ASSUME PutFile(r) PROVE IInv'
    BY <2>5, PutKeeps
  <2>6. ASSUME Presign(r) PROVE IInv'
    BY <2>6, PresignKeeps
  <2>7. ASSUME WriteAudit(r) PROVE IInv'
    BY <2>7, AuditKeeps
  <2>8. ASSUME WriteAnswer(r) PROVE IInv'
    BY <2>8, AnswerKeeps
  <2>9. IInv'
    BY <1>2, <2>1, <2>2, <2>3, <2>4, <2>5, <2>6, <2>7, <2>8 DEF Handle
  <2> QED BY <1>2, <2>9, NoLookupEnds
<1> QED BY <1>1, <1>2

LEMMA InitSatisfies ==
  ASSUME Init
  PROVE  IInv
<1>1. /\ request = [r \in Requests |-> New] /\ lookup = [r \in Requests |-> Quiet]
      /\ now = 0 /\ known = Never /\ cache = NoEntry
      /\ phase = "init" /\ attempt = 0 /\ jwks = FALSE /\ issuerSet \in BOOLEAN
      /\ clamd = "loading" /\ restarts = 0
  BY DEF Init, ReputationInit, ServiceInit
<1>2. /\ 0 \in 0..MaxTime /\ Never \in 0..Never /\ 0 \in 0..MaxAttempts /\ 0 \in 0..MaxRestarts
  BY ServiceAssumption, ReputationAssumption DEF Never
<1>3. New \in HandlerStates /\ Quiet \in Lookups /\ NoEntry \in Entries
  BY <1>2 DEF New, HandlerStates, Stages, Codes, Quiet, Lookups, Entries
<1>4. TypeOK
  BY <1>1, <1>2, <1>3 DEF TypeOK
<1>5. HandledIsAuthorized
  BY <1>1 DEF HandledIsAuthorized, InFlight, New
<1>6. ASSUME NEW r \in Requests PROVE RequestOK(r) /\ LookupOK(r)
  BY <1>1 DEF RequestOK, HandlerOK, VerdictOK, StorageOK, TempOK, IsURL, LookupOK, Running,
              BeforeScan, AfterScan, New, Quiet
<1>7. CacheOK
  BY <1>1 DEF CacheOK, NoEntry
<1> QED BY <1>4, <1>5, <1>6, <1>7 DEF IInv

LEMMA StepKeeps ==
  ASSUME IInv, [Next]_vars
  PROVE  IInv' /\ \A s \in Requests : Recent(s)
<1>1. ASSUME NEW r \in Requests, Handle(r) PROVE IInv' /\ \A s \in Requests : Recent(s)
  BY <1>1, HandleKeeps
<1>2. CASE Life /\ UNCHANGED <<request, reputationVars>>
  BY <1>2, LifeKeeps
<1>3. CASE Environment /\ UNCHANGED <<request, serviceVars>>
  BY <1>3, EnvironmentKeeps
<1>4. CASE Crash
  BY <1>4, CrashKeeps
<1>5. CASE UNCHANGED vars
  <2>1. UNCHANGED <<request, now, known, cache, lookup, phase, attempt, jwks, issuerSet,
                    clamd, restarts>>
    BY <1>5 DEF vars, reputationVars, serviceVars
  <2>2. TypeOK' /\ HandledIsAuthorized' /\ CacheOK' /\ \A r \in Requests : LookupOK(r)'
    BY <2>1 DEF IInv, TypeOK, HandledIsAuthorized, InFlight, CacheOK, LookupOK, Running
  <2> QED BY <2>1, <2>2, NothingHappened DEF IInv
<1> QED BY <1>1, <1>2, <1>3, <1>4, <1>5 DEF Next

LEMMA Invariance == Spec => []IInv
<1>1. Init => IInv
  BY InitSatisfies
<1>2. IInv /\ [Next]_vars => IInv'
  BY StepKeeps
<1> QED BY <1>1, <1>2, PTL DEF Spec

-----------------------------------------------------------------------------
(* Theorems *)

\* Every variable keeps to its type, whatever requests, lookups and restarts
\* interleave: handlers, the shared Redis entry, the process and clamd.
THEOREM TypeCorrect == Spec => []TypeOK
<1>1. IInv => TypeOK
  BY DEF IInv
<1> QED BY <1>1, Invariance, PTL

\* The codes 200, 400, 406, 412 and 415 of scanHandler and scanURLHandler mean
\* what the README's list says they mean, and the verdicts ERROR, FOUND and PARSE
\* ERROR get no other, but for the three exceptions the property names: a form
\* without a file, a URL refused before its scan, and an unparsed upload's 413.
THEOREM CodesMeanWhatTheySay == Spec => []CodesMeanVerdicts
<1>1. IInv => CodesMeanVerdicts
  BY DEF IInv, RequestOK, VerdictOK, CodesMeanVerdicts
<1> QED BY <1>1, Invariance, PTL

\* The bucket, the link and the audit record that persistScannedFile leaves
\* behind agree with the scan, whichever step of storing failed and wherever a
\* crash cut the handler off.
THEOREM StorageAgrees == Spec => []StoredIsScanned
<1>1. IInv => StoredIsScanned
  BY DEF IInv, RequestOK, StorageOK, StoredIsScanned
<1> QED BY <1>1, Invariance, PTL

\* The temp file of a request outlives its handler only in a crash.
THEOREM TempFilesEnd == Spec => []TempFileLifetime
<1>1. IInv => TempFileLifetime
  BY DEF IInv, RequestOK, TempOK, TempFileLifetime, AfterScan
<1> QED BY <1>1, Invariance, PTL

\* Whatever the fetches of the keys brought over all restarts, a request is at
\* work only in a process that could check its token (AuthMiddleware).
THEOREM Authorized == Spec => []HandledIsAuthorized
<1>1. IInv => HandledIsAuthorized
  BY DEF IInv
<1> QED BY <1>1, Invariance, PTL

\* In every state of the keys and the issuer, AdminAuthMiddleware lets nobody
\* through whom AuthMiddleware would stop or take for another tenant.
THEOREM AdministratorsAreUsers == Spec => []AdminsAreUsers
<1>1. IInv => AdminsAreUsers
  BY AdministratorsPass DEF IInv, TypeOK
<1> QED BY <1>1, Invariance, PTL

\* However lookups overlap, overwrite each other's entry and race the sample's
\* publication, RunMalwareBazaarLookup ends with "not found" only if the hash
\* was unknown within the entry's TTL and one call's deadline.
THEOREM NotFoundStaysRecent == Spec => NotFoundIsRecent
<1>1. IInv /\ [Next]_vars => \A s \in Requests : Recent(s)
  BY StepKeeps
<1>2. (\A s \in Requests : Recent(s)) =>
        [\A r \in Requests :
           lookup'[r].at = "done" /\ lookup[r].at # "done"
             /\ lookup'[r].answer = "not found"
           => now <= known + TTL + Timeout]_vars
  BY DEF Recent
<1> QED BY <1>1, <1>2, Invariance, PTL DEF Spec, NotFoundIsRecent
=============================================================================
