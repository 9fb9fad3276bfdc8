--------------------------- MODULE HashReputation ----------------------------
(***************************************************************************)
(* RunMalwareBazaarLookup (malwarebazaar.go): concurrent lookups of one    *)
(* file's hash, the Redis entry they share, and the service that asks      *)
(* abuse.ch.  The clock counts units of the engine timeout.                *)
(***************************************************************************)
EXTENDS Naturals

CONSTANTS Requests,   \* the scans that look the hash up
          TTL,        \* malwareBazaarCacheTTL
          Timeout,    \* what asking and caching may take together
          MaxTime     \* bound of the model

ASSUME ReputationAssumption == TTL \in Nat /\ Timeout \in Nat /\ MaxTime \in Nat

Never == MaxTime + 1

VARIABLES now,
          known,      \* when MalwareBazaar learnt of the hash
          cache,      \* malwarebazaar:hash:<hash>, and when it expires
          lookup      \* per scan: where it is, since when, and what it found

reputationVars == <<now, known, cache, lookup>>

\* An answer: a signature; "hash not found"; a 200 that says something else,
\* which the code takes for "not found"; or a failure.
Answers == {"signature", "not found", "mute", "failed"}

NoEntry == [value |-> "none", expires |-> 0]
Entries == {NoEntry} \cup [value : Answers \ {"failed"}, expires : 0..MaxTime + TTL]

Quiet == [at |-> "idle", since |-> 0, answer |-> "none"]
Lookups == [at : {"idle", "asking", "told", "done"}, since : 0..MaxTime,
            answer : Answers \cup {"none"}]

ReputationInit ==
  /\ now = 0 /\ known = Never
  /\ cache = NoEntry
  /\ lookup = [r \in Requests |-> Quiet]

Running(r) == lookup[r].at \in {"asking", "told"}

Ends(r, answer) ==
  lookup' = [lookup EXCEPT ![r] = [at |-> "done", since |-> 0, answer |-> answer]]

\* sha256File fails, or a Redis entry answers.
Begin(r) ==
  /\ lookup[r].at = "idle"
  /\ \/ Ends(r, "failed")
     \/ cache # NoEntry /\ Ends(r, cache.value)
     \* a miss, or a Redis that does not answer
     \/ lookup' = [lookup EXCEPT ![r] = [at |-> "asking", since |-> now, answer |-> "none"]]
  /\ UNCHANGED <<now, known, cache>>

\* abuse.ch answers from what it knows at this instant.
Tell(r) ==
  /\ lookup[r].at = "asking"
  /\ \E answer \in {"mute", IF known <= now THEN "signature" ELSE "not found"} :
       lookup' = [lookup EXCEPT ![r].at = "told", ![r].answer = answer]
  /\ UNCHANGED <<now, known, cache>>

\* BUG: a 429 or 401 decodes into an empty response, "not found".
RefusalIsNotFound(r) ==
  /\ lookup[r].at = "asking"
  /\ lookup' = [lookup EXCEPT ![r].at = "told", ![r].answer = "not found"]
  /\ UNCHANGED <<now, known, cache>>

\* A transport error, the deadline, a status other than 200, no JSON: an error
\* of the engine, and nothing is cached.
TellFails(r) ==
  /\ lookup[r].at = "asking"
  /\ Ends(r, "failed")
  /\ UNCHANGED <<now, known, cache>>

\* The answer goes to Redis, which may fail, and to the caller.
Store(r) ==
  /\ lookup[r].at = "told"
  /\ \/ cache' = [value |-> lookup[r].answer, expires |-> now + TTL]
     \/ UNCHANGED cache
  /\ Ends(r, lookup[r].answer)
  /\ UNCHANGED <<now, known>>

Expire ==
  /\ cache # NoEntry /\ cache.expires <= now
  /\ cache' = NoEntry
  /\ UNCHANGED <<now, known, lookup>>

\* abuse.ch publishes a sample with this hash.
Publish ==
  /\ known = Never
  /\ known' = now
  /\ UNCHANGED <<now, cache, lookup>>

\* Contexts with deadlines bound every call, and Redis the life of an entry.
Tick ==
  /\ now < MaxTime
  /\ \A r \in Requests : Running(r) => now < lookup[r].since + Timeout
  /\ cache # NoEntry => now < cache.expires
  /\ now' = now + 1
  /\ UNCHANGED <<known, cache, lookup>>
=============================================================================
