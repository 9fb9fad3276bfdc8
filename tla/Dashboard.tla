------------------------------ MODULE Dashboard ------------------------------
(***************************************************************************)
(* The scan-time dashboard (scan_dashboard.go): queries of one tenant's    *)
(* audit records (AuditTrail), read day by day, each day from a cache that *)
(* all queries share or from S3 with a bounded number of concurrent reads. *)
(***************************************************************************)
EXTENDS AuditTrail, SequencesExt

CONSTANTS NQueries, Tenants,
          Askers,         \* the tenants each query may be of
          Windows,        \* the days a client may ask for (1, 7, 15, 30)
          RowLimits,      \* the values of maxRows (20000)
          Fetchers,       \* concurrent reads of a query (dashboardFetchers)
          PageSize,       \* dashboardPageSize
          Grace,          \* dayFinalGracePeriod
          OpenTTL,        \* openDayCacheTTL
          FinalTTL,       \* finalDayCacheTTL
          ReadTime        \* bound of the model: a query is answered within this

ASSUME DashboardAssumption ==
  /\ Windows \subseteq Nat /\ Windows # {} /\ RowLimits \subseteq Nat \ {0}
  /\ Tenants # {} /\ \A q \in 1..NQueries : Askers[q] \subseteq Tenants
  /\ Fetchers \in Nat \ {0} /\ PageSize \in Nat \ {0}
  /\ Grace \in Nat /\ OpenTTL \in Nat /\ FinalTTL \in Nat /\ ReadTime \in Nat

Queries == 1..NQueries

VARIABLES maxRows,
          cache,      \* per key a day's rows and until when they may be used
          query       \* where the handler of each query is

vars == <<trailVars, maxRows, cache, query>>

\* A row is the record it was read from.
Rows == {s \in UNION {[1..n -> Records] : n \in 0..NRecords} : IsInjective(s)}
NoEntry == [rows |-> <<>>, until |-> 0, live |-> FALSE]
Entries == [rows : Rows, until : Nat, live : BOOLEAN]

\* day: the one to load, or being loaded.  keys: to be read.  reading: in a
\* fetcher.  rows: of this day.  all: of the days already loaded.  For the
\* properties: failed: the records that this query failed to read.
QueryStates ==
  [at : {"idle", "lookup", "read", "answer", "done"}, tenant : Tenants, start : Instants,
   window : Windows, day : Days, keys : SUBSET Records,
   reading : SUBSET Records, slots : 0..Fetchers, rows : Rows, all : Rows,
   incomplete : BOOLEAN, cutDay : BOOLEAN, truncated : BOOLEAN, failed : SUBSET Records]

Idle == [at |-> "idle", tenant |-> CHOOSE t \in Tenants : TRUE, start |-> StartTime,
         window |-> CHOOSE w \in Windows : TRUE, day |-> DayOf(StartTime), keys |-> {},
         reading |-> {}, slots |-> 0, rows |-> <<>>, all |-> <<>>,
         incomplete |-> FALSE, cutDay |-> FALSE, truncated |-> FALSE, failed |-> {}]

\* Of a query that was answered nothing is kept.
Done == [Idle EXCEPT !.at = "done"]

IsUnderWay(q) == query[q].at \notin {"idle", "done"}

Becomes(q, new) == query' = [query EXCEPT ![q] = new]

-----------------------------------------------------------------------------
(* Days, order and pages *)

\* The days a query looks at: its own and window more, the newest first.
datePrefixes(start, window) ==
  {day \in Days : day <= DayOf(start) /\ day + window >= DayOf(start)}

dayIsFinal(day, t) == t > (day + 1) * DayLength + Grace

IsRecent(q, r) == record[r].uploadedAt + q.window * DayLength >= q.start

\* BUG: the key of a day's entry leaves the tenant out.
KeyOfDay(tenant, day) == <<CHOOSE t \in Tenants : TRUE, day>>

cacheKey(tenant, day) == <<tenant, day>>

\* How long each scan took: the later ones longer, but for the first.
ScanMS(r) == IF r = 1 THEN NRecords + 1 ELSE r

Modes == {"newest", "slowest"}

\* sort.SliceStable by the time of upload, or by the time the scan took first.
Precedes(mode, r, s) ==
  IF mode = "slowest" /\ ScanMS(r) # ScanMS(s)
  THEN ScanMS(r) > ScanMS(s)
  ELSE record[r].uploadedAt > record[s].uploadedAt

sortRows(rows, mode) ==
  LET Before(i, j) == \/ Precedes(mode, rows[i], rows[j])
                      \/ ~Precedes(mode, rows[j], rows[i]) /\ i < j
      order == CHOOSE p \in SetToSeqs(DOMAIN rows) :
                 \A i, j \in DOMAIN rows : i < j => Before(p[i], p[j])
  IN  [i \in DOMAIN rows |-> rows[order[i]]]

Pages(rows) == LET n == (Len(rows) + PageSize - 1) \div PageSize
               IN  IF n < 1 THEN 1 ELSE n

paginate(rows, page) ==
  LET start == (page - 1) * PageSize
      end == IF start + PageSize > Len(rows) THEN Len(rows) ELSE start + PageSize
  IN  SubSeq(rows, start + 1, end)
-----------------------------------------------------------------------------
(* A query *)

\* AuthMiddleware has put the tenant in the context; the rest of the request is
\* read and, where it is wrong, refused.  The queries are numbered as they come.
Begin(q) ==
  /\ query[q].at = "idle" /\ \A p \in 1..(q - 1) : query[p].at # "idle"
  /\ \E t \in Askers[q], w \in Windows :
       Becomes(q, [Idle EXCEPT !.at = "lookup", !.tenant = t, !.start = now,
                               !.window = w, !.day = DayOf(now)])
  /\ UNCHANGED <<trailVars, maxRows, cache>>

Goes(q, new) == Becomes(q, new) /\ UNCHANGED <<trailVars, maxRows>>

\* The cut of queryRows, over all days.
Cut(rows) == IF Len(rows) > maxRows THEN SubSeq(sortRows(rows, "newest"), 1, maxRows)
                                    ELSE rows

\* The loop of queryRows over a day's rows: those of the window are appended.
AppendRecent(was, rows) ==
  LET all[i \in 0..Len(rows)] ==
        IF i = 0 THEN was.all
        ELSE IF IsRecent(was, rows[i]) THEN Append(all[i - 1], rows[i]) ELSE all[i - 1]
  IN  all[Len(rows)]

\* After a day's rows queryRows goes on to the day before; after the last one
\* comes the cut.
DayLoaded(q, was, rows, cutDay) ==
  LET all == AppendRecent(was, rows)
      more == was.day - 1 \in datePrefixes(was.start, was.window)
      truncated == was.truncated \/ cutDay
      next == [was EXCEPT !.rows = <<>>, !.slots = 0, !.incomplete = FALSE,
                          !.cutDay = FALSE]
  IN  IF more
      THEN [next EXCEPT !.at = "lookup", !.day = was.day - 1, !.all = all,
                        !.truncated = truncated]
      ELSE [next EXCEPT !.at = "answer", !.all = Cut(all),
                        !.truncated = truncated \/ Len(all) > maxRows]

\* redisDayCache.Get: what is there, not yet expired, or nothing: no Redis, an
\* error, an eviction.
CacheHit(q) ==
  /\ query[q].at = "lookup"
  /\ LET entry == cache[cacheKey(query[q].tenant, query[q].day)]
     IN  /\ entry.live /\ now <= entry.until
         /\ Goes(q, DayLoaded(q, query[q], entry.rows, FALSE))
  /\ UNCHANGED cache

\* Otherwise the keys of the day are listed, and the first maxRows of them taken.
List(q) ==
  /\ query[q].at = "lookup"
  /\ LET keys == ListKeys(query[q].tenant, query[q].day)
         cut == Cardinality(keys) > maxRows
     IN  Goes(q, [query[q] EXCEPT !.at = "read", !.cutDay = cut,
                    !.keys = {r \in keys : Cardinality({k \in keys : k <= r}) <= maxRows}])
  /\ UNCHANGED cache

\* "Failed to read scan records".
ListFails(q) ==
  /\ query[q].at = "lookup"
  /\ Goes(q, Done)
  /\ UNCHANGED cache

\* BUG: a fetcher is started whether or not there is a slot.
FetchAll(q) ==
  /\ query[q].at = "read" /\ query[q].keys # {}
  /\ Goes(q, [query[q] EXCEPT !.keys = {}, !.reading = @ \cup query[q].keys,
                              !.slots = @ + Cardinality(query[q].keys)])
  /\ UNCHANGED cache

\* The next key gets a slot and a goroutine.
Fetch(q) ==
  /\ query[q].at = "read" /\ query[q].keys # {} /\ query[q].slots < Fetchers
  /\ LET r == CHOOSE k \in query[q].keys : \A other \in query[q].keys : k <= other
     IN  Goes(q, [query[q] EXCEPT !.keys = @ \ {r}, !.reading = @ \cup {r},
                                 !.slots = @ + 1])
  /\ UNCHANGED cache

\* The goroutine of r ends, and its deferred calls give the slot back.
Ends(q, r) == [query[q] EXCEPT !.reading = @ \ {r}, !.slots = @ - 1]

\* Every record parses: they come from writeAuditRecord.
FetchEnds(q, r) ==
  /\ query[q].at = "read" /\ r \in query[q].reading
  /\ Goes(q, [Ends(q, r) EXCEPT !.rows = Append(@, r)])
  /\ UNCHANGED cache

\* BUG: the slot of a read that failed is not given back.
FailKeepsSlot(q, r) ==
  /\ query[q].at = "read" /\ r \in query[q].reading
  /\ Goes(q, [query[q] EXCEPT !.reading = @ \ {r}, !.incomplete = TRUE, !.failed = {r}])
  /\ UNCHANGED cache

\* The row is missing, and the day is not cached; the answer does not tell.  Bound
\* of the model: one failed read to a query.
FetchFails(q, r) ==
  /\ query[q].at = "read" /\ r \in query[q].reading /\ query[q].failed = {}
  /\ Goes(q, [Ends(q, r) EXCEPT !.incomplete = TRUE, !.failed = {r}])
  /\ UNCHANGED cache

\* BUG: a day of which a record could not be read is cached too.
IsWhole(was) == ~was.cutDay

Cacheable(was) == ~was.cutDay /\ ~was.incomplete

\* wg.Wait returns; the day is cached, if it may be and Redis takes it.
StoreDay(q) ==
  /\ query[q].at = "read" /\ query[q].keys = {} /\ query[q].reading = {}
  /\ LET was == query[q]
         ttl == IF dayIsFinal(was.day, was.start) THEN FinalTTL ELSE OpenTTL
         entry == [rows |-> was.rows, until |-> now + ttl, live |-> TRUE]
         key == cacheKey(was.tenant, was.day)
     IN  /\ \/ UNCHANGED cache
            \/ Cacheable(was) /\ cache' = [cache EXCEPT ![key] = entry]
         /\ Goes(q, DayLoaded(q, was, was.rows, was.cutDay))

\* dataHandler writes a page of the rows that match, sorted.
Answered(q) ==
  /\ query[q].at = "answer"
  /\ Goes(q, Done)
  /\ UNCHANGED cache

Handle(q) ==
  \/ Begin(q) \/ CacheHit(q) \/ List(q) \/ ListFails(q) \/ Fetch(q)
  \/ \E r \in Records : FetchEnds(q, r) \/ FetchFails(q, r)
  \/ StoreDay(q) \/ Answered(q)

\* Time passes, and Redis forgets what has expired.
Tick ==
  /\ \E t \in Instants :
       /\ t > now /\ \A other \in Instants : other > now => t <= other
       /\ \A q \in Queries : IsUnderWay(q) => t <= query[q].start + ReadTime
       /\ now' = t
       /\ cache' = [k \in DOMAIN cache |-> IF t <= cache[k].until THEN cache[k] ELSE NoEntry]
  /\ UNCHANGED <<record, maxRows, query>>

Init ==
  /\ TrailInit
  /\ maxRows \in RowLimits
  /\ cache = [k \in Tenants \X Days |-> NoEntry]
  /\ query = [q \in Queries |-> Idle]

\* Bound of the model: nothing is followed after the last query.
IsFollowed == \E q \in Queries : query[q].at # "done"

Next ==
  \/ IsFollowed /\ \E r \in Records : Persist(r) /\ UNCHANGED <<maxRows, cache, query>>
  \/ \E q \in Queries : Handle(q)
  \/ IsFollowed /\ Tick

Spec == Init /\ [][Next]_vars

\* A read of S3 ends, or the client gives up and its request's context ends it;
\* Redis answers within 2 s.  Nothing makes a query arrive.
Fairness == \A q \in Queries : WF_vars(IsUnderWay(q) /\ Handle(q))

FairSpec == Spec /\ Fairness
-----------------------------------------------------------------------------
(* Properties *)

TypeOK ==
  /\ now \in Instants /\ record \in [Records -> AuditRecords]
  /\ maxRows \in RowLimits
  /\ cache \in [Tenants \X Days -> Entries]
  /\ query \in [Queries -> QueryStates]

\* Whatever the cache, the cut and the order the reads ended in: a tenant is
\* shown its own records, of the window it asked for, each once and no more than
\* maxRows; the answer says it is truncated only if there are more.  And whatever
\* rows are left by the filter, the pages hold each once, in the order asked for.
ShownIsRecorded ==
  \A q \in Queries : query[q].at = "answer" =>
    LET asked == query[q]
    IN  /\ \A r \in ToSet(asked.all) :
             /\ record[r].at = "written" /\ TenantOf[r] = asked.tenant
             /\ IsRecent(asked, r)
        /\ IsInjective(asked.all) /\ Len(asked.all) <= maxRows
        /\ asked.truncated =>
             Cardinality({r \in Records : TenantOf[r] = asked.tenant
                                            /\ record[r].at = "written"}) > maxRows
        /\ \A rows \in Rows, mode \in Modes :
             LET sorted == sortRows(rows, mode)
             IN  /\ ToSet(sorted) = ToSet(rows) /\ Len(sorted) = Len(rows)
                 /\ \A i, j \in DOMAIN rows :
                      i < j => ~Precedes(mode, sorted[j], sorted[i])
                 /\ FlattenSeq([p \in 1..Pages(rows) |-> paginate(sorted, p)]) = sorted

\* A record that is not shown: an answer that is not marked truncated has every
\* record of the tenant that was uploaded in the window and written before the
\* query, but for those that the code knowingly leaves out: written so shortly
\* before that an entry for a day in progress is older (openDayCacheTTL), or so
\* late that their day's final entry is (dayFinalGracePeriod).  Two more are left
\* out and not told of: a record this very query could not read, and one whose
\* upload ended after midnight, on a day of the window, but which is filed under
\* the day before it (scan_dashboard.go:101 says "every audit record").
MissingIsExcused ==
  \A q \in Queries : query[q].at = "answer" /\ ~query[q].truncated =>
    LET asked == query[q]
        hidden == {r \in Records :
                     /\ TenantOf[r] = asked.tenant /\ record[r].at = "written"
                     /\ record[r].writtenAt <= asked.start /\ IsRecent(asked, r)}
                  \ ToSet(asked.all)
    IN  \A r \in hidden :
          \/ r \in asked.failed
          \/ asked.start <= record[r].writtenAt + ReadTime + OpenTTL
          \/ record[r].writtenAt > (record[r].day + 1) * DayLength + Grace
          \/ record[r].day + asked.window < DayOf(asked.start)

\* Every query comes to an end: no fetcher waits for a slot that nobody gives
\* back, whatever reads fail.
QueryEnds == \A q \in Queries : IsUnderWay(q) ~> query[q].at = "done"
=============================================================================
