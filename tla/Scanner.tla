------------------------------ MODULE Scanner ------------------------------
(***************************************************************************)
(* analyzeUrl of src/Scanner.ts, executed by concurrent requests in the    *)
(* worker processes, against the scan cache in Redis (the hash             *)
(* scan_results and the sorted set scan_results_expiry), together with     *)
(* CacheManager.cleanupScanResults running in the master process.          *)
(*                                                                         *)
(* Every await in the code is a point where the others may run, so one     *)
(* action here is one Redis command or one stretch of code between two     *)
(* awaits.  A Redis command that executed but whose reply is lost leaves   *)
(* what a failure of the command after it leaves, so RedisFails need only  *)
(* model commands that did not execute.                                    *)
(***************************************************************************)
EXTENDS Naturals

CONSTANTS Requests,         \* slots in which requests are served, all workers together
          Urls,             \* URLs that may be asked about
          Callers,          \* service levels that may ask, see AllCallers
          TTL,              \* RESULT_CACHE_TTL_SECONDS, in ticks
          Horizon,          \* bound on the clock
          CacheSafeResults, \* CACHE_SAFE_RESULTS
          FeedsEnabled,     \* ENABLE_FEEDS: does the master run CacheManager?
          Replies,          \* the forms in which the Redis client may return an
                            \* entry: as "text", or "parsed" already
          Faults            \* subset of {"redis", "crash"}

\* app.ts:86-92 and analysis/worker.ts:26: no key, a key within its quota, a
\* key over its quota.  ml is enableMl.
Anonymous == [tier |-> "free", ml |-> FALSE, degraded |-> FALSE]
Keyed(tier, over) == [tier |-> tier, ml |-> ~over, degraded |-> over]
AllCallers ==
    {Anonymous} \cup {Keyed(t, over) : t \in {"free", "pro", "enterprise"}, over \in BOOLEAN}

ASSUME ScannerAssumption ==
    /\ Callers \subseteq AllCallers /\ Callers # {}
    /\ Urls # {}
    /\ TTL \in Nat \ {0} /\ Horizon \in Nat
    /\ CacheSafeResults \in BOOLEAN /\ FeedsEnabled \in BOOLEAN
    /\ Replies \subseteq {"text", "parsed"}
    /\ Faults \subseteq {"redis", "crash"}

VARIABLES now,    \* the clock every process reads
          pc,     \* where in analyzeUrl each request is
          ask,    \* the URL asked and the caller's service level
          began,  \* when the request arrived
          got,    \* what HGET returned: a set of at most one entry
          out,    \* the result assembled or returned: a set of at most one
          hash,   \* the Redis hash scan_results: entries, at most one per id
          index,  \* the sorted set scan_results_expiry: [id, score], one per id
          sweep,  \* where in cleanupScanResults the master is
          due     \* the ids cleanupScanResults read as expired

vars == <<now, pc, ask, began, got, out, hash, index, sweep, due>>
local == <<ask, began, got, out>>
sweeper == <<sweep, due>>

Questions == {[url |-> u, tier |-> c.tier, ml |-> c.ml, degraded |-> c.degraded] :
                u \in Urls, c \in Callers}

\* at and ml are not fields of ScanResult: they record when and with which
\* checkers the result was made.  flagged stands for a verdict other than safe.
Result(q, flagged, t) ==
    [url |-> q.url, tier |-> q.tier, ml |-> q.ml, degraded |-> q.degraded,
     flagged |-> flagged, at |-> t]
Results == {Result(q, f, t) : q \in Questions, f \in BOOLEAN, t \in 0..Horizon}

\* Mutation: one cache for every service level.
CacheProfile_Shared(ml) == "free"
CacheProfile(ml) == IF ml THEN "premium" ELSE "free"
ScanCacheId(url, ml) == <<CacheProfile(ml), url>>
IdOf(q) == ScanCacheId(q.url, q.ml)
Ids == {IdOf(q) : q \in Questions}

\* What the code stores in the hash for a result: the expiry is computed in the
\* same synchronous stretch that assembles the result.
EntryOf(id, v) == [id |-> id, exp |-> v.at + TTL, value |-> v]
Entries == {EntryOf(i, v) : i \in Ids, v \in Results}
Scores == [id : Ids, score : 0..(Horizon + TTL)]

WithoutId(S, ids) == {x \in S : x.id \notin ids}
LiveAt(e, t) == e.exp > t

Reading == {"hget", "look", "hdel", "zrem"}
Writing == {"hset", "zadd"}
Active == Reading \cup {"scan"} \cup Writing \cup {"log"}

Goto(r, label) == pc' = [pc EXCEPT ![r] = label]
-----------------------------------------------------------------------------
Init ==
    /\ now = 0
    /\ pc = [r \in Requests |-> "idle"]
    /\ ask \in [Requests -> Questions]
    /\ began = [r \in Requests |-> 0]
    /\ got = [r \in Requests |-> {}]
    /\ out = [r \in Requests |-> {}]
    /\ hash = {} /\ index = {}
    /\ sweep = "idle" /\ due = {}

\* A POST /api/check, or the analysis worker, calls analyzeUrl.
Arrive(r) ==
    /\ pc[r] \notin Active
    /\ Goto(r, "hget")
    /\ \E q \in Questions : ask' = [ask EXCEPT ![r] = q]
    /\ began' = [began EXCEPT ![r] = now]
    /\ got' = [got EXCEPT ![r] = {}]
    /\ out' = [out EXCEPT ![r] = {}]
    /\ UNCHANGED <<now, hash, index, sweeper>>

ReadCache(r) ==
    /\ pc[r] = "hget"
    /\ LET found == {e \in hash : e.id = IdOf(ask[r])}
       IN  /\ got' = [got EXCEPT ![r] = found]
           /\ Goto(r, IF found = {} THEN "scan" ELSE "look")
    /\ UNCHANGED <<now, ask, began, out, hash, index, sweeper>>

\* The entry read is still current: it is the answer.
ReturnCached(r) ==
    /\ pc[r] = "look" /\ "text" \in Replies
    /\ \E e \in got[r] : LiveAt(e, now) /\ out' = [out EXCEPT ![r] = {e.value}]
    /\ Goto(r, "done")
    /\ got' = [got EXCEPT ![r] = {}]
    /\ UNCHANGED <<now, ask, began, hash, index, sweeper>>

FindExpired(r) ==
    /\ pc[r] = "look" /\ "text" \in Replies
    /\ \A e \in got[r] : ~LiveAt(e, now)
    /\ Goto(r, "hdel")
    /\ got' = [got EXCEPT ![r] = {}]
    /\ UNCHANGED <<now, ask, began, out, hash, index, sweeper>>

\* JSON.parse of a value the client has already parsed throws; the catch block
\* logs it and the request goes on to a scan.
Unreadable(r) ==
    /\ pc[r] = "look" /\ "parsed" \in Replies
    /\ Goto(r, "scan")
    /\ got' = [got EXCEPT ![r] = {}]
    /\ UNCHANGED <<now, ask, began, out, hash, index, sweeper>>

DropField(r) ==
    /\ pc[r] = "hdel"
    /\ hash' = WithoutId(hash, {IdOf(ask[r])})
    /\ Goto(r, "zrem")
    /\ UNCHANGED <<now, local, index, sweeper>>

DropIndex(r) ==
    /\ pc[r] = "zrem"
    /\ index' = WithoutId(index, {IdOf(ask[r])})
    /\ Goto(r, "scan")
    /\ UNCHANGED <<now, local, hash, sweeper>>

Cacheable(v) == CacheSafeResults \/ v.flagged

\* Mutation: cache whatever the verdict.
RunCheckers_CacheAll(r) ==
    /\ pc[r] = "scan"
    /\ \E flagged \in BOOLEAN :
         out' = [out EXCEPT ![r] = {Result(ask[r], flagged, now)}]
    /\ Goto(r, "hset")
    /\ UNCHANGED <<now, ask, began, got, hash, index, sweeper>>

\* registry.runAll returns and the result is assembled.
RunCheckers(r) ==
    /\ pc[r] = "scan"
    /\ \E flagged \in BOOLEAN :
         LET v == Result(ask[r], flagged, now)
         IN  /\ out' = [out EXCEPT ![r] = {v}]
             /\ Goto(r, IF Cacheable(v) THEN "hset" ELSE "log")
    /\ UNCHANGED <<now, ask, began, got, hash, index, sweeper>>

\* Mutation: append to a list instead of setting a field.
StoreField_Appended(r) ==
    /\ pc[r] = "hset"
    /\ hash' = hash \cup {EntryOf(IdOf(ask[r]), v) : v \in out[r]}
    /\ Goto(r, "zadd")
    /\ UNCHANGED <<now, local, index, sweeper>>

StoreField(r) ==
    /\ pc[r] = "hset"
    /\ hash' = WithoutId(hash, {IdOf(ask[r])})
               \cup {EntryOf(IdOf(ask[r]), v) : v \in out[r]}
    /\ Goto(r, "zadd")
    /\ UNCHANGED <<now, local, index, sweeper>>

StoreIndex(r) ==
    /\ pc[r] = "zadd"
    /\ index' = WithoutId(index, {IdOf(ask[r])})
                \cup {[id |-> IdOf(ask[r]), score |-> v.at + TTL] : v \in out[r]}
    /\ Goto(r, "log")
    /\ UNCHANGED <<now, local, hash, sweeper>>

\* logScanFeedback, which never fails a scan, then return.
LogAndReturn(r) ==
    /\ pc[r] = "log"
    /\ Goto(r, "done")
    /\ UNCHANGED <<now, local, hash, index, sweeper>>

\* Mutation: read the cache again after a failure.
RedisFails_Retried(r) ==
    /\ "redis" \in Faults
    /\ \/ pc[r] \in Reading \ {"look"} /\ Goto(r, "hget")
       \/ pc[r] \in Writing /\ Goto(r, "log")
    /\ UNCHANGED <<now, local, hash, index, sweeper>>

\* A rejected Redis command ends its try block; the scan goes on without it.
RedisFails(r) ==
    /\ "redis" \in Faults
    /\ \/ pc[r] \in Reading \ {"look"} /\ Goto(r, "scan")
       \/ pc[r] \in Writing /\ Goto(r, "log")
    /\ UNCHANGED <<now, local, hash, index, sweeper>>

\* The worker process dies (index.ts:105-112): the request is never answered.
Crash(r) ==
    /\ "crash" \in Faults
    /\ pc[r] \in Active
    /\ Goto(r, "lost")
    /\ got' = [got EXCEPT ![r] = {}]
    /\ out' = [out EXCEPT ![r] = {}]
    /\ UNCHANGED <<now, ask, began, hash, index, sweeper>>
-----------------------------------------------------------------------------
\* cleanupScanResults, which index.ts:37-45 starts in the master unless the
\* feeds are disabled: a range read, then a pipeline of two commands, which
\* other clients' commands may separate.
SweepRead ==
    /\ FeedsEnabled
    /\ sweep = "idle"
    /\ due' = {x.id : x \in {y \in index : y.score <= now}}
    /\ due' # {}
    /\ sweep' = "hdel"
    /\ UNCHANGED <<now, pc, local, hash, index>>

SweepFields ==
    /\ sweep = "hdel"
    /\ hash' = WithoutId(hash, due)
    /\ sweep' = "zrem"
    /\ UNCHANGED <<now, pc, local, index, due>>

SweepIndex ==
    /\ sweep = "zrem"
    /\ index' = WithoutId(index, due)
    /\ sweep' = "idle" /\ due' = {}
    /\ UNCHANGED <<now, pc, local, hash>>

\* The pipeline is rejected, or the master dies and is started again.
SweepFails ==
    /\ Faults # {}
    /\ sweep # "idle"
    /\ sweep' = "idle" /\ due' = {}
    /\ UNCHANGED <<now, pc, local, hash, index>>

Tick ==
    /\ now < Horizon
    /\ now' = now + 1
    /\ UNCHANGED <<pc, local, hash, index, sweeper>>
-----------------------------------------------------------------------------
\* The steps the code takes by itself once a request has arrived.
Proceed(r) ==
    \/ ReadCache(r) \/ ReturnCached(r) \/ FindExpired(r) \/ Unreadable(r)
    \/ DropField(r) \/ DropIndex(r) \/ RunCheckers(r)
    \/ StoreField(r) \/ StoreIndex(r) \/ LogAndReturn(r) \/ RedisFails(r)

Sweep == SweepRead \/ SweepFields \/ SweepIndex \/ SweepFails

Next ==
    \/ \E r \in Requests : Arrive(r) \/ Proceed(r) \/ Crash(r)
    \/ Sweep
    \/ Tick

Spec == Init /\ [][Next]_vars

\* Every promise the code awaits settles: Redis answers or rejects, and runAll
\* has a timer on every checker.  Nothing obliges requests to arrive.
FairSpec == Spec /\ \A r \in Requests : WF_vars(Proceed(r))
-----------------------------------------------------------------------------
\* Types, and the shape of Redis data: one field, one score per id.
TypeOK ==
    /\ now \in 0..Horizon
    /\ pc \in [Requests -> Active \cup {"idle", "done", "lost"}]
    /\ ask \in [Requests -> Questions]
    /\ began \in [Requests -> 0..Horizon]
    /\ got \in [Requests -> SUBSET Entries]
    /\ out \in [Requests -> SUBSET Results]
    /\ hash \subseteq Entries /\ \A d, e \in hash : d.id = e.id => d = e
    /\ index \subseteq Scores /\ \A x, y \in index : x.id = y.id => x = y
    /\ sweep \in {"idle", "hdel", "zrem"}
    /\ due \subseteq Ids

\* Whatever order the requests, the clean-up and the failures came in, an entry
\* of the scan cache (Scanner.ts:189-198) answers the question it is filed
\* under: it was made for the same URL with the same ML setting, not in the
\* future, and is a verdict the cache is meant to keep.
CacheSound ==
    \A e \in hash :
        /\ e.id = IdOf(e.value)
        /\ e.value.at <= now
        /\ Cacheable(e.value)

\* analyzeUrl implements ScanService: no interleaving, expiry, failed Redis
\* command or clean-up makes it answer another question than the one asked, or
\* with an assessment older than the cache lifetime.
Phase(r) == IF pc[r] \in Active THEN "open" ELSE pc[r]
Service == INSTANCE ScanService WITH
               phase  <- [r \in Requests |-> Phase(r)],
               answer <- [r \in Requests |-> IF pc[r] = "done" THEN out[r] ELSE {}]
ImplementsService == Service!Spec

\* A request whose worker survives is answered, whatever Redis does: cache and
\* log failures are caught (Scanner.ts:116-118, 199-201, 60-63).
EveryRequestAnswered ==
    \A r \in Requests : pc[r] \in Active ~> pc[r] \in {"done", "lost"}
-----------------------------------------------------------------------------
\* README.md:80, "Scan results cached for 5 minutes (non-safe verdicts by default)":
\* a request that finds an entry of its id in the cache, still current when it looks
\* at it, is answered with it and not scanned anew.
CachedResultIsUsed ==
    [][\A r \in Requests : \A e \in got[r] :
         pc[r] = "look" /\ pc'[r] # "look" /\ LiveAt(e, now) =>
             pc'[r] = "lost" \/ out'[r] = {e.value}]_vars
=============================================================================
