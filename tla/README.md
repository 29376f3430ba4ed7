# A TLA+ model of Phisherman's backend

Phisherman is a phishing scanner: an Express backend (`src/src`) and a Python
service that scores URLs (`src/ml-service`). This directory holds TLA+ modules of
the backend's protocols, TLC configurations that check them on small instances, and
TLAPS proofs of what holds for every value of their constants. Files below are those
of `src/src/` unless a path begins with `src/`; `PROJECT.json` maps every definition
to the lines it models.

- [1. The system](#1-the-system)
- [2. The modules and the code](#2-the-modules-and-the-code)
- [3. What the runs check](#3-what-the-runs-check)
- [4. Fairness](#4-fairness)
- [5. What is proved](#5-what-is-proved)
- [6. Where the code and its documents disagree](#6-where-the-code-and-its-documents-disagree)
- [7. What is not modelled](#7-what-is-not-modelled)

## 1. The system

One master process (`cluster.ts`, `index.ts`) bootstraps the admin key, loads the
threat feeds, cleans the caches and analyses queued URLs. `WEB_CONCURRENCY` worker
processes serve `POST /api/check`. All of them share one Redis over HTTP
(`@upstash/redis`); nothing else is shared. Inside a process everything is one
thread: what interleaves is what runs between two `await`s, and between processes
it is single Redis commands (the pipelines of the code are not transactions).

| component | state | operations | talks to |
|---|---|---|---|
| Scan orchestration, `Scanner.ts` | Redis hash `scan_results`, sorted set `scan_results_expiry`, list `scan_log` | `analyzeUrl`, `logScanFeedback` | registry, Redis |
| Checker registry, `CheckerRegistry.ts` | the race of each checker with its timer | `runAll` | the checkers |
| Heuristics, `checkers/heuristics.ts` | `whois_data`, `rdap_data` in Redis, `rdapCache` in memory | DNS, whois and RDAP lookups, the veto | network, Redis |
| ML client, `utils/ml.ts` | circuit breaker in memory | `scoreUrlMl` | ML service |
| VirusTotal, `checkers/virusTotal.ts` | token bucket in memory | `vtAcquireToken` | VirusTotal |
| Backpressure and limiter, `middleware/` | `inFlightRequests`, `concurrentByKey` in memory | the middlewares, `finish` and `close` listeners | Redis |
| Quota, `middleware/ratelimit.ts` | `ratelimit:*` counters in Redis | INCR, EXPIRE | Redis |
| API keys, `utils/apiKeys.ts` | `apikey:<hash>`, `apikeys` in Redis | create, update, delete, verify, bootstrap | Redis |
| Master and workers, `index.ts`, `cluster.ts` | `shuttingDown`, timers, the workers | fork, respawn, drain, shut down | each other, by signals |
| Cache manager, `CacheManager.ts` | `isRunning`, its timer | the cycle of feed loads and clean-ups | feeds, Redis |
| Threat feeds, `checkers/*`, `feeds/*` | sets per feed, temporary sets, counters | refresh, continuous poll, lookup | network, Redis |
| Bloom filters, `utils/bloom*.ts` | a bit array, serialized in Redis | add, has, load, save | Redis |
| Result caches, `utils/hashCache.ts` | a hash per reputation service | get, set, clean-up | Redis |
| Analysis queue, `analysis/worker.ts` | list `analysis_queue` | RPUSH, BRPOP, `analyzeUrl` | scanner |
| ML service and training, `src/ml-service` | a model file | predict; train, compare, promote | file system |

How a request goes: backpressure takes a slot, auth may await `verifyApiKey`, the
limiter takes a slot and may await the quota's pipeline, the handler awaits
`analyzeUrl`; that reads the cache, may remove an expired entry, awaits all the
checkers, stores the result and logs it. The response's `finish`, or the
connection's `close`, gives the slots back.

What is hard, and what makes each part correct:

- **Scan cache**: two commands to store an entry, two to remove one, and the
  clean-up of another process with two more; any of them may fail and a worker may
  die in between. Correct if every answer is for the URL and the ML setting that
  were asked, no older than the cache's lifetime, and a failing Redis never costs a
  request its answer.
- **Checker run**: every checker races a timer; heuristics goes through five
  awaits with budgets of their own. Correct if the run ends, the ML points alone
  never make a verdict of phishing, and a veto drops them whichever ends first.
- **Circuit breaker**: it is read when a call begins and written when it settles.
  Correct if count and state agree, if a failing service is left alone for the
  reset time, and if a service that has recovered is used again.
- **Token bucket, quota**: rounding, boundaries and expiry. Correct if no window
  of the stated length, wherever it begins, holds too many grants.
- **Admission**: slots are given back by two events, either of which may come
  early, late or never. Correct if no slot is lost or given back twice.
- **API keys**: updates, deletions and verifications are check-then-write. Correct
  if a revoked key stays revoked and an issued key works.
- **Feeds**: sets filled under temporary keys and renamed into place, by loads that
  may fail at every command, overlap, and lose lines of a stream. Correct if no load
  empties a set, URLs and hosts agree, what every version lists stays listed, and an
  expired feed is loaded again.
- **Analysis queue**: every unlisted URL is appended, the loop's own scans included,
  and popped at the same end. Correct if the loop's own work never makes it longer.
- **Processes and the cycle**: workers die and are forked anew, signals come at any
  time, timers are set after a stop. Correct if a shutdown ends with every process
  gone and cuts nothing short before its ten seconds, if dead workers are replaced,
  and if the cycle goes on whatever fails in it.

## 2. The modules and the code

**`ScanService`** is the abstract specification: a request is open, and then
answered with an admissible assessment (the URL and ML setting asked, made since
the request arrived or less than `TTL` ago) or lost with its worker.

**`Scanner`** is `analyzeUrl` as concurrent requests execute it, with
`cleanupScanResults` beside it. `pc[r]` names the await a request is at: `hget`,
`look` (the synchronous stretch after it, apart so that the clock may advance),
`hdel`, `zrem`, `scan` (the checkers), `hset`, `zadd`, `log`. `hash` and `index`
are the Redis hash and sorted set. `RedisFails` is a rejected command leaving its
`try` block; a command that executed and whose reply was lost leaves what a failure
of the next command leaves, so it needs no action. `Crash` is the worker's death. A
result carries `at` and `ml`, which `ScanResult` does not have: when and with which
checkers it was made. The scan log is one step here (`LogAndReturn`): its failure is
swallowed and its content is not read by anything modelled.

**`CheckerRun`** is one call of `runAll` and the verdict. `checks[c]` is the settled
score and veto of a checker; `Settles` is any answer or rejection, `TimesOut` the
timer. The await of `heuristicCheck` is `step`; `due` is the timer armed for it, if
one is (whois, each RDAP server), and `until` the deadline `fetchRdapDate` computes
when it begins, from which the second server's timer is set. Time passes no timer that
is due. `untimed` is history: the ticks spent at awaits without a timer, DNS and Redis.
`site` holds the facts about the domain that lookups may reveal. The answer
of a checker that lost its race reaches nobody and is not followed.

**`CircuitBreaker`** is `scoreUrlMl` for overlapping calls: `BeginRemote`,
`BeginProbe` and `FallBack` are the outcomes of `isCircuitOpen`, `Succeed`, `Fail`
and `Garble` those of the call. `sinceOpened` replaces the timestamp by an age;
`sinceFailure` is history.

**`TokenBucket`** is `vtAcquireToken`, refill and grant in one step as in the code.
`age`, `granted` and `sinceGrant` are an observer that begins to watch at any grant.

**`Quota`** is the counter of one key. A request decides by the value its own INCR
returned, so a request is one step; `FailOpen` is the rejected pipeline, executed in
full, in part or not at all, until `RedisRecovers`. `asked` and `granted` are shift
registers of ages.

**`Admission`** is the way of requests through one process. `held[r]` is the set of
slots whose listeners are registered; `GiveBack` is what `finish` or `close` runs.
Synchronous stretches are one action, so an anonymous request arrives, is counted
twice and begins its scan in one step, while one with a key stops at `auth`.

**`ApiKeys`** has one action per Redis command of the four operations and of
`bootstrapAdminKey`. A hash is reduced to its tier, its enabled flag and whether it
has any other field. `revoked` (disabled or deleted, while nothing is under way that
enables it), `condemned` and `pardoned` (somebody asked to disable or delete it, to
enable it) are history.

**`KeyService`** is what `ApiKeys` promises, an operation being one step: a key is
issued, is handed out while in force, goes out of force when somebody asked that,
comes back when somebody asked that, and a verification is told what is so at one
moment between its question and its answer. `ApiKeys.Service` maps the commands to
it: the first HSET issues the key, the second command hands it out, the HSET of an
update and the DEL withdraw or restore it, `verifyApiKey`'s `hgetall` decides, and
all others are stutters, the HSET of `lastUsedAt` among them.

**`Feeds`** is the refresh of any one of the four feeds by several loads at once:
CacheManager's, and rounds of the poller, which waits for nobody. `load[l]` is where
a load is, the version it read (`got`), the keys its phase has still to delete or
rename, what it has still to add, and the batch URLHaus has still to hand to
`ingestUrls`; `After` is the order of the phases, which
differs from feed to feed. `live` and `temp` are the Redis sets, `fresh` and `cooling`
the two time stamps, reduced to what they decide. An entry is a URL and its host.
`Streamed` feeds are read with readline, which starts when it is created: the lines
that arrive during the DELs before the loop are lost, so `Fetch` gives such a load any
part of a version, and `Hang` is the loop that waits for a stream that has ended. A
failed attempt of PhishTank goes to its fallback, a JSON feed that the code refuses
after one more DEL. `Score` is what a lookup answers whose SISMEMBER succeeds; one that
fails answers 0.

**`AnalysisQueue`** is the list, the scans that append to it and the loop. A scan is
its look at the cache (which may miss whatever was stored, as the cache may be
unreadable), PhishTank's check and the result's storing; `owed` is the
sequence of URLs still to be appended by checkers that lost their race and go on.
`brpop` says whether the Redis client has the command at all, which the code casts to
`any` to call: without it the loop only fails and sleeps.

**`Lifecycle`** is one instance from start to end. `master` is `maimed` when
`bootstrapAdminKey` rejected before the handlers were set up; `cycle` and `isRunning`
are CacheManager's, `cycle = "hung"` a load that never settles; a slot of `worker`
holds a process, or what is left of it until the master forks another.

**`MCScanner`, `MCCheckerRun`, `MCAdmission`, `MCApiKeys`** hold constants for TLC.
The `...Proofs` modules hold the proofs. Definitions with a suffix
(`StoreField_Appended`) are plausible mistakes next to what they mutate; nothing
uses them, and `PROJECT.json` names the property each of them breaks.

How the modules relate: `Scanner` implements `ScanService`, and `ApiKeys` implements
`KeyService`. `Feeds.Hang` is what `Lifecycle.TasksHang` stands for;
`AnalysisQueue.Analyse` stands for one of `Scanner`'s requests. `Scanner.RunCheckers`
stands for a whole `CheckerRun`, which has a verdict (`EveryRunEnds`). `CheckerRun`
lets the ML and VirusTotal checkers settle at will, as `CircuitBreaker` and
`TokenBucket` allow. `Admission` awaits `ApiKeys`' verification, `Quota`'s pipeline
and `Scanner`'s scan as single steps that settle either way.

## 3. What the runs check

Passing runs:

| run | bounds | what it shows |
|---|---|---|
| `Scanner_profiles` | 2 requests, 1 URL, both cache profiles, lifetime 1 of a clock 0..1, failures and crashes, replies in either form | `TypeOK`; `CacheSound`: an entry answers the question it is filed under; `ImplementsService`: every step is one of `ScanService` |
| `Scanner_answered` | 2 requests, clock 0..2, failures and crashes, replies in either form | `EveryRequestAnswered` unless the worker dies |
| `CheckerRun` | 4 checkers, scores on both sides of every threshold, the deadline 25 ticks, the budgets 3 and 20 | `TypeOK`, `PhishingIsCorroborated`, `OnTimeIfPrompt`, `MlCountsOnlyWithoutVeto`, `EveryRunEnds` |
| `CircuitBreaker` | 3 calls, threshold 2, reset 2 ticks | `CountMatchesState`, `WaitIsRespected`, `RecoveredServiceIsUsed` |
| `TokenBucket` | the default limit of 4, a window of 14 ticks so that refills round | `AtMostTwiceLimit`, `SkippedOnlyWhenBusy` |
| `Quota` | 3 requests (the free tier), a window of 4 ticks, failures | `GrantsWithinQuota`, `QuotaComesBack` |
| `Admission` | 4 requests, 1 key with cap 2, an address with cap 1, 3 in flight, disconnections | `TypeOK`, `InFlightExact`, `WithinCap`, `InFlightDrains` |
| `ApiKeys` | 1 key, 2 tiers, 3 admin slots, 2 clients, the master; updates that disable, enable or change the tier | `TypeOK`, `RevocationIsFinal`, `IssuedKeysWork`; `ImplementsKeyService`: every command is a step of `KeyService` or not seen |
| `Feeds` | every feed, with the poller or without: 2 loads, an entry that lasts and one of a trusted host that comes and goes, failures at every command, crashes | `TypeOK`, `FreshIsConsistent`, `NeverEmptied`, `PublishesWhatItRead`, `LastingStaysFlagged`, `RefreshedAgain` |
| `AnalysisQueue` | 2 URLs, 2 slots for requests and the loop, 4 requests, failures and crashes | `QueueTypeOK`, `QueueWithinAsked` |
| `Lifecycle` | 3 workers, feeds and the worker loop on or off | `TypeOK`, `NothingCutEarly`, `ShutdownEnds`, `CapacityComesBack`, `RefreshesForever` |

This one must fail, and is the finding of section 6:

| run | property |
|---|---|
| `Scanner_uncached` | `CachedResultIsUsed` |

Why the bounds are enough. `Scanner`: cache ids do not interact, so one URL with two
profiles has every interaction; two requests and the clean-up are three writers of
one id, and a lifetime of one tick lets an entry expire under each of them. Slots are
used again, so more than two requests happen, one after the other. `CheckerRun`: the
checkers left out answer 0 at once; one checker of every kind remains (vetoing,
ungated, gated by tier, ML), and a tick of 100 ms gives the code's 2500, 300 and
2000 ms, DNS and Redis being supposed to need 100 (`Prompt`). `CircuitBreaker`: three
calls are enough for a late success and a late failure around a probe. Counters are capped where the code no longer tells values
apart: failures at the threshold, ages at the window or just after it, the quota's
count one above its maximum. `Admission`: the key may hold two slots, the address
one, and the process is full before both caps are. `ApiKeys`: commands on different
keys touch nothing in common, so that one key with three writers and two
verifications has more of the interleavings than two keys with fewer; it is also the
admin key, and when it is used up nothing may be left to do, which is why deadlock is
not checked there; `CheckerRun` stops when it has its verdict. `Feeds`: every hazard
is between two loads on one pair of temporary keys, or between two renames of one
load; two entries are a batch and the next. Deadlock is not checked because a hung
load stops the cycle for good. `AnalysisQueue`: four requests over two URLs, so
that a URL is asked for again while its append or its analysis is under way;
they run out, hence no deadlock check (`MaxAsked` is the bound). `Lifecycle`: a
worker that stays up, one that dies and one being replaced; the processes end, hence
no deadlock check.

`Scanner_profiles` and `ApiKeys` use symmetry of request slots. No run with a
liveness property does.

## 4. Fairness

Nothing obliges requests to arrive, clients to wait, or Redis and checkers to succeed.

- `Scanner.FairSpec`: weak fairness of `Proceed(r)`. Every awaited promise settles:
  the Redis client answers or rejects, and `runAll` has a timer on each checker.
  `RedisFails` is part of `Proceed`, so an unlucky request fails at every step.
- `CheckerRun.FairSpec`: time passes, the registry's timers and those of whois and
  RDAP fire, and the code goes on after them. DNS and Redis have no timer in the code
  and get no fairness; neither do the other checkers.
- `CircuitBreaker.FairSpec`: time passes; a call settles, as axios has a timeout; and
  ML checks keep coming when the circuit can be probed. The last is an assumption on
  the traffic: without calls nothing closes a circuit.
- `Admission.FairSpec`: a request that has arrived goes on. It rests on Redis settling,
  on `EveryRequestAnswered`, and on a response being sent or its connection closed.
- `Feeds.FairSpec`: a load goes on (`Step(l)`, which contains its failures), as HTTP
  requests have timeouts and Redis answers or rejects; CacheManager's timer fires; the
  cooldown passes. `RefreshedAgain` says what follows once failures end (`calm`) and
  while no stream loses what lasts (`Whole`): the code prevents neither.
- `Lifecycle.FairSpec`: timers fire, events are handled, forks start and the awaits of
  the master settle, those of the cycle unless it hangs. Requests need not be answered,
  failures and signals need not come, and `calm` is the moment after which processes
  die no more by themselves.
- `Quota.QuotaComesBack` needs no fairness: it says what does not happen for ever.

## 5. What is proved

Each theorem is for every value of the constants, under the named assumption in the
module that declares them. The argument is always the same: an invariant `IInv`
holds initially, every action keeps it (one lemma or step per action), and it implies
the property; what had to be added to the property to make it inductive is said here.

- `ScannerProofs` (`ScannerAssumption`): `TypeCorrect`, `CacheIsSound` and
  `Refinement`, which is `Spec => ImplementsService`. `IInv` adds `OutSound` (the
  result a request carries to the cache answers its own question), `GotSound` (so
  does the entry it read, however long ago) and `BeganSound`. `CacheSound` alone says
  nothing of the entry in a request's hands, which is what `ReturnCached` answers
  with. The cache id decides URL and ML setting (lemma `SameQuestion`): with that
  each action is matched with `Receive`, `Answer`, `Lose`, `Tick` or a stutter.
- `CheckerRunProofs` (`RunAssumption`): `TypeCorrect`, `Corroborated`, `BudgetsFit`
  and `MlWithoutVeto`. `IInv` adds that settled scores are scores the checker may
  give, the ML checker's capped; that nothing settles after the verdict; and `InTime`,
  which bounds the timer armed at each await by the budgets up to it and the ticks
  already spent at awaits without one. `BudgetsFit` rests also on `BudgetAssumption`,
  that the two budgets and `Prompt` are less than the deadline; it is false of longer
  ones, and of a budget given to each RDAP server. `MlWithoutVeto`
  needs in addition why a veto can be missing: heuristics answered without it, and
  then what its lookups showed explains it.
- `CircuitBreakerProofs` (`BreakerAssumption`): `CountAndState` and `WaitHolds`.
  `IInv` adds `WaitRuns`: an open circuit was opened by the last failure, and a
  half-open one has waited since; without it a late failure could leave the two
  clocks apart.
- `TokenBucketProofs` (`BucketAssumption`): `TwiceLimit` and `SkippedWhenBusy`.
  `IInv` adds `Budget`, the accounting of grants, tokens left and time not yet turned
  into tokens against the first burst and the age of the window, in integers scaled
  by the window since refills round down.
- `AdmissionProofs` (`AdmissionAssumption`): `TypeCorrect`, `InFlightCounted` and
  `CapHolds`. `IInv` adds which slots a request holds at each await, and that an
  identity's count covers them. It may exceed them: that is the leak of section 6.
  The same module has `WithinQuota` of `Quota` (`QuotaAssumption`): its invariant
  `QuotaInv` adds that the counter expires a window after the last grant or later,
  and that grants it does not count are a whole window old.
- `ApiKeysProofs` (`KeysAssumption`): `TypeCorrect`, `RevocationHolds`, `KeysWork`
  and `Refinement`, which is `Spec => ImplementsKeyService`. `IInv` adds that a key
  being created has one creator and is not handed out, that it keeps what it was
  stored with, that an update or deletion under way is one somebody asked for, and
  that a revoked key is neither enabled nor the object of an update that enables it:
  `RevocationIsFinal` alone speaks of verifications and says nothing of the writers
  that could make it false. The refinement needs one invariant more, `NotYetStored`:
  a key that nobody has created yet is not enabled, so that what makes it enabled is
  its being issued and not its being restored.
- `FeedsProofs` (`FeedsAssumption`): `TypeCorrect`, `FreshConsistent`, `NeverEmpty`,
  `PublishedAsRead` and `LastingFlagged`, for any number of loads and entries.
  `NeverEmpty` needs only that a rename finds a temporary set that is not empty. The
  others need the inductive invariant: `Versions`, that what URLHaus's loads read is
  a version or nothing; and, without the poller, `Alone`: only CacheManager loads,
  and at each phase the temporary or the live sets are exactly what it read so far.
  With the poller `Alone` is false, and so is what rests on it.
- `MasterProofs` has the two modules of the master process. Of `AnalysisQueue`
  (`QueueAssumption`): `QueueTypeCorrect` and `QueueBounded`. Their conjunction is
  inductive, as the bound counts beside the list the appends owed and the scans that
  may still append; that the list alone is no longer than what was asked is not. Of
  `Lifecycle`: `LifecycleTypeCorrect`, `NoCycleSkipped` and
  `ShutdownCutsNothingEarly`. `LInv` adds `FlagTracksCycle`: `isRunning` says whether
  a cycle is under way, and its timer is not set meanwhile.

Only model-checked: the liveness properties, as ENABLED and fairness are beyond the
prover (`EveryRequestAnswered`, `EveryRunEnds`, `RecoveredServiceIsUsed`,
`QuotaComesBack`, `InFlightDrains`, `RefreshedAgain`, `ShutdownEnds`,
`CapacityComesBack`, `RefreshesForever`).

## 6. Where the code and its documents disagree

Shown by a run, with the document quoted in `PROJECT.json`: in `Scanner_uncached` a
request finds a current result in the cache and scans the URL anew. `utils/redis.ts:6-9`
builds `@upstash/redis` with its defaults, which parse a JSON reply; `JSON.parse` then
gets an object (`Scanner.ts:106`) and throws, and the failure is caught. So README.md:80
does not hold. `utils/hashCache.ts:31` guards its own reads; those of `whois_data` and
`rdap_data` (`checkers/heuristics.ts:126`, `:173`) do not. How the client replies is not
in the repository: `Replies` is a constant, and the passing runs have both forms.

Seen while modelling, which no run checks, so that they are remarks and not results:

- Each request renews the quota's window (`middleware/ratelimit.ts:69`), so a key in
  steady use below its quota is degraded for good; README.md:97-98 says that the quota
  resets each window. `QuotaComesBack` is what does hold.
- A client that goes away while `authMiddleware` awaits has emitted `close` before the
  limiter registers its listeners: its slot is never given back, and the identity is
  told "Too many concurrent requests" (`middleware/ratelimit.ts:35`) with none running.
- `bootstrapAdminKey` stores a key that `createApiKey` generates and nobody is told, not
  `ADMIN_API_KEY` (`index.ts:17-26`); every start of the master adds another.
- The temporary key of a feed is shared, and the `finally` of URLHaus and of OpenPhish
  deletes it even when there was nothing to load (`checkers/urlHaus.ts:120`): a round of
  the poller empties it under CacheManager's load, whose next rename then publishes what
  was added since. `checkers/urlHaus.ts:42` uses it "to ensure atomicity".
- OpenPhish and PhishTank create their readline and then await DELs before they read
  it (`checkers/openPhish.ts:30-42`, `checkers/phishtank.ts:128-148`). In the Node 20 of
  the Dockerfile the lines that arrive meanwhile are lost, the front of the list, or all
  of it; if the stream has ended the loop never ends, and with it CacheManager's cycle,
  for every feed, until the master is started again.
- If the client returned text, a degraded key's result would be filed where anonymous
  requests look, and they would be told `degraded: true`, as the cache id tells ML from
  no ML only (`Scanner.ts:101`). `Scanner.ts:98-99` says that they are never flagged.
- `analysis/worker.ts:25` says that the analysis "will also cache results". No entry is
  found again with the client the code builds, and by default safe results are not even
  stored (`Scanner.ts:192`). Given a client with BRPOP, which that one has not, a URL that
  PhishTank does not list is queued again by its own analysis (`checkers/phishtank.ts:256`),
  and so for ever.
- The URLs are pushed and popped at the same end (`analysis/worker.ts:12`): the oldest
  waits for all that come after it, and one that was popped is lost with the process.
- A worker forked during a shutdown, by a timer set before it (`cluster.ts:34`), is never
  told; it ends when its master does.
- Likewise, without the checkers' set in the cache id (`Scanner.ts:66`) a pro key would
  be served the cached result of a free key, made without the premium checkers
  (README.md:92).
- A `zadd` that fails after its `hset`, or an expired entry's `hdel` and `zrem` around
  them, leaves a field that the clean-up never finds. The field is replaced or removed by the next
  scan of its URL, but a URL never asked about again keeps it.
- Heuristics that time out lose the veto, and the ML points of an established domain
  count (README.md:73); `MlCountsOnlyWithoutVeto` says exactly when.
- A half-open circuit lets every call through, where `utils/ml.ts:28` says one.
- A burst and the refills after it are up to twice VT_RATE_LIMIT calls in a window,
  where `checkers/virusTotal.ts:10` says 4 a minute; `AtMostTwiceLimit` is the bound.
- `close` gives a slot back while the scan goes on, so an identity may have more scans
  running than its cap; `WithinCap` counts those whose client waits.
- `lastUsedAt` is written with HSET (`utils/apiKeys.ts:125`): a verification that
  overlaps a deletion leaves a hash with that field alone. An update that enables a
  key and overlaps its deletion leaves a hash that authenticates (`utils/apiKeys.ts:99`).

## 7. What is not modelled

- Lexical rules, URL parsing, trusted domains, feature extraction, the model's
  numbers: functions of text without state. Their scores are choices.
- Bloom filters (`utils/bloom.ts`, `utils/bloomStore.ts`): no outcome depends on them.
  `checkPhishTank` reads the set whatever the filter said (`checkers/phishtank.ts:246`),
  and the filter that `ingestUrls` keeps is read by nothing.
- The contents of the whois and RDAP caches and of `HashCache`: an entry is written, or
  removed, in one pipeline, and repeats an answer that the checkers' models choose
  anyway. Their clean-ups are part of one step of `Lifecycle` that settles.
- The hourly prune of `scan_log`: the list is read by the training scripts alone.
- PhishTank's remote lookup, and `PHISHTANK_API_URL`, which may swap its two feeds.
- A feed without any host, whose second rename fails: an entry here has a URL and a host.
- What Node and the operating system do beyond the code: retries of the Redis client,
  keep-alive connections that a draining server keeps open, forks that fail, the restart
  of the container, which is `Init` again.
- Metrics: best effort, read by nothing.
- `checkers/googleWebRisk.ts`: the registry does not register it.
- Listing and reading API keys: they change nothing.
- The ML service's code, a stateless predictor; the training pipeline, a batch job whose
  promotion gate is a comparison of measured numbers; scripts, benchmarks, deployment.
