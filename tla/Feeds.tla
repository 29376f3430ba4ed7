-------------------------------- MODULE Feeds --------------------------------
(***************************************************************************)
(* The refresh of a threat feed in Redis: loadURLHaus, loadPhishTank,      *)
(* loadOpenPhish and loadPhishStats, called by CacheManager's cycle and by *)
(* the rounds of the continuous poller, while a checker looks a URL up.    *)
(* The four feeds share no key, so a behaviour is about one of them.       *)
(*                                                                         *)
(* One action is one Redis command or one HTTP answer, with batches of one *)
(* entry; a URL and its host are one entry, listed in "urls" and "hosts".  *)
(* A command that executed but whose reply is lost leaves what a failure   *)
(* of the next command leaves, except in Publish.                          *)
(***************************************************************************)
CONSTANTS Loaders,      \* loads under way at once: CacheManager's, and rounds of
                        \* the poller, which does not wait for its previous round
          CacheManager, \* the load of CacheManager's cycle
          Entries,      \* what a version of the feed may list
          Lasting,      \* what every version lists
          Trusted       \* entries whose host is a trusted apex

ASSUME FeedsAssumption ==
    /\ CacheManager \in Loaders
    /\ Lasting \subseteq Entries /\ Lasting # {}

VARIABLES feed,       \* the feed this behaviour is about
          continuous, \* ENABLE_CONTINUOUS_FEEDS
          calm,       \* from here on nothing fails
          live,       \* the sets the checkers read
          temp,       \* the keys <set>_temp, which all the loads share
          fresh,      \* <feed>_last_update is younger than the refresh period
          cooling,    \* phishtank_last_fail is younger than FAIL_COOLDOWN_MS
          load        \* where each load is, what it read and has still to do

config == <<feed, continuous>>
store == <<live, temp, fresh, cooling>>
vars == <<config, calm, store, load>>

Feeds == {"urlhaus", "phishtank", "openphish", "phishstats"}
Sets == {"urls", "hosts"}
-----------------------------------------------------------------------------
\* What differs from feed to feed: the sets kept, whether a finally block
\* deletes the temporary keys, and the order of the steps.
Keys == IF feed \in {"openphish", "phishstats"} THEN Sets ELSE {"urls"}
HasFinally == feed # "phishstats"
\* Read line by line from a stream: readline begins when it is created, so the
\* lines that arrive before the loop over them, during the DELs, are lost.
Streamed == feed \in {"phishtank", "openphish"}
For(f, here, elsewhere) == IF feed = f THEN here ELSE elsewhere
After == [idle     |-> For("phishtank", "cooldown", "fetch"),
          cooldown |-> "fetch",
          fetch    |-> "clear",
          clear    |-> "fill",
          fill     |-> "publish",
          publish  |-> For("phishtank", "tidy", "stamp"),
          tidy     |-> "stamp",
          stamp    |-> IF feed \in {"urlhaus", "openphish"} THEN "finally"
                       ELSE For("phishtank", "forgive", "idle"),
          forgive  |-> "idle",
          finally  |-> For("phishtank", "fallback", "idle"),
          fallback |-> "refuse",
          refuse   |-> "lastfail",
          lastfail |-> "idle",
          stuck    |-> "stuck"]
Labels == DOMAIN After
Deleting == {"clear", "tidy", "finally", "fallback", "refuse"}

\* keys: the sets the phase has still to delete or rename, URLs before hosts.
\* left: what is still to be added to each temporary set.
\* batch: what URLHaus has added to the temporary set, and ingestUrls has still
\* to add to the live one.
At(label, got) ==
    [at   |-> label,
     got  |-> IF label = "idle" THEN {} ELSE got,
     keys |-> IF label \in Deleting \cup {"publish"} THEN Keys ELSE {},
     left |-> [k \in Sets |-> IF label = "fill" /\ k \in Keys THEN got ELSE {}],
     batch |-> {}]
Loads == [at : Labels, got : SUBSET Entries, keys : SUBSET Sets,
          left : [Sets -> SUBSET Entries], batch : SUBSET Entries]
Idle == At("idle", {})
Turn(l) == IF "urls" \in load[l].keys THEN "urls" ELSE "hosts"

Goto(l, label) == load' = [load EXCEPT ![l] = At(label, @.got)]
Continue(l) == Goto(l, After[load[l].at])
\* Mutation: the phase never ends.
NextKey_Stay(l) == load' = [load EXCEPT ![l].keys = @ \ {Turn(l)}]
\* The command was for one of the sets: the next is for the other.
NextKey(l) ==
    IF load[l].keys = {Turn(l)}
    THEN Continue(l)
    ELSE load' = [load EXCEPT ![l].keys = @ \ {Turn(l)}]
\* The rest of the try block is skipped.
Abandon(l) == Goto(l, IF HasFinally THEN "finally" ELSE "idle")
-----------------------------------------------------------------------------
Init ==
    /\ feed \in Feeds /\ continuous \in BOOLEAN /\ calm = FALSE
    /\ live = [k \in Sets |-> {}] /\ temp = [k \in Sets |-> {}]
    /\ fresh = FALSE /\ cooling = FALSE
    /\ load = [l \in Loaders |-> Idle]

Fired(l) == load[l].at = "idle" /\ (l = CacheManager \/ continuous)

\* The timer of the cycle or of the poller fires, and the feed has expired.
Begin(l) ==
    /\ Fired(l) /\ ~fresh
    /\ Continue(l)
    /\ UNCHANGED <<config, calm, store>>

\* It has not expired, or the question fails: the finally block of URLHaus and
\* of OpenPhish deletes the temporary keys all the same.
NothingToDo(l) ==
    /\ Fired(l) /\ (fresh \/ ~calm)
    /\ feed \in {"urlhaus", "openphish"}
    /\ Abandon(l)
    /\ UNCHANGED <<config, calm, store>>

LookAtLastFail(l) ==
    /\ load[l].at = "cooldown"
    /\ IF cooling THEN Goto(l, "idle") ELSE Continue(l)
    /\ UNCHANGED <<config, calm, store>>

\* Mutation: what a broken connection left of the feed is taken for a version.
Fetch_CutShort(l) ==
    /\ load[l].at = "fetch"
    /\ \E got \in SUBSET Entries : load' = [load EXCEPT ![l] = At("clear", got)]
    /\ UNCHANGED <<config, calm, store>>

\* The feed answers with a version; or with nothing, and PhishStats with the
\* pages before one that is not an array.  Of a stream, got is what the loop
\* will see.
Fetch(l) ==
    /\ load[l].at = "fetch"
    /\ \E got \in SUBSET Entries :
        /\ \/ Lasting \subseteq got \/ Streamed
           \/ ~calm /\ (got = {} \/ feed = "phishstats")
        /\ load' = [load EXCEPT ![l] =
                       IF feed = "phishstats" /\ got = {} THEN Idle ELSE At("clear", got)]
    /\ UNCHANGED <<config, calm, store>>

\* Mutation: a load does not clear what an earlier one left behind.
Delete_LeftBehind(l) ==
    /\ load[l].at \in Deleting
    /\ temp' = [temp EXCEPT ![Turn(l)] = IF load[l].at = "clear" THEN @ ELSE {}]
    /\ NextKey(l)
    /\ UNCHANGED <<config, calm, live, fresh, cooling>>

\* DEL of a temporary key.
Delete(l) ==
    /\ load[l].at \in Deleting
    /\ temp' = [temp EXCEPT ![Turn(l)] = {}]
    /\ NextKey(l)
    /\ UNCHANGED <<config, calm, live, fresh, cooling>>

\* What a load has still to do once e is in the temporary set k.
Less(r, k, e) ==
    [at    |-> r.at, got |-> r.got, keys |-> r.keys,
     left  |-> [r.left EXCEPT ![k] = @ \ {e}],
     batch |-> For("urlhaus", {e}, {})]

\* SADD of a batch to a temporary set.
Add(l) ==
    /\ load[l].at = "fill" /\ load[l].batch = {}
    /\ \E k \in Keys, e \in Entries :
        /\ e \in load[l].left[k]
        /\ temp' = [temp EXCEPT ![k] = @ \cup {e}]
        /\ load' = [load EXCEPT ![l] = Less(@, k, e)]
    /\ UNCHANGED <<config, calm, live, fresh, cooling>>

\* ingestUrls: SADD of the batch to the live set.  Its failures are caught.
Ingest(l) ==
    /\ load[l].at = "fill" /\ load[l].batch # {}
    /\ load' = [load EXCEPT ![l].batch = {}]
    /\ \/ live' = [live EXCEPT !["urls"] = @ \cup load[l].batch]
       \/ ~calm /\ UNCHANGED live
    /\ UNCHANGED <<config, calm, temp, fresh, cooling>>

\* Every batch is in; a feed of no entry is not published.
Filled(l) ==
    /\ load[l].at = "fill" /\ load[l].batch = {}
    /\ \A k \in Keys : load[l].left[k] = {}
    /\ IF load[l].got = {} THEN Abandon(l) ELSE Continue(l)
    /\ UNCHANGED <<config, calm, store>>

\* The stream has ended before the loop over its lines begins, which then waits
\* for ever.
Hang(l) ==
    /\ load[l].at = "fill" /\ Streamed /\ load[l].got = {}
    /\ Goto(l, "stuck")
    /\ UNCHANGED <<config, calm, store>>

\* Mutation: the live key is deleted, then the temporary one copied, if there.
Publish_Copy(l) ==
    /\ load[l].at = "publish"
    /\ live' = [live EXCEPT ![Turn(l)] = temp[Turn(l)]]
    /\ NextKey(l)
    /\ UNCHANGED <<config, calm, temp, fresh, cooling>>

\* RENAME of a temporary key over a live one.
Publish(l) ==
    /\ load[l].at = "publish"
    /\ temp[Turn(l)] # {}
    /\ live' = [live EXCEPT ![Turn(l)] = temp[Turn(l)]]
    /\ temp' = [temp EXCEPT ![Turn(l)] = {}]
    /\ \/ NextKey(l)
       \/ ~calm /\ Abandon(l)
    /\ UNCHANGED <<config, calm, fresh, cooling>>

\* RENAME of a key that is not there is an error.
NothingToRename(l) ==
    /\ load[l].at = "publish"
    /\ temp[Turn(l)] = {}
    /\ Abandon(l)
    /\ UNCHANGED <<config, calm, store>>

\* Mutation: SET of another key than the one read.
Stamp_OtherKey(l) ==
    /\ load[l].at = "stamp"
    /\ Continue(l)
    /\ UNCHANGED <<config, calm, store>>

\* SET of last_update,
Stamp(l) ==
    /\ load[l].at = "stamp"
    /\ fresh' = TRUE
    /\ Continue(l)
    /\ UNCHANGED <<config, calm, live, temp, cooling>>

\* after which PhishTank deletes last_fail.
Forgive(l) ==
    /\ load[l].at = "forgive"
    /\ cooling' = FALSE
    /\ Continue(l)
    /\ UNCHANGED <<config, calm, live, temp, fresh>>

\* Both of PhishTank's attempts have failed.
RecordFailure(l) ==
    /\ load[l].at = "lastfail"
    /\ cooling' = TRUE
    /\ Continue(l)
    /\ UNCHANGED <<config, calm, live, temp, fresh>>

\* PhishTank's second attempt, for the JSON feed, fails before its first DEL.
FallbackFails(l) ==
    /\ ~calm /\ load[l].at = "fallback"
    /\ Continue(l)
    /\ UNCHANGED <<config, calm, store>>

\* Mutation: a failed rename is logged and the feed is stamped.
Fail_StampAnyway(l) ==
    /\ ~calm
    /\ IF load[l].at = "publish" THEN Goto(l, "stamp") ELSE Abandon(l)
    /\ UNCHANGED <<config, calm, store>>

\* A command or a request fails: in a try block it ends the block, after it the
\* load.
Fail(l) ==
    /\ ~calm /\ load[l].batch = {}
    /\ \/ load[l].at \in {"fetch", "clear", "fill", "publish"} /\ Abandon(l)
       \/ load[l].at = "stamp" /\ (IF feed = "phishtank" THEN Goto(l, "idle") ELSE Abandon(l))
       \/ /\ load[l].at \in {"cooldown", "tidy", "forgive", "finally", "fallback",
                              "refuse", "lastfail"}
          /\ Goto(l, "idle")
    /\ UNCHANGED <<config, calm, store>>

\* The master dies and is started again.
Crash ==
    /\ ~calm
    /\ load' = [l \in Loaders |-> Idle]
    /\ UNCHANGED <<config, calm, store>>

\* What a checker finds whose SISMEMBERs succeed (a failed one answers 0), read
\* in one step: the URL, or else its host.  The Bloom filter that PhishTank's
\* looks at first never decides: the set is read whatever it says.
Score(e) ==
    IF e \in live["urls"] THEN 100
    ELSE IF e \in live["hosts"] /\ e \notin Trusted THEN 80 ELSE 0
-----------------------------------------------------------------------------
Expire == fresh /\ fresh' = FALSE
          /\ UNCHANGED <<config, calm, live, temp, cooling, load>>
CoolDown == cooling /\ cooling' = FALSE
            /\ UNCHANGED <<config, calm, live, temp, fresh, load>>
BecomeCalm == ~calm /\ calm' = TRUE /\ UNCHANGED <<config, store, load>>
-----------------------------------------------------------------------------
Step(l) ==
    \/ Begin(l) \/ NothingToDo(l) \/ LookAtLastFail(l) \/ Fetch(l) \/ Delete(l)
    \/ Add(l) \/ Ingest(l) \/ Filled(l) \/ Hang(l) \/ Publish(l) \/ NothingToRename(l)
    \/ Stamp(l) \/ Forgive(l) \/ RecordFailure(l) \/ FallbackFails(l) \/ Fail(l)

Next ==
    \/ \E l \in Loaders : Step(l)
    \/ Crash \/ Expire \/ CoolDown \/ BecomeCalm

Spec == Init /\ [][Next]_vars

\* Requests have timeouts, Redis answers or rejects, the timers fire (that of the
\* cycle, unless another feed's load hangs) and the cooldown passes.  Nothing
\* obliges failures to end.
FairSpec ==
    /\ Spec
    /\ \A l \in Loaders : WF_vars(Step(l))
    /\ WF_vars(CoolDown)
-----------------------------------------------------------------------------
TypeOK ==
    /\ feed \in Feeds /\ continuous \in BOOLEAN /\ calm \in BOOLEAN
    /\ live \in [Sets -> SUBSET Entries] /\ temp \in [Sets -> SUBSET Entries]
    /\ fresh \in BOOLEAN /\ cooling \in BOOLEAN
    /\ load \in [Loaders -> Loads]
    /\ \A l \in Loaders : load[l].keys # {} <=> load[l].at \in Deleting \cup {"publish"}

\* Without the poller, a feed whose last_update holds off the next load
\* (openPhish.ts:19, phishStats.ts:23) has its URLs and its hosts from one
\* version: a load that fails between its two renames leaves them apart, but
\* never stamped, so the next tick of the cycle mends them.
FreshIsConsistent ==
    fresh /\ ~continuous => \A k \in Keys : live[k] = live["urls"]

\* Once a set of the feed has entries no load leaves it empty, whatever
\* overlaps, fails or crashes: "Never discard valid data on a failed refresh"
\* (phishStats.ts:102).
NeverEmptied == [][\A k \in Sets : live[k] # {} => live'[k] # {}]_vars

\* Without the poller, what a load publishes is what it read, no more and no
\* less: nothing an earlier load left in the temporary keys, when it failed or
\* its process died, comes with it (phishStats.ts:56-57, urlHaus.ts:41-42).
PublishesWhatItRead ==
    [][\A l \in Loaders :
         ~continuous /\ Publish(l) => live'[Turn(l)] = load[l].got]_vars

\* Without the poller, a URL that every version lists is flagged, from the first
\* time it is, by every lookup whose SISMEMBER succeeds (one that fails answers
\* 0: urlHaus.ts:138-142): no load, failed or not, takes it off the list even
\* for a moment.  Only URLHaus, read as a whole (urlHaus.ts:35-39), keeps this:
\* PhishStats' cut-short pages replace the list (phishStats.ts:38-41) and so
\* does what is left of a stream (openPhish.ts:30-42).
LastingStaysFlagged ==
    [][\A e \in Lasting :
         ~continuous /\ feed = "urlhaus" /\ Score(e) = 100 => Score(e)' = 100]_vars

\* Without the poller, once failures end an expired feed is loaded, if in the end
\* no stream loses what lasts: neither the cooldown nor what earlier loads left
\* behind keeps the next from succeeding.
Whole == load[CacheManager].at \in {"clear", "fill", "stuck"} =>
             Lasting \subseteq load[CacheManager].got
RefreshedAgain == <>[]Whole => (calm /\ ~continuous ~> fresh)
=============================================================================
