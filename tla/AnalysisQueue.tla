---------------------------- MODULE AnalysisQueue ----------------------------
(***************************************************************************)
(* The list analysis_queue: checkPhishTank appends every URL it does not   *)
(* find listed, whoever scans it; runWorkerLoop in the master takes from   *)
(* the same end, and analyses what it takes with analyzeUrl, which runs    *)
(* checkPhishTank again.                                                   *)
(*                                                                         *)
(* A scan is reduced to what the queue can tell apart: a look at the scan  *)
(* cache, PhishTank's verdict with the append it causes, and the result    *)
(* being cached.  An append may come late: the checker goes on when it has *)
(* lost the race against its timer.                                        *)
(***************************************************************************)
EXTENDS Naturals, Sequences, FiniteSets, SequencesExt

CONSTANTS Urls,
          Users,    \* slots in which the workers serve requests
          Analyst,  \* the scan runWorkerLoop is making
          MaxAsked  \* bound on the requests

ASSUME QueueAssumption ==
    Urls # {} /\ IsFiniteSet(Users) /\ Analyst \notin Users /\ MaxAsked \in Nat

VARIABLES brpop,     \* the Redis client has the command; else the loop only fails
          asked,     \* requests so far
          listed,    \* URLs in phishtank_urls
          cached,    \* URLs with a current entry for the profile "free"
          queue,     \* analysis_queue, left to right
          owed,      \* the URLs of the appends under way, in no order that matters
          scan       \* every scan: where it is, its URL, its cache profile

outside == <<brpop, asked, listed>>
queueVars == <<outside, cached, queue, owed, scan>>

Scans == Users \cup {Analyst}
Labels == {"idle", "enrich", "cache", "check", "verdict", "meta"}
At(label, u, free) == [at |-> label, url |-> u, free |-> free]
NoScan == At("idle", CHOOSE u \in Urls : TRUE, TRUE)

Goto(s, label) == scan' = [scan EXCEPT ![s] = IF label = "idle" THEN NoScan
                                              ELSE [@ EXCEPT !.at = label]]
\* Mutation: a request leaves the loop's metadata step to do.
Return_AlwaysMeta(s) == Goto(s, "meta")

\* analyzeUrl returns: the route answers, the loop has metadata to store.
Return(s) == Goto(s, IF s = Analyst THEN "meta" ELSE "idle")
-----------------------------------------------------------------------------
QueueInit ==
    /\ brpop \in BOOLEAN /\ asked = 0
    /\ listed \in SUBSET Urls /\ cached = {}
    /\ queue = <<>>
    /\ owed = <<>>
    /\ scan = [s \in Scans |-> NoScan]

\* A request, with ML or without: the two have separate cache entries.
Ask(s) ==
    /\ s \in Users /\ scan[s].at = "idle"
    /\ asked < MaxAsked
    /\ asked' = asked + 1
    /\ \E u \in Urls, free \in BOOLEAN : scan' = [scan EXCEPT ![s] = At("cache", u, free)]
    /\ UNCHANGED <<brpop, listed, cached, queue, owed>>

\* Mutation: the item is read and left in the list.
Pop_Peek ==
    /\ scan[Analyst].at = "idle"
    /\ brpop /\ queue # <<>>
    /\ scan' = [scan EXCEPT ![Analyst] = At("enrich", Last(queue), TRUE)]
    /\ UNCHANGED <<outside, cached, queue, owed>>

\* BRPOP takes what was appended last.
Pop ==
    /\ scan[Analyst].at = "idle"
    /\ brpop /\ queue # <<>>
    /\ queue' = Front(queue)
    /\ scan' = [scan EXCEPT ![Analyst] = At("enrich", Last(queue), TRUE)]
    /\ UNCHANGED <<outside, cached, owed>>

\* enrichUrl, whose failures are caught.
Enrich ==
    /\ scan[Analyst].at = "enrich"
    /\ Goto(Analyst, "cache")
    /\ UNCHANGED <<outside, cached, queue, owed>>

Hit(s) ==
    /\ scan[s].at = "cache"
    /\ scan[s].free => scan[s].url \in cached
    /\ Return(s)
    /\ UNCHANGED <<outside, cached, queue, owed>>

\* No entry; or the cache cannot be read, or its reply not parsed (see Scanner).
Miss(s) ==
    /\ scan[s].at = "cache"
    /\ Goto(s, "check")
    /\ UNCHANGED <<outside, cached, queue, owed>>

\* A URL PhishTank lists, or whose set it fails to read, is not appended.
CheckPhishTank(s) ==
    /\ scan[s].at = "check"
    /\ \/ scan[s].url \notin listed /\ owed' = Append(owed, scan[s].url)
       \/ UNCHANGED owed
    /\ Goto(s, "verdict")
    /\ UNCHANGED <<outside, cached, queue>>

\* RPUSH, or its failure, which is caught.
Push(u) ==
    /\ \E i \in DOMAIN owed : owed[i] = u /\ owed' = RemoveAt(owed, i)
    /\ \/ queue' = Append(queue, u)
       \/ UNCHANGED queue
    /\ UNCHANGED <<outside, cached, scan>>

\* The checkers' verdict.  It is cached, for "free" or for the other profile; or
\* not, being safe (unless SCAN_CACHE_SAFE_RESULTS) or Redis failing.
Verdict(s) ==
    /\ scan[s].at = "verdict"
    /\ \/ scan[s].free /\ cached' = cached \cup {scan[s].url}
       \/ UNCHANGED cached
    /\ Return(s)
    /\ UNCHANGED <<outside, queue, owed>>

StoreMeta ==
    /\ scan[Analyst].at = "meta"
    /\ Goto(Analyst, "idle")
    /\ UNCHANGED <<outside, cached, queue, owed>>

\* A process dies: a scan ends unanswered, an item taken is lost.
Crash(s) ==
    /\ scan[s].at # "idle"
    /\ Goto(s, "idle")
    /\ UNCHANGED <<outside, cached, queue, owed>>

Expire(u) ==
    /\ u \in cached
    /\ cached' = cached \ {u}
    /\ UNCHANGED <<outside, queue, owed, scan>>
-----------------------------------------------------------------------------
Analyse(s) == Hit(s) \/ Miss(s) \/ CheckPhishTank(s) \/ Verdict(s)
Loop == Pop \/ Enrich \/ StoreMeta

QueueNext ==
    \/ \E s \in Scans : Ask(s) \/ Analyse(s) \/ Crash(s)
    \/ \E u \in Urls : Push(u) \/ Expire(u)
    \/ Loop

QueueSpec == QueueInit /\ [][QueueNext]_queueVars
-----------------------------------------------------------------------------
QueueTypeOK ==
    /\ brpop \in BOOLEAN /\ asked \in 0..MaxAsked
    /\ listed \subseteq Urls /\ cached \subseteq Urls
    /\ queue \in Seq(Urls)
    /\ owed \in Seq(Urls)
    /\ scan \in [Scans -> [at : Labels, url : Urls, free : BOOLEAN]]
    /\ \A s \in Users : scan[s].at \notin {"enrich", "meta"}

\* The loop's own analyses, each of which may append the URL it took, never
\* make the queue longer than the requests did (phishtank.ts:256, worker.ts:26):
\* what is queued, about to be, or may yet be, is at most one URL for each.
MayPush == {s \in Scans : scan[s].at \in {"enrich", "cache", "check"}}
QueueWithinAsked == Len(queue) + Len(owed) + Cardinality(MayPush) <= asked
=============================================================================
