----------------------------- MODULE MasterProofs -----------------------------
(***************************************************************************)
(* Proofs about the master process, beside the requests: the worker loop   *)
(* and the list it empties (AnalysisQueue), for any URLs and requests; and *)
(* the life of the cluster's processes, with CacheManager's cycle          *)
(* (Lifecycle), for any number of workers.                                 *)
(***************************************************************************)
EXTENDS AnalysisQueue, Lifecycle, SequenceTheorems, FiniteSetTheorems, TLAPS

\* A scan that may still append its URL counts for one.
Pending == {"enrich", "cache", "check"}
Counts(label) == IF label \in Pending THEN 1 ELSE 0

ScanRecords == [at : Labels, url : Urls, free : BOOLEAN]
ScansTyped ==
    /\ scan \in [Scans -> ScanRecords]
    /\ \A s \in Users : scan[s].at \notin {"enrich", "meta"}

\* The environment stays as it is.
Unasked == UNCHANGED <<brpop, asked, listed>>

QInv == QueueTypeOK /\ QueueWithinAsked
-----------------------------------------------------------------------------
\* A sequence without its last element, and the element.
LEMMA FrontAndLast ==
    ASSUME NEW S, NEW q \in Seq(S), q # <<>>
    PROVE  Front(q) \in Seq(S) /\ Len(Front(q)) = Len(q) - 1 /\ Last(q) \in S
<1>1. Len(q) \in Nat \ {0} /\ \A i \in 1..Len(q) : q[i] \in S
  BY EmptySeq, ElementOfSeq
<1>2. Last(q) \in S
  BY <1>1 DEF Last
<1> DEFINE n == Len(q) - 1
           front == SubSeq(q, 1, n)
<1>3. front \in Seq(S) /\ Len(front) = n
  <2>1. n \in Nat /\ \A i \in 1..n : q[i] \in S
    BY <1>1
  <2> HIDE DEF n
  <2> QED
    BY <2>1, SubSeqProperties
<1>4. Front(q) = front
  BY DEF Front
<1> HIDE DEF front
<1> QED
  BY <1>2, <1>3, <1>4

\* A sequence with one element taken out.
LEMMA OneRemoved ==
    ASSUME NEW S, NEW q \in Seq(S), NEW i \in DOMAIN q
    PROVE  RemoveAt(q, i) \in Seq(S) /\ Len(RemoveAt(q, i)) = Len(q) - 1
<1>1. Len(q) \in Nat /\ i \in 1..Len(q) /\ \A j \in 1..Len(q) : q[j] \in S
  BY LenProperties, ElementOfSeq
<1> DEFINE before == SubSeq(q, 1, i - 1)
           after == SubSeq(q, i + 1, Len(q))
<1>2. before \in Seq(S) /\ Len(before) = i - 1
  BY <1>1, SubSeqProperties
<1>3. after \in Seq(S) /\ Len(after) = Len(q) - i
  BY <1>1, SubSeqProperties
<1>4. before \o after \in Seq(S) /\ Len(before \o after) = Len(before) + Len(after)
  BY <1>2, <1>3, ConcatProperties
<1>5. RemoveAt(q, i) = before \o after
  BY DEF RemoveAt
<1> HIDE DEF before, after
<1> QED
  BY <1>1, <1>2, <1>3, <1>4, <1>5

\* There are finitely many scans, so the pending ones can be counted.
LEMMA PendingCount ==
    IsFiniteSet(MayPush) /\ Cardinality(MayPush) \in Nat /\ Cardinality(MayPush') \in Nat
<1>1. IsFiniteSet(Scans)
  BY QueueAssumption, FS_AddElement DEF Scans
<1> QED
  BY <1>1, FS_Subset, FS_CardinalityType DEF MayPush

\* One scan moves: the scans stay typed, and the count changes by what it counts.
LEMMA ScanMoves ==
    ASSUME ScansTyped, NEW s \in Scans, NEW r \in ScanRecords,
           s \in Users => r.at \notin {"enrich", "meta"},
           scan' = [scan EXCEPT ![s] = r]
    PROVE  /\ ScansTyped'
           /\ Cardinality(MayPush') = Cardinality(MayPush) + Counts(r.at) - Counts(scan[s].at)
<1>1. /\ scan' \in [Scans -> ScanRecords] /\ scan'[s] = r
      /\ \A x \in Scans : x # s => scan'[x] = scan[x]
  BY DEF ScansTyped
<1>2. ScansTyped'
  BY <1>1 DEF ScansTyped, Scans, ScanRecords, Labels
<1>3. MayPush' = IF r.at \in Pending THEN MayPush \cup {s} ELSE MayPush \ {s}
  BY <1>1 DEF MayPush, Pending
<1>4. s \in MayPush <=> scan[s].at \in Pending
  BY DEF MayPush, Pending
<1>5. /\ Cardinality(MayPush \cup {s}) =
            IF s \in MayPush THEN Cardinality(MayPush) ELSE Cardinality(MayPush) + 1
      /\ Cardinality(MayPush \ {s}) =
            IF s \in MayPush THEN Cardinality(MayPush) - 1 ELSE Cardinality(MayPush)
  BY PendingCount, FS_AddElement, FS_RemoveElement
<1>6. Cardinality(MayPush) \in Nat
  BY PendingCount
<1> QED
  BY <1>2, <1>3, <1>4, <1>5, <1>6 DEF Counts

\* An idle scan is a scan.
LEMMA Idle == NoScan \in ScanRecords /\ NoScan.at = "idle"
BY QueueAssumption DEF NoScan, At, ScanRecords, Labels

\* A scan goes to another step, with the URL and the profile it has.
LEMMA GotoMoves ==
    ASSUME ScansTyped, NEW s \in Scans, NEW label \in Labels, Goto(s, label),
           s \in Users => label \notin {"enrich", "meta"}
    PROVE  /\ ScansTyped'
           /\ Cardinality(MayPush') = Cardinality(MayPush) + Counts(label) - Counts(scan[s].at)
<1>1. CASE label = "idle"
  <2>1. scan' = [scan EXCEPT ![s] = NoScan]
    BY <1>1 DEF Goto
  <2> QED
    BY <1>1, <2>1, Idle, ScanMoves
<1>2. CASE label # "idle"
  <2> DEFINE r == [scan[s] EXCEPT !.at = label]
  <2>1. scan[s] \in ScanRecords
    BY DEF ScansTyped
  <2>2. r \in ScanRecords /\ r.at = label
    BY <2>1 DEF ScanRecords
  <2>3. scan' = [scan EXCEPT ![s] = r]
    BY <1>2 DEF Goto
  <2> HIDE DEF r
  <2> QED
    BY <2>2, <2>3, ScanMoves
<1> QED
  BY <1>1, <1>2

\* analyzeUrl returns: its scan has nothing more to append.
LEMMA ReturnMoves ==
    ASSUME ScansTyped, NEW s \in Scans, Return(s)
    PROVE  ScansTyped' /\ Cardinality(MayPush') = Cardinality(MayPush) - Counts(scan[s].at)
<1> DEFINE label == IF s = Analyst THEN "meta" ELSE "idle"
<1>1. label \in Labels /\ Counts(label) = 0 /\ (s \in Users => label \notin {"enrich", "meta"})
  BY QueueAssumption DEF Labels, Counts, Pending
<1>2. Goto(s, label)
  BY DEF Return
<1>3. Cardinality(MayPush) \in Nat /\ Counts(scan[s].at) \in Nat
  BY PendingCount DEF Counts
<1> HIDE DEF label
<1> QED
  BY <1>1, <1>2, <1>3, GotoMoves

\* The invariant holds when nothing has been asked.
LEMMA QueueInitial == QueueInit => QInv
<1> SUFFICES ASSUME QueueInit PROVE QInv
  OBVIOUS
<1>1. QueueTypeOK
  <2>1. queue \in Seq(Urls) /\ owed \in Seq(Urls)
    BY EmptySeq DEF QueueInit
  <2>2. scan \in [Scans -> ScanRecords]
    BY Idle DEF QueueInit
  <2>3. \A s \in Users : scan[s].at = "idle"
    BY Idle DEF QueueInit, Scans
  <2>4. asked \in 0..MaxAsked
    BY QueueAssumption DEF QueueInit
  <2> QED
    BY <2>1, <2>2, <2>3, <2>4 DEF QueueInit, QueueTypeOK, ScanRecords
<1>2. MayPush = {} /\ Len(queue) = 0 /\ Len(owed) = 0
  BY Idle, EmptySeq DEF QueueInit, MayPush
<1>3. QueueWithinAsked
  BY <1>2, FS_EmptySet DEF QueueInit, QueueWithinAsked
<1> QED
  BY <1>1, <1>3 DEF QInv

\* What a step adds to the queue, or to what is owed to it, is no more than it
\* takes off the scans that may append, or than what it adds to the requests.
LEMMA Balance ==
    ASSUME QInv, ScansTyped', queue' \in Seq(Urls), owed' \in Seq(Urls),
           asked' \in 0..MaxAsked, cached' \subseteq Urls,
           UNCHANGED <<brpop, listed>>,
           Len(queue') + Len(owed') + Cardinality(MayPush') - asked'
             <= Len(queue) + Len(owed) + Cardinality(MayPush) - asked
    PROVE  QInv'
<1>1. QueueTypeOK'
  BY DEF QInv, QueueTypeOK, ScansTyped, ScanRecords, Labels, Scans
<1>2. /\ Len(queue) \in Nat /\ Len(owed) \in Nat /\ Cardinality(MayPush) \in Nat
      /\ Len(queue') \in Nat /\ Len(owed') \in Nat /\ asked \in Nat /\ asked' \in Nat
      /\ Cardinality(MayPush') \in Nat
  BY PendingCount, LenProperties, QueueAssumption DEF QInv, QueueTypeOK
<1>3. QueueWithinAsked'
  BY <1>2 DEF QInv, QueueWithinAsked
<1> QED
  BY <1>1, <1>3 DEF QInv

\* A step of a scan that leaves both lists alone and does not make it pending.
LEMMA QuietStep ==
    ASSUME QInv, Unasked, UNCHANGED <<queue, owed>>, cached' \subseteq Urls,
           ScansTyped', Cardinality(MayPush') <= Cardinality(MayPush)
    PROVE  QInv'
<1>1. /\ Len(queue) \in Nat /\ Len(owed) \in Nat /\ Cardinality(MayPush) \in Nat
      /\ Cardinality(MayPush') \in Nat /\ asked \in Nat
  BY PendingCount, LenProperties, QueueAssumption DEF QInv, QueueTypeOK
<1> QED
  BY <1>1, Balance DEF QInv, QueueTypeOK, Unasked

\* A request makes one scan pending, and is counted.
LEMMA AskStep == ASSUME QInv, NEW s \in Scans, Ask(s) PROVE QInv'
<1>1. PICK r \in ScanRecords : r.at = "cache" /\ scan' = [scan EXCEPT ![s] = r]
  BY DEF Ask, At, ScanRecords, Labels
<1>2. Counts(r.at) = 1 /\ r.at \notin {"enrich", "meta"}
  BY <1>1 DEF Counts, Pending
<1>3. ScansTyped
  BY DEF QInv, QueueTypeOK, ScansTyped, ScanRecords
<1>4. ScansTyped' /\ Cardinality(MayPush') = Cardinality(MayPush) + 1
  <2>1. Counts(scan[s].at) = 0 /\ Cardinality(MayPush) \in Nat
    BY PendingCount DEF Ask, Counts, Pending
  <2>2. /\ ScansTyped'
        /\ Cardinality(MayPush') = Cardinality(MayPush) + Counts(r.at) - Counts(scan[s].at)
    BY <1>1, <1>2, <1>3, ScanMoves
  <2> QED
    BY <1>2, <2>1, <2>2
<1>5. /\ asked' = asked + 1 /\ asked \in Nat /\ asked' \in 0..MaxAsked
      /\ UNCHANGED <<brpop, listed, cached, queue, owed>>
  BY QueueAssumption DEF Ask, QInv, QueueTypeOK
<1>6. /\ Len(queue) \in Nat /\ Len(owed) \in Nat /\ Cardinality(MayPush) \in Nat
  BY PendingCount, LenProperties DEF QInv, QueueTypeOK
<1> QED
  BY <1>4, <1>5, <1>6, Balance DEF QInv, QueueTypeOK

\* The loop takes an item off the queue and may append it again.
LEMMA PopStep == ASSUME QInv, Pop PROVE QInv'
<1> DEFINE r == At("enrich", Last(queue), TRUE)
<1>1. /\ Front(queue) \in Seq(Urls) /\ Len(Front(queue)) = Len(queue) - 1
      /\ Last(queue) \in Urls
  BY FrontAndLast DEF Pop, QInv, QueueTypeOK
<1>2. r \in ScanRecords /\ r.at = "enrich"
  BY <1>1 DEF At, ScanRecords, Labels
<1>3. ScansTyped /\ Analyst \in Scans /\ Analyst \notin Users
  BY QueueAssumption DEF QInv, QueueTypeOK, ScansTyped, ScanRecords, Scans
<1>4. scan' = [scan EXCEPT ![Analyst] = r]
  BY DEF Pop
<1>5. Counts(r.at) = 1 /\ Counts(scan[Analyst].at) = 0 /\ Cardinality(MayPush) \in Nat
  BY <1>2, PendingCount DEF Pop, Counts, Pending
<1> HIDE DEF r
<1>6. ScansTyped' /\ Cardinality(MayPush') = Cardinality(MayPush) + 1
  <2>1. /\ ScansTyped'
        /\ Cardinality(MayPush') =
             Cardinality(MayPush) + Counts(r.at) - Counts(scan[Analyst].at)
    BY <1>2, <1>3, <1>4, ScanMoves
  <2> QED
    BY <1>5, <2>1
<1>7. queue' = Front(queue) /\ UNCHANGED <<brpop, asked, listed, cached, owed>>
  BY DEF Pop, outside
<1>8. /\ Len(queue) \in Nat /\ Len(owed) \in Nat /\ Cardinality(MayPush) \in Nat
      /\ asked \in Nat
  BY PendingCount, LenProperties, QueueAssumption DEF QInv, QueueTypeOK
<1> QED
  BY <1>1, <1>6, <1>7, <1>8, Balance DEF QInv, QueueTypeOK

\* The checker that appends its URL is done with it.
LEMMA CheckStep == ASSUME QInv, NEW s \in Scans, CheckPhishTank(s) PROVE QInv'
<1>1. ScansTyped /\ scan[s].url \in Urls
  BY DEF QInv, QueueTypeOK, ScansTyped, ScanRecords
<1>2. Counts("verdict") = 0 /\ Counts(scan[s].at) = 1 /\ "verdict" \in Labels
  BY DEF CheckPhishTank, Counts, Pending, Labels
<1>3. ScansTyped' /\ Cardinality(MayPush') = Cardinality(MayPush) - 1
  <2>1. Goto(s, "verdict")
    BY DEF CheckPhishTank
  <2> QED
    BY <1>1, <1>2, <2>1, PendingCount, GotoMoves
<1>4. Unasked /\ UNCHANGED <<cached, queue>>
  BY DEF CheckPhishTank, Unasked, outside
<1>5. owed' \in Seq(Urls) /\ Len(owed') <= Len(owed) + 1
  <2>1. Append(owed, scan[s].url) \in Seq(Urls)
        /\ Len(Append(owed, scan[s].url)) = Len(owed) + 1 /\ Len(owed) \in Nat
    BY <1>1, AppendProperties, LenProperties DEF QInv, QueueTypeOK
  <2> QED
    BY <2>1 DEF CheckPhishTank, QInv, QueueTypeOK
<1>6. /\ Len(queue) \in Nat /\ Len(owed) \in Nat /\ Cardinality(MayPush) \in Nat
      /\ asked \in Nat /\ Len(owed') \in Nat
  BY <1>5, PendingCount, LenProperties, QueueAssumption DEF QInv, QueueTypeOK
<1> QED
  BY <1>3, <1>4, <1>5, <1>6, Balance DEF QInv, QueueTypeOK, Unasked

\* An append executes, or fails.
LEMMA PushStep == ASSUME QInv, NEW u \in Urls, Push(u) PROVE QInv'
<1>1. PICK i \in DOMAIN owed : owed' = RemoveAt(owed, i)
  BY DEF Push
<1>2. owed' \in Seq(Urls) /\ Len(owed') = Len(owed) - 1
  BY <1>1, OneRemoved DEF QInv, QueueTypeOK
<1>3. queue' \in Seq(Urls) /\ Len(queue') <= Len(queue) + 1
  <2>1. Append(queue, u) \in Seq(Urls) /\ Len(Append(queue, u)) = Len(queue) + 1
        /\ Len(queue) \in Nat
    BY AppendProperties, LenProperties DEF QInv, QueueTypeOK
  <2> QED
    BY <2>1 DEF Push, QInv, QueueTypeOK
<1>4. Unasked /\ UNCHANGED <<cached, scan>>
  BY DEF Push, Unasked, outside
<1>5. ScansTyped' /\ MayPush' = MayPush
  BY <1>4 DEF QInv, QueueTypeOK, ScansTyped, ScanRecords, Labels, Scans, MayPush
<1>6. /\ Len(queue) \in Nat /\ Len(owed) \in Nat /\ Cardinality(MayPush) \in Nat
      /\ asked \in Nat /\ Len(queue') \in Nat
  BY <1>3, PendingCount, LenProperties, QueueAssumption DEF QInv, QueueTypeOK
<1> QED
  BY <1>2, <1>3, <1>4, <1>5, <1>6, Balance DEF QInv, QueueTypeOK, Unasked

\* The other steps of a scan: none makes it pending.
LEMMA ScanStep ==
    ASSUME QInv, NEW s \in Scans,
           Hit(s) \/ Miss(s) \/ Verdict(s) \/ Crash(s) \/ (s = Analyst /\ (Enrich \/ StoreMeta))
    PROVE  QInv'
<1>1. ScansTyped /\ scan[s].url \in Urls /\ Cardinality(MayPush) \in Nat
  BY PendingCount DEF QInv, QueueTypeOK, ScansTyped, ScanRecords
<1>2. Unasked /\ UNCHANGED <<queue, owed>> /\ cached' \subseteq Urls
  BY <1>1 DEF Hit, Miss, Verdict, Crash, Enrich, StoreMeta, Unasked, outside, QInv, QueueTypeOK
<1>3. "idle" \in Labels /\ "check" \in Labels /\ "cache" \in Labels /\ Counts("idle") = 0
      /\ Counts(scan[s].at) \in {0, 1}
  BY DEF Labels, Counts, Pending
<1>4. ScansTyped' /\ Cardinality(MayPush') <= Cardinality(MayPush)
  <2>1. CASE Return(s)
    BY <1>1, <1>3, <2>1, ReturnMoves
  <2>2. CASE Goto(s, "idle")
    BY <1>1, <1>3, <2>2, GotoMoves
  <2>3. CASE Goto(s, "check") /\ scan[s].at = "cache"
    <3>1. Counts("check") = 1 /\ Counts("cache") = 1
      BY DEF Counts, Pending
    <3> QED
      BY <1>1, <1>3, <2>3, <3>1, GotoMoves
  <2>4. CASE s = Analyst /\ Goto(s, "cache") /\ scan[s].at = "enrich"
    <3>1. Counts("cache") = 1 /\ Counts("enrich") = 1 /\ s \notin Users
      BY <2>4, QueueAssumption DEF Counts, Pending
    <3> QED
      BY <1>1, <1>3, <2>4, <3>1, GotoMoves
  <2> QED
    BY <2>1, <2>2, <2>3, <2>4 DEF Hit, Miss, Verdict, Crash, Enrich, StoreMeta
<1> QED
  BY <1>2, <1>4, QuietStep

\* An entry expires, or nothing happens.
LEMMA OutsideStep ==
    ASSUME QInv, UNCHANGED queueVars \/ \E u \in Urls : Expire(u) PROVE QInv'
<1>1. /\ UNCHANGED <<brpop, asked, listed, queue, owed, scan>>
      /\ cached' \subseteq Urls
  BY DEF Expire, queueVars, outside, QInv, QueueTypeOK
<1>2. MayPush' = MayPush
  BY <1>1 DEF MayPush
<1> QED
  BY <1>1, <1>2 DEF QInv, QueueTypeOK, QueueWithinAsked

\* No step of a scan, of the loop or of a failure breaks the invariant.
LEMMA QueueInductive == QInv /\ [QueueNext]_queueVars => QInv'
<1> SUFFICES ASSUME QInv, [QueueNext]_queueVars PROVE QInv'
  OBVIOUS
<1>1. CASE UNCHANGED queueVars
  BY <1>1, OutsideStep
<1>2. ASSUME NEW s \in Scans, Ask(s) \/ Analyse(s) \/ Crash(s) PROVE QInv'
  BY <1>2, AskStep, CheckStep, ScanStep DEF Analyse
<1>3. ASSUME NEW u \in Urls, Push(u) \/ Expire(u) PROVE QInv'
  BY <1>3, PushStep, OutsideStep
<1>4. CASE Loop
  BY <1>4, PopStep, ScanStep DEF Loop, Scans
<1> QED
  BY <1>1, <1>2, <1>3, <1>4 DEF QueueNext
-----------------------------------------------------------------------------
\* The scans, the cache and both lists stay well typed: no request is ever left
\* with the loop's metadata to store (worker.ts).
THEOREM QueueTypeCorrect == QueueSpec => []QueueTypeOK
<1>1. QInv => QueueTypeOK
  BY DEF QInv
<1> QED
  BY QueueInitial, QueueInductive, <1>1, PTL DEF QueueSpec

\* The loop's own analyses, which may each append the URL they took, never make
\* the queue longer than the requests did, for any number of URLs, of slots and
\* of requests, whatever fails or crashes.
THEOREM QueueBounded == QueueSpec => []QueueWithinAsked
<1>1. QInv => QueueWithinAsked
  BY DEF QInv
<1> QED
  BY QueueInitial, QueueInductive, <1>1, PTL DEF QueueSpec
-----------------------------------------------------------------------------
\* isRunning is set for as long as a cycle is at work, or hangs, and no longer.
FlagTracksCycle == isRunning <=> cycle \in {"tasks", "cleanups", "hung"}

LInv == TypeOK /\ FlagTracksCycle

\* What a slot may hold: only a worker that listens or drains has a request to
\* answer, and the one that drains has its timer.
SlotOK(p) ==
    /\ p \in Procs
    /\ p.busy => p.at \in {"up", "draining"}
    /\ p.force # "off" <=> p.at = "draining"

\* A process that begins, or is gone, has nothing to do.
LEMMA FreshProc ==
    ASSUME NEW at \in {"starting", "up", "dead", "respawn", "none"}
    PROVE  SlotOK(Proc(at)) /\ Proc(at).at = at
BY DEF SlotOK, Proc, Procs, Alive, Timers

\* One slot changes.
LEMMA SlotMoves ==
    ASSUME LInv, NEW w \in Workers, NEW p, SlotOK(p), worker' = [worker EXCEPT ![w] = p],
           UNCHANGED <<feeds, others, calm, master, shuttingDown, grace, cycle, isRunning>>
    PROVE  LInv'
<1>1. worker' \in [Workers -> Procs] /\ \A x \in Workers : SlotOK(worker'[x])
  BY DEF LInv, TypeOK, SlotOK
<1> QED
  BY <1>1 DEF LInv, TypeOK, FlagTracksCycle, SlotOK

\* The slots stay as they are.
LEMMA MasterMoves ==
    ASSUME LInv, UNCHANGED <<feeds, others, worker>>, calm' \in BOOLEAN,
           master' \in {"boot", "up", "maimed", "gone"}, grace' \in Timers,
           shuttingDown' = shuttingDown, grace' # "off" <=> grace # "off",
           cycle' \in {"off", "tasks", "cleanups", "waiting", "hung"},
           isRunning' \in BOOLEAN, FlagTracksCycle'
    PROVE  LInv'
BY DEF LInv, TypeOK, Procs, Alive, Timers

\* The steps of one slot.
LEMMA SlotStep ==
    ASSUME LInv, NEW w \in Workers,
           \/ WorkerProceeds(w) \/ Request(w) \/ Respond(w)
           \/ WorkerDies(w) \/ WorkerSignalled(w)
    PROVE  LInv'
<1>1. UNCHANGED <<feeds, others, calm, master, shuttingDown, grace, cycle, isRunning>>
  BY DEF WorkerProceeds, Listen, ShutDownWorker, Drained, TenSeconds, ForcedExit,
         NoticeExit, Respawn, Orphaned, Request, Respond, WorkerDies,
         WorkerSignalled, config, cacheManager
<1>2. worker \in [Workers -> Procs] /\ SlotOK(worker[w])
  BY DEF LInv, TypeOK, SlotOK
<1>3. \E p : SlotOK(p) /\ worker' = [worker EXCEPT ![w] = p]
  <2>1. ASSUME NEW at \in {"starting", "up", "dead", "respawn", "none"}, Become(w, at)
        PROVE  \E p : SlotOK(p) /\ worker' = [worker EXCEPT ![w] = p]
    BY <2>1, FreshProc DEF Become
  <2>2. CASE Request(w) \/ Respond(w)
    <3>1. PICK b \in BOOLEAN : /\ worker' = [worker EXCEPT ![w] = [@ EXCEPT !.busy = b]]
                               /\ b => worker[w].at = "up"
      BY <2>2 DEF Request, Respond
    <3>2. SlotOK([worker[w] EXCEPT !.busy = b])
      BY <1>2, <3>1 DEF SlotOK, Procs
    <3> QED
      BY <3>1, <3>2
  <2>3. CASE TenSeconds(w)
    <3>1. worker' = [worker EXCEPT ![w] = [@ EXCEPT !.force = "due"]] /\ worker[w].force = "set"
      BY <2>3 DEF TenSeconds
    <3>2. SlotOK([worker[w] EXCEPT !.force = "due"])
      BY <1>2, <3>1 DEF SlotOK, Procs, Timers
    <3> QED
      BY <3>1, <3>2
  <2>4. CASE ShutDownWorker(w)
    <3> DEFINE p == [Proc("draining") EXCEPT !.busy = worker[w].busy, !.force = "set"]
    <3>1. SlotOK(p)
      BY <1>2 DEF SlotOK, Proc, Procs, Alive, Timers
    <3> QED
      BY <2>4, <3>1 DEF ShutDownWorker
  <2>5. CASE WorkerSignalled(w) /\ worker[w].at # "starting"
    <3>1. worker' = [worker EXCEPT ![w] = [@ EXCEPT !.told = TRUE]]
      BY <2>5 DEF WorkerSignalled
    <3>2. SlotOK([worker[w] EXCEPT !.told = TRUE])
      BY <1>2 DEF SlotOK, Procs
    <3> QED
      BY <3>1, <3>2
  <2>6. CASE WorkerSignalled(w) /\ worker[w].at = "starting"
    BY <2>1, <2>6 DEF WorkerSignalled
  <2>7. CASE NoticeExit(w)
    BY <2>1, <2>7 DEF NoticeExit
  <2> QED
    BY <2>1, <2>2, <2>3, <2>4, <2>5, <2>6, <2>7
       DEF WorkerProceeds, Listen, Drained, ForcedExit, Respawn, Orphaned,
           WorkerDies
<1> QED
  BY <1>1, <1>3, SlotMoves

\* The signals of a shutdown leave every slot as it may be.
LEMMA ShutDownStep == ASSUME LInv, ShutDownMaster PROVE LInv'
<1>1. \A x \in Workers : worker[x] \in Procs /\ SlotOK(worker[x])
  BY DEF LInv, TypeOK, SlotOK
<1>2. ASSUME NEW p, SlotOK(p) PROVE SlotOK(SignalTo(p))
  <2>1. CASE p.at = "starting"
    BY <2>1, FreshProc DEF SignalTo
  <2>2. CASE p.at # "starting"
    BY <1>2, <2>2 DEF SignalTo, SlotOK, Procs
  <2> QED
    BY <2>1, <2>2
<1>3. worker' = [w \in Workers |-> SignalTo(worker[w])]
  BY DEF ShutDownMaster
<1>4. worker' \in [Workers -> Procs] /\ \A x \in Workers : SlotOK(worker'[x])
  BY <1>1, <1>2, <1>3 DEF SlotOK
<1>5. /\ UNCHANGED <<feeds, others, calm, master, isRunning>>
      /\ shuttingDown' = TRUE /\ grace' \in {"set", "due"}
      /\ cycle' \in {"off", "tasks", "cleanups", "waiting", "hung"} /\ FlagTracksCycle'
  BY DEF LInv, TypeOK, Timers, ShutDownMaster, Stopped, config, FlagTracksCycle
<1> QED
  BY <1>4, <1>5 DEF LInv, TypeOK, SlotOK, Timers

\* The invariant holds when the workers have been forked,
LEMMA LifecycleInitial == Init => LInv
<1> SUFFICES ASSUME Init PROVE LInv
  OBVIOUS
<1>1. \A w \in Workers : worker[w] = Proc("starting") /\ SlotOK(worker[w])
  BY FreshProc DEF Init
<1>2. worker \in [Workers -> Procs]
  BY FreshProc DEF Init, SlotOK
<1> QED
  BY <1>1, <1>2 DEF Init, LInv, TypeOK, Timers, SlotOK, FlagTracksCycle

\* and through every step of the master, its cycle and its workers.
LEMMA LifecycleInductive == LInv /\ [Next]_vars => LInv'
<1> SUFFICES ASSUME LInv, [Next]_vars PROVE LInv'
  OBVIOUS
<1>1. CASE UNCHANGED vars
  BY <1>1, MasterMoves DEF vars, config, cacheManager, LInv, TypeOK, FlagTracksCycle
<1>2. ASSUME NEW w \in Workers,
             \/ WorkerProceeds(w) \/ Request(w) \/ Respond(w)
             \/ WorkerDies(w) \/ WorkerSignalled(w)
      PROVE  LInv'
  BY <1>2, SlotStep
<1>3. CASE MasterProceeds \/ BootRejected \/ MasterDies \/ BecomeCalm
  <2>1. CASE Booted
    <3>1. CASE feeds
      BY <2>1, <3>1, MasterMoves DEF Booted, config, LInv, TypeOK, FlagTracksCycle
    <3>2. CASE ~feeds
      BY <2>1, <3>2, MasterMoves DEF Booted, config, LInv, TypeOK, FlagTracksCycle
    <3> QED
      BY <3>1, <3>2
  <2>2. CASE GraceEnds
    BY <2>2, MasterMoves
       DEF GraceEnds, config, cacheManager, LInv, TypeOK, Timers, FlagTracksCycle
  <2>3. CASE MasterExits \/ NothingLeft \/ BootRejected \/ MasterDies
    BY <2>3, MasterMoves
       DEF MasterExits, NothingLeft, BootRejected, MasterDies, config, cacheManager,
           LInv, TypeOK, FlagTracksCycle
  <2>4. CASE BecomeCalm
    BY <2>4, MasterMoves
       DEF BecomeCalm, config, cacheManager, LInv, TypeOK, FlagTracksCycle
  <2> QED
    BY <1>3, <2>1, <2>2, <2>3, <2>4 DEF MasterProceeds
<1>4. CASE CycleProceeds \/ TasksHang
  BY <1>4, MasterMoves
     DEF CycleProceeds, TasksSettle, CleanupsSettle, CycleFires, TasksHang, config,
         LInv, TypeOK, FlagTracksCycle
<1>5. CASE ShutDownMaster
  BY <1>5, ShutDownStep
<1> QED
  BY <1>1, <1>2, <1>3, <1>4, <1>5 DEF Next
-----------------------------------------------------------------------------
\* The inductive invariant of the processes holds throughout.
THEOREM LifecycleInvariance == Spec => []LInv
BY LifecycleInitial, LifecycleInductive, PTL DEF Spec

\* For any number of workers the processes are well typed: only a worker that
\* listens or drains has a request to answer, only one that drains has a timer
\* that will end it, and the master's timer is set exactly when it shuts down.
THEOREM LifecycleTypeCorrect == Spec => []TypeOK
<1>1. LInv => TypeOK
  BY DEF LInv
<1> QED
  BY LifecycleInvariance, <1>1, PTL

\* CacheManager's timer never finds the flag of the run before it set: no cycle
\* is skipped (CacheManager.ts:36-39, 61).
THEOREM NoCycleSkipped == Spec => [](cycle = "waiting" => ~isRunning)
<1>1. LInv => (cycle = "waiting" => ~isRunning)
  BY DEF LInv, FlagTracksCycle
<1> QED
  BY LifecycleInvariance, <1>1, PTL

\* A shutdown without crashes cuts neither a request nor a refresh of the feeds
\* short before its ten seconds are over (index.ts:55-94), with any number of
\* workers, told or not, replaced or not.
THEOREM ShutdownCutsNothingEarly == Spec => NothingCutEarly
<1> DEFINE Patient ==
             calm /\ master = "up" =>
               /\ \A w \in Workers :
                    worker[w].busy /\ worker'[w].at = "dead" => worker[w].force = "due"
               /\ master' = "gone"
                  /\ (cycle \in {"tasks", "cleanups"} \/ \E w \in Workers : worker[w].busy)
                    => grace = "due"
<1>1. ASSUME LInv, [Next]_vars PROVE [Patient]_vars
  <2> SUFFICES ASSUME Next, calm, master = "up" PROVE Patient
    BY <1>1
  <2>1. worker \in [Workers -> Procs] /\ \A w \in Workers : SlotOK(worker[w])
    BY <1>1 DEF LInv, TypeOK, SlotOK
  <2>2. \A w \in Workers :
          worker[w].busy /\ worker'[w].at = "dead" => worker[w].force = "due"
    <3>0. SUFFICES ASSUME NEW w \in Workers, worker[w].busy, worker'[w].at = "dead"
                   PROVE  worker[w].force = "due"
      OBVIOUS
    <3>1. worker[w].at \in {"up", "draining"} /\ worker[w].at # "dead"
      BY <2>1, <3>0 DEF SlotOK
    <3>2. ASSUME NEW x \in Workers,
                 \/ WorkerProceeds(x) \/ Request(x) \/ Respond(x)
                 \/ WorkerDies(x) \/ WorkerSignalled(x)
          PROVE  worker[w].force = "due"
      <4>1. x = w
        BY <2>1, <3>0, <3>1, <3>2
           DEF WorkerProceeds, Listen, ShutDownWorker, Drained, TenSeconds,
               ForcedExit, NoticeExit, Respawn, Orphaned, Request, Respond,
               WorkerDies, WorkerSignalled, Become
      <4>2. ForcedExit(w) \/ TenSeconds(w) \/ ShutDownWorker(w) \/ Respond(w)
        BY <3>0, <3>1, <3>2, <4>1
           DEF WorkerProceeds, Listen, Drained, NoticeExit, Respawn, Orphaned,
               Request, WorkerDies, WorkerSignalled
      <4>3. ~TenSeconds(w) /\ ~ShutDownWorker(w) /\ ~Respond(w)
        <5>1. ASSUME NEW p, p.at # "dead", worker' = [worker EXCEPT ![w] = p] PROVE FALSE
          BY <2>1, <3>0, <5>1
        <5>2. /\ [worker[w] EXCEPT !.force = "due"].at = worker[w].at
              /\ [worker[w] EXCEPT !.busy = FALSE].at = worker[w].at
          BY <2>1 DEF Procs
        <5>3. [Proc("draining") EXCEPT !.busy = worker[w].busy, !.force = "set"].at = "draining"
          BY DEF Proc
        <5> QED
          BY <3>1, <5>1, <5>2, <5>3 DEF TenSeconds, ShutDownWorker, Respond
      <4> QED
        BY <4>2, <4>3 DEF ForcedExit
    <3>3. ~ShutDownMaster
      BY <2>1, <3>0, <3>1 DEF ShutDownMaster, SignalTo, Procs
    <3>4. worker' # worker
      BY <3>0, <3>1
    <3> QED
      BY <3>2, <3>3, <3>4
         DEF Next, MasterProceeds, Booted, GraceEnds, MasterExits, NothingLeft,
             BootRejected, CycleProceeds, TasksSettle, CleanupsSettle, CycleFires,
             TasksHang, MasterDies, BecomeCalm
  <2>3. master' = "gone" /\ (cycle \in {"tasks", "cleanups"} \/ \E w \in Workers : worker[w].busy)
          => grace = "due"
    <3>0. SUFFICES ASSUME master' = "gone",
                          cycle \in {"tasks", "cleanups"} \/ \E w \in Workers : worker[w].busy
                   PROVE  grace = "due"
      OBVIOUS
    <3>1. MasterExits \/ NothingLeft
      BY <3>0 DEF Next, MasterProceeds, Booted, GraceEnds, BootRejected,
         CycleProceeds, TasksSettle, CleanupsSettle, CycleFires, TasksHang,
         ShutDownMaster, MasterDies, BecomeCalm, WorkerProceeds, Listen,
         ShutDownWorker, Drained, TenSeconds, ForcedExit, NoticeExit, Respawn,
         Orphaned, Request, Respond, WorkerDies, WorkerSignalled
    <3>2. ~NothingLeft
      BY <2>1, <3>0 DEF NothingLeft, SlotOK
    <3> QED
      BY <3>1, <3>2 DEF MasterExits
  <2> QED
    BY <2>2, <2>3
<1> QED
  BY LifecycleInvariance, <1>1, PTL DEF Spec, NothingCutEarly
=============================================================================
