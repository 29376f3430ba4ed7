----------------------------- MODULE Admission -----------------------------
(***************************************************************************)
(* The way of POST /api/check requests through one worker process: the     *)
(* backpressure, auth and apiLimiter middlewares (src/middleware), the     *)
(* handler of src/app.ts:79-101, and the slots they hold, which listeners  *)
(* on the response's "finish" and "close" events give back.                *)
(*                                                                         *)
(* Middleware code between two awaits is synchronous and is one action.    *)
(* "close" is emitted once, when the client goes away; a response that is  *)
(* ended on a connection already closed emits nothing.                     *)
(***************************************************************************)
EXTENDS Naturals, FiniteSets

CONSTANTS Requests,    \* slots in which requests are served
          Keys,        \* API keys in use, all with one client address
          Cap,         \* Cap[i]: concurrent requests allowed to identity i
          MaxInFlight, \* MAX_INFLIGHT_REQUESTS
          Disconnects  \* may clients go away before their answer?

Anonymous == "ip"
Identities == Keys \cup {Anonymous}

ASSUME AdmissionAssumption ==
    /\ IsFiniteSet(Requests)
    /\ Anonymous \notin Keys
    /\ Cap \in [Identities -> Nat \ {0}]
    /\ MaxInFlight \in Nat \ {0}
    /\ Disconnects \in BOOLEAN

VARIABLES pc,           \* per request: "idle", or what it waits for
          who,          \* the identity it is counted under, or claims by its token
          open,         \* is its connection open?
          held,         \* the slots its listeners will give back
          inFlight,     \* inFlightRequests
          concurrent    \* concurrentByKey, 0 for no entry

vars == <<pc, who, open, held, inFlight, concurrent>>

\* auth: verifyApiKey; quota: the limiter's pipeline; scan: analyzeUrl;
\* answered, refused: the response is being sent.
Waiting == {"auth", "quota", "scan"}
Sending == {"answered", "refused"}

TypeOK ==
    /\ pc \in [Requests -> Waiting \cup Sending \cup {"idle"}]
    /\ who \in [Requests -> Identities]
    /\ open \in [Requests -> BOOLEAN]
    /\ held \in [Requests -> SUBSET {"backpressure", "limiter"}]
    /\ inFlight \in 0..MaxInFlight
    /\ concurrent \in [Identities -> Nat] /\ \A i \in Identities : concurrent[i] <= Cap[i]

Init ==
    /\ pc = [r \in Requests |-> "idle"]
    /\ who = [r \in Requests |-> Anonymous]
    /\ open = [r \in Requests |-> FALSE]
    /\ held = [r \in Requests |-> {}]
    /\ inFlight = 0
    /\ concurrent = [i \in Identities |-> 0]
-----------------------------------------------------------------------------
\* Where a request goes when its handler has ended the response.
End(r, sending) == pc' = [pc EXCEPT ![r] = IF open'[r] THEN sending ELSE "idle"]

AtCap(i) == concurrent[i] >= Cap[i]

\* Mutation: one request too many.
Limit_OffByOne(r, i, slots) ==
    /\ who' = [who EXCEPT ![r] = i]
    /\ IF concurrent[i] > Cap[i]
       THEN End(r, "refused") /\ held' = [held EXCEPT ![r] = slots] /\ UNCHANGED concurrent
       ELSE /\ concurrent' = [concurrent EXCEPT ![i] = @ + 1]
            /\ held' = [held EXCEPT ![r] = slots \cup {"limiter"}]
            /\ pc' = [pc EXCEPT ![r] = IF i = Anonymous THEN "scan" ELSE "quota"]

\* The synchronous part of apiLimiter, for a request of identity i that holds
\* slots: 429, or a slot of its identity and on to the quota or the scan.
Limit(r, i, slots) ==
    /\ who' = [who EXCEPT ![r] = i]
    /\ IF AtCap(i)
       THEN End(r, "refused") /\ held' = [held EXCEPT ![r] = slots] /\ UNCHANGED concurrent
       ELSE /\ concurrent' = [concurrent EXCEPT ![i] = @ + 1]
            /\ held' = [held EXCEPT ![r] = slots \cup {"limiter"}]
            /\ pc' = [pc EXCEPT ![r] = IF i = Anonymous THEN "scan" ELSE "quota"]

\* backpressure turns the request away with 503.
Overloaded(r) ==
    /\ pc[r] = "idle" /\ inFlight >= MaxInFlight
    /\ UNCHANGED vars

Accept(r) ==
    /\ pc[r] = "idle" /\ inFlight < MaxInFlight
    /\ inFlight' = inFlight + 1
    /\ open' = [open EXCEPT ![r] = TRUE]

\* Without a token all three middlewares run without an await.
ArriveAnonymous(r) ==
    /\ Accept(r)
    /\ Limit(r, Anonymous, {"backpressure"})

\* With one, auth awaits verifyApiKey before the limiter runs.
ArriveWithKey(r, k) ==
    /\ Accept(r)
    /\ who' = [who EXCEPT ![r] = k]
    /\ held' = [held EXCEPT ![r] = {"backpressure"}]
    /\ pc' = [pc EXCEPT ![r] = "auth"]
    /\ UNCHANGED concurrent

\* The key is verified, or unknown or disabled: then the request is anonymous.
Verified(r) ==
    /\ pc[r] = "auth"
    /\ UNCHANGED <<open, inFlight>>
    /\ \E i \in {who[r], Anonymous} : Limit(r, i, held[r])

\* Redis fails: the rejected middleware ends the request with 500.
AuthFails(r) ==
    /\ pc[r] = "auth"
    /\ UNCHANGED <<who, open, held, inFlight, concurrent>>
    /\ End(r, "refused")

\* The quota's pipeline settles either way (Quota), and the scan begins.
QuotaSettles(r) ==
    /\ pc[r] = "quota"
    /\ pc' = [pc EXCEPT ![r] = "scan"]
    /\ UNCHANGED <<who, open, held, inFlight, concurrent>>

\* analyzeUrl returns or throws, or the body had no url: res.json.
Scanned(r) ==
    /\ pc[r] = "scan"
    /\ UNCHANGED <<who, open, held, inFlight, concurrent>>
    /\ End(r, "answered")

\* Mutation: onFinish and cleanup do not look at cleanedUp, and run once per event.
GiveBack_Twice(r) ==
    /\ inFlight' = IF inFlight > 2 THEN inFlight - 2 ELSE 0
    /\ concurrent' = IF "limiter" \in held[r]
                     THEN [concurrent EXCEPT ![who[r]] = IF @ > 2 THEN @ - 2 ELSE 0]
                     ELSE concurrent
    /\ held' = [held EXCEPT ![r] = {}]

\* Mutation: backpressure's onFinish is not called.
GiveBack_KeepBackpressure(r) ==
    /\ concurrent' = IF "limiter" \in held[r]
                     THEN [concurrent EXCEPT ![who[r]] = IF @ > 1 THEN @ - 1 ELSE 0]
                     ELSE concurrent
    /\ held' = [held EXCEPT ![r] = {}]
    /\ UNCHANGED inFlight

\* The listeners registered so far run, once.
GiveBack(r) ==
    /\ inFlight' = IF "backpressure" \in held[r] /\ inFlight > 0
                   THEN inFlight - 1 ELSE inFlight
    /\ concurrent' = IF "limiter" \in held[r]
                     THEN [concurrent EXCEPT ![who[r]] = IF @ > 1 THEN @ - 1 ELSE 0]
                     ELSE concurrent
    /\ held' = [held EXCEPT ![r] = {}]

\* The response has been sent: "finish".
Finish(r) ==
    /\ pc[r] \in Sending
    /\ GiveBack(r)
    /\ pc' = [pc EXCEPT ![r] = "idle"]
    /\ open' = [open EXCEPT ![r] = FALSE]
    /\ UNCHANGED who

\* The client goes away: "close".  Nothing stops what runs for it.
Close(r) ==
    /\ Disconnects
    /\ open[r]
    /\ GiveBack(r)
    /\ pc' = [pc EXCEPT ![r] = IF @ \in Sending THEN "idle" ELSE @]
    /\ open' = [open EXCEPT ![r] = FALSE]
    /\ UNCHANGED who

Arrive(r) == ArriveAnonymous(r) \/ \E k \in Keys : ArriveWithKey(r, k)
Proceed(r) == Verified(r) \/ AuthFails(r) \/ QuotaSettles(r) \/ Scanned(r) \/ Finish(r)

Next == \E r \in Requests : Overloaded(r) \/ Arrive(r) \/ Proceed(r) \/ Close(r)

Spec == Init /\ [][Next]_vars

\* Redis and analyzeUrl settle, and a response is sent.
FairSpec == Spec /\ \A r \in Requests : WF_vars(Proceed(r))
-----------------------------------------------------------------------------
\* A request whose client still waits and that passed the limiter as i.
ActiveAs(r, i) == open[r] /\ who[r] = i /\ pc[r] \in {"quota", "scan", "answered"}

\* backpressure.ts:15-27: the in-flight count is the number of accepted requests
\* whose response is still to come, through every order of the two events and
\* of the awaits: no slot is lost or given back twice.
InFlightExact == inFlight = Cardinality({r \in Requests : open[r]})

\* ratelimit.ts:31-55: whatever slots are given back and whenever, an identity
\* never has more requests waiting for an answer than its cap allows.
WithinCap ==
    \A i \in Identities : Cardinality({r \in Requests : ActiveAs(r, i)}) <= Cap[i]

\* When requests stop coming, all slots of the process are free again
\* (backpressure.ts:17-24).
InFlightDrains == <>[][\A r \in Requests : ~Arrive(r)]_vars => <>[](inFlight = 0)
=============================================================================
