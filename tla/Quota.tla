------------------------------- MODULE Quota -------------------------------
(***************************************************************************)
(* The windowed quota of one API key: the Redis part of apiLimiter         *)
(* (src/middleware/ratelimit.ts:63-96).  All worker processes share the    *)
(* counter, and a request decides with the value its own INCR returned, so *)
(* one request is one step; what matters is how requests and the expiry of *)
(* the counter fall in time.                                               *)
(*                                                                         *)
(* asked and granted are no part of the code: they remember how long ago   *)
(* the last MaxRequests requests were made and granted ML by the quota.    *)
(***************************************************************************)
EXTENDS Naturals

CONSTANTS MaxRequests, \* maxRequests of the key's tier
          Window       \* windowSeconds of the key's tier, in ticks

ASSUME QuotaAssumption == MaxRequests \in Nat \ {0} /\ Window \in Nat \ {0}

VARIABLES count,   \* the Redis counter, up to MaxRequests + 1; 0 when absent
          ttl,     \* ticks until it expires; 0 when absent or never to expire
          asked,   \* asked[i]: age of the i-th last request, up to Window
          granted, \* granted[i]: age of the i-th last request granted ML
          faulty   \* may Redis reject the pipeline?

quotaVars == <<count, ttl, asked, granted, faulty>>

AtMost(n, bound) == IF n < bound THEN n ELSE bound
Places == 1..MaxRequests

\* One more event, of age 0, in a register of ages; all of them one tick older.
Pushed(ages) == [i \in Places |-> IF i = 1 THEN 0 ELSE ages[i - 1]]
Older(ages) == [i \in Places |-> AtMost(ages[i] + 1, Window)]

QuotaInit ==
    /\ count = 0 /\ ttl = 0
    /\ asked = [i \in Places |-> Window]
    /\ granted = [i \in Places |-> Window]
    /\ faulty = TRUE

Increment == count' = AtMost(count + 1, MaxRequests + 1)

\* Mutation: a fixed window, counted from the request that made the counter.
CountRequest_FixedWindow ==
    /\ Increment
    /\ ttl' = IF count = 0 THEN Window ELSE ttl
    /\ asked' = Pushed(asked)

\* The pipeline of every request of the key: INCR, then EXPIRE.
CountRequest ==
    /\ Increment
    /\ ttl' = Window
    /\ asked' = Pushed(asked)

\* The count is within the quota: ML and premium checkers.
GrantMl ==
    /\ CountRequest
    /\ count' <= MaxRequests
    /\ granted' = Pushed(granted)
    /\ UNCHANGED faulty

\* degradedQuota: the request is served without them.
Degrade ==
    /\ CountRequest
    /\ count' > MaxRequests
    /\ UNCHANGED <<granted, faulty>>

\* The pipeline is rejected, having executed in full, in part or not at all:
\* the request is served with ML, outside the quota.
FailOpen ==
    /\ faulty
    /\ \/ CountRequest
       \/ Increment /\ asked' = Pushed(asked) /\ UNCHANGED ttl
       \/ asked' = Pushed(asked) /\ UNCHANGED <<count, ttl>>
    /\ UNCHANGED <<granted, faulty>>

Request == GrantMl \/ Degrade \/ FailOpen

Tick ==
    /\ ttl' = IF ttl > 0 THEN ttl - 1 ELSE 0
    /\ count' = IF ttl = 1 THEN 0 ELSE count
    /\ asked' = Older(asked)
    /\ granted' = Older(granted)
    /\ UNCHANGED faulty

RedisRecovers ==
    /\ faulty /\ faulty' = FALSE
    /\ UNCHANGED <<count, ttl, asked, granted>>

QuotaNext == Request \/ Tick \/ RedisRecovers

QuotaSpec == QuotaInit /\ [][QuotaNext]_quotaVars
-----------------------------------------------------------------------------
\* Types.
QuotaTypeOK ==
    /\ count \in 0..(MaxRequests + 1)
    /\ ttl \in 0..Window
    /\ asked \in [Places -> 0..Window]
    /\ granted \in [Places -> 0..Window]
    /\ faulty \in BOOLEAN

\* No window of windowSeconds, wherever it begins, holds more than maxRequests
\* requests granted ML, whatever requests came in between, were degraded or
\* found Redis failing (ratelimit.ts:67-83).
GrantsWithinQuota == [][GrantMl => granted[MaxRequests] >= Window]_quotaVars

\* A key that comes back once a window gets its quota back: once Redis answers,
\* and however far over it went, or a lost EXPIRE left the counter to stay
\* (ratelimit.ts:67-70), it is degraded a last time at most.
QuotaComesBack ==
    /\ <>(~faulty)
    /\ <>[][Request => asked[1] >= Window]_quotaVars
    => <>[][~Degrade]_quotaVars
=============================================================================
