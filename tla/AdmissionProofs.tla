-------------------------- MODULE AdmissionProofs --------------------------
(***************************************************************************)
(* Proofs about Admission, for any number of requests, keys and caps, and  *)
(* about Quota, the limiter's count of what a key asks, for any quota and  *)
(* window, with Redis failing or not.                                      *)
(***************************************************************************)
EXTENDS Admission, Quota, FiniteSetTheorems, TLAPS

\* The requests whose listeners will give a slot of i back.
Holders(i) == {r \in Requests : open[r] /\ who[r] = i /\ "limiter" \in held[r]}
Opened == {r \in Requests : open[r]}

\* What a request holds at each await.
Shape ==
    \A r \in Requests :
        /\ open[r] <=> "backpressure" \in held[r]
        /\ pc[r] = "idle" => ~open[r]
        /\ pc[r] \in Sending => open[r]
        /\ pc[r] = "auth" => "limiter" \notin held[r]
        /\ open[r] /\ pc[r] \in {"quota", "scan", "answered"} => "limiter" \in held[r]

\* The count of an identity covers the slots that will be given back; it may
\* exceed them by the slots of requests that were closed before the limiter ran.
Covered == \A i \in Identities : Cardinality(Holders(i)) <= concurrent[i]

IInv == TypeOK /\ Shape /\ Covered /\ InFlightExact

\* Sets of requests are finite.
LEMMA Finite ==
    /\ IsFiniteSet(Opened) /\ Cardinality(Opened) \in Nat
    /\ \A i : IsFiniteSet(Holders(i)) /\ Cardinality(Holders(i)) \in Nat
<1>1. \A S \in SUBSET Requests : IsFiniteSet(S) /\ Cardinality(S) \in Nat
  BY FS_Subset, FS_CardinalityType, AdmissionAssumption
<1> QED
  BY <1>1 DEF Opened, Holders

\* The invariant holds at first: nothing is open, nothing is counted.
LEMMA Initial == Init => IInv
<1> SUFFICES ASSUME Init PROVE IInv
  OBVIOUS
<1>1. TypeOK
  BY AdmissionAssumption DEF Init, TypeOK, Identities, Waiting, Sending
<1>2. Shape
  BY DEF Init, Shape, Sending
<1>3. Opened = {} /\ \A i : Holders(i) = {}
  BY DEF Init, Opened, Holders
<1>4. Covered /\ InFlightExact
  BY <1>3, FS_EmptySet DEF Init, Covered, InFlightExact, Opened
<1> QED
  BY <1>1, <1>2, <1>4 DEF IInv

\* The listeners of an open request give back one slot of the process, and one
\* of its identity if it has one.
LEMMA GivesBack ==
    ASSUME IInv, NEW r \in Requests, open[r], GiveBack(r),
           open' = [open EXCEPT ![r] = FALSE], who' = who
    PROVE  /\ inFlight' \in 0..MaxInFlight /\ InFlightExact'
           /\ concurrent' \in [Identities -> Nat]
           /\ \A i \in Identities : concurrent'[i] <= Cap[i]
           /\ Covered'
<1> USE AdmissionAssumption
<1>1. Opened' = Opened \ {r} /\ r \in Opened
  BY DEF Opened, IInv, TypeOK
<1>2. Cardinality(Opened') = Cardinality(Opened) - 1
  BY <1>1, Finite, FS_RemoveElement
<1>3. inFlight = Cardinality(Opened) /\ inFlight > 0
  BY <1>1, Finite, FS_EmptySet DEF IInv, InFlightExact, Opened
<1>4. inFlight' = inFlight - 1
  BY <1>3 DEF GiveBack, IInv, Shape
<1>5. inFlight' \in 0..MaxInFlight /\ InFlightExact'
  BY <1>2, <1>3, <1>4 DEF InFlightExact, Opened, IInv, TypeOK
<1>6. concurrent' \in [Identities -> Nat] /\ \A i \in Identities : concurrent'[i] <= Cap[i]
  BY DEF GiveBack, IInv, TypeOK, Identities
<1>7. ASSUME NEW i \in Identities PROVE Cardinality(Holders(i)') <= concurrent'[i]
  <2>1. Holders(i)' = Holders(i) \ {r}
    BY DEF Holders, GiveBack, IInv, TypeOK
  <2>2. Cardinality(Holders(i)) <= concurrent[i] /\ concurrent[i] \in Nat
    BY DEF IInv, Covered, TypeOK
  <2>3. CASE r \in Holders(i)
    <3>1. Cardinality(Holders(i)') = Cardinality(Holders(i)) - 1
      BY <2>1, <2>3, Finite, FS_RemoveElement
    <3>2. "limiter" \in held[r] /\ who[r] = i
      BY <2>3 DEF Holders
    <3>3. concurrent'[i] = IF concurrent[i] > 1 THEN concurrent[i] - 1 ELSE 0
      BY <3>2 DEF GiveBack, IInv, TypeOK
    <3>4. Cardinality(Holders(i)) # 0
      BY <2>3, Finite, FS_EmptySet
    <3> QED
      BY <2>2, <3>1, <3>3, <3>4, Finite
  <2>4. CASE r \notin Holders(i)
    <3>1. Holders(i)' = Holders(i)
      BY <2>1, <2>4
    <3>2. concurrent'[i] = concurrent[i]
      BY <2>4 DEF GiveBack, Holders, IInv, TypeOK
    <3> QED
      BY <2>2, <3>1, <3>2
  <2> QED
    BY <2>3, <2>4
<1> QED
  BY <1>5, <1>6, <1>7 DEF Covered

\* A request that holds no slot of its identity's passes the limiter or not.
LEMMA LimitCounts ==
    ASSUME IInv, NEW r \in Requests, NEW i \in Identities,
           NEW slots \in SUBSET {"backpressure"}, Limit(r, i, slots),
           \A j : r \notin Holders(j),
           \/ open' = open
           \/ open' = [open EXCEPT ![r] = TRUE]
    PROVE  /\ concurrent' \in [Identities -> Nat]
           /\ \A j \in Identities : concurrent'[j] <= Cap[j]
           /\ Covered'
<1> USE AdmissionAssumption
<1>1. concurrent' \in [Identities -> Nat] /\ \A j \in Identities : concurrent'[j] <= Cap[j]
  BY DEF Limit, AtCap, IInv, TypeOK, Identities
<1>2. ASSUME NEW j \in Identities PROVE Cardinality(Holders(j)') <= concurrent'[j]
  <2>1. Cardinality(Holders(j)) <= concurrent[j] /\ concurrent[j] \in Nat
    BY DEF IInv, Covered, TypeOK
  <2>2. CASE AtCap(i) \/ i # j
    <3>1. Holders(j)' = Holders(j)
      BY <2>2 DEF Holders, Limit, IInv, TypeOK
    <3>2. concurrent'[j] = concurrent[j]
      BY <2>2 DEF Limit, IInv, TypeOK
    <3> QED
      BY <2>1, <3>1, <3>2
  <2>3. CASE ~AtCap(i) /\ i = j
    <3>1. Holders(j)' \subseteq Holders(j) \cup {r}
      BY <2>3 DEF Holders, Limit, IInv, TypeOK
    <3>2. Cardinality(Holders(j) \cup {r}) = Cardinality(Holders(j)) + 1
          /\ IsFiniteSet(Holders(j) \cup {r})
      BY Finite, FS_AddElement
    <3>3. Cardinality(Holders(j)') <= Cardinality(Holders(j)) + 1
      BY <3>1, <3>2, FS_Subset
    <3>4. concurrent'[j] = concurrent[j] + 1
      BY <2>3 DEF Limit, IInv, TypeOK
    <3>5. Cardinality(Holders(j)') \in Nat
      BY <3>1, <3>2, FS_Subset, FS_CardinalityType
    <3> QED
      BY <2>1, <3>3, <3>4, <3>5, Finite
  <2> QED
    BY <2>2, <2>3
<1> QED
  BY <1>1, <1>2 DEF Covered

\* The process counts a request it accepts.
LEMMA Accepts ==
    ASSUME IInv, NEW r \in Requests, Accept(r)
    PROVE  inFlight' \in 0..MaxInFlight /\ InFlightExact'
<1>1. Opened' = Opened \cup {r} /\ r \notin Opened
  BY DEF Opened, Accept, IInv, TypeOK, Shape
<1>2. Cardinality(Opened') = Cardinality(Opened) + 1
  BY <1>1, Finite, FS_AddElement
<1> QED
  BY <1>2, Finite, AdmissionAssumption DEF Accept, InFlightExact, Opened, IInv, TypeOK

\* A step that moves one request between awaits, and changes no slot.
LEMMA MovesOn ==
    ASSUME IInv, UNCHANGED <<who, open, held, inFlight, concurrent>>
    PROVE  Covered' /\ InFlightExact'
<1>1. \A i : Holders(i)' = Holders(i)
  BY DEF Holders
<1> QED
  BY <1>1 DEF IInv, Covered, InFlightExact

\* Every step keeps the invariant: a slot is taken only by a request that has
\* none, and is given back only by an open one, once.
LEMMA Inductive == IInv /\ [Next]_vars => IInv'
<1> USE AdmissionAssumption
<1> SUFFICES ASSUME IInv, [Next]_vars PROVE IInv'
  OBVIOUS
<1>1. ASSUME UNCHANGED vars PROVE IInv'
  <2>1. TypeOK' /\ Shape'
    BY <1>1 DEF vars, IInv, TypeOK, Shape
  <2> QED
    BY <1>1, <2>1, MovesOn DEF vars, IInv
<1>2. ASSUME NEW r \in Requests, ArriveAnonymous(r) PROVE IInv'
  <2>1. Anonymous \in Identities /\ \A j : r \notin Holders(j)
    BY <1>2 DEF Identities, ArriveAnonymous, Accept, Holders, IInv, Shape
  <2>2. inFlight' \in 0..MaxInFlight /\ InFlightExact'
    BY <1>2, Accepts DEF ArriveAnonymous
  <2>3. Limit(r, Anonymous, {"backpressure"}) /\ open' = [open EXCEPT ![r] = TRUE]
    BY <1>2 DEF ArriveAnonymous, Accept
  <2>4. /\ concurrent' \in [Identities -> Nat]
        /\ \A j \in Identities : concurrent'[j] <= Cap[j]
        /\ Covered'
    BY <2>1, <2>3, LimitCounts
  <2>5. TypeOK'
    BY <1>2, <2>1, <2>2, <2>3, <2>4 DEF Limit, End, IInv, TypeOK, Waiting, Sending
  <2>6. Shape'
    BY <2>3 DEF Limit, End, IInv, TypeOK, Shape, Sending
  <2> QED
    BY <2>2, <2>4, <2>5, <2>6 DEF IInv
<1>3. ASSUME NEW r \in Requests, NEW k \in Keys, ArriveWithKey(r, k) PROVE IInv'
  <2>1. inFlight' \in 0..MaxInFlight /\ InFlightExact'
    BY <1>3, Accepts DEF ArriveWithKey
  <2>2. \A i : Holders(i)' = Holders(i)
    BY <1>3 DEF ArriveWithKey, Accept, Holders, IInv, TypeOK, Shape
  <2>3. TypeOK' /\ Shape'
    BY <1>3, <2>1 DEF ArriveWithKey, Accept, IInv, TypeOK, Shape, Waiting, Sending, Identities
  <2>4. Covered'
    BY <1>3, <2>2 DEF ArriveWithKey, IInv, Covered
  <2> QED
    BY <2>1, <2>3, <2>4 DEF IInv
<1>4. ASSUME NEW r \in Requests, Verified(r) PROVE IInv'
  <2>1. PICK i \in {who[r], Anonymous} : Limit(r, i, held[r])
    BY <1>4 DEF Verified
  <2>2. i \in Identities /\ held[r] \in SUBSET {"backpressure"} /\ \A j : r \notin Holders(j)
    BY <1>4 DEF Verified, Identities, Holders, IInv, TypeOK, Shape
  <2>3. open' = open /\ inFlight' = inFlight
    BY <1>4 DEF Verified
  <2>4. /\ concurrent' \in [Identities -> Nat]
        /\ \A j \in Identities : concurrent'[j] <= Cap[j]
        /\ Covered'
    BY <2>1, <2>2, <2>3, LimitCounts
  <2>5. InFlightExact'
    BY <2>3 DEF IInv, InFlightExact
  <2>6. TypeOK'
    BY <2>1, <2>2, <2>3, <2>4 DEF Limit, End, IInv, TypeOK, Waiting, Sending
  <2>7. Shape'
    BY <1>4, <2>1, <2>2, <2>3 DEF Verified, Limit, End, IInv, TypeOK, Shape, Sending
  <2> QED
    BY <2>4, <2>5, <2>6, <2>7 DEF IInv
<1>5. ASSUME NEW r \in Requests, AuthFails(r) \/ QuotaSettles(r) \/ Scanned(r) PROVE IInv'
  <2>1. UNCHANGED <<who, open, held, inFlight, concurrent>>
    BY <1>5 DEF AuthFails, QuotaSettles, Scanned
  <2>2. TypeOK'
    BY <1>5 DEF AuthFails, QuotaSettles, Scanned, End, IInv, TypeOK, Waiting, Sending
  <2>3. Shape'
    BY <1>5 DEF AuthFails, QuotaSettles, Scanned, End, IInv, TypeOK, Shape, Sending
  <2> QED
    BY <2>1, <2>2, <2>3, MovesOn DEF IInv
<1>6. ASSUME NEW r \in Requests, Finish(r) \/ Close(r) PROVE IInv'
  <2>1. open[r] /\ GiveBack(r) /\ open' = [open EXCEPT ![r] = FALSE] /\ who' = who
    BY <1>6 DEF Finish, Close, IInv, Shape
  <2>2. /\ inFlight' \in 0..MaxInFlight /\ InFlightExact'
        /\ concurrent' \in [Identities -> Nat]
        /\ \A i \in Identities : concurrent'[i] <= Cap[i]
        /\ Covered'
    BY <2>1, GivesBack
  <2>3. pc' \in [Requests -> Waiting \cup Sending \cup {"idle"}]
    BY <1>6 DEF Finish, Close, IInv, TypeOK
  <2>4. held' = [held EXCEPT ![r] = {}]
    BY <2>1 DEF GiveBack
  <2>5. TypeOK'
    BY <2>1, <2>2, <2>3, <2>4 DEF IInv, TypeOK
  <2>6. Shape'
    BY <1>6, <2>1, <2>4 DEF Finish, Close, IInv, TypeOK, Shape, Sending
  <2> QED
    BY <2>2, <2>5, <2>6 DEF IInv
<1>7. ASSUME NEW r \in Requests, Overloaded(r) PROVE IInv'
  BY <1>1, <1>7 DEF Overloaded
<1> QED
  BY <1>1, <1>2, <1>3, <1>4, <1>5, <1>6, <1>7 DEF Next, Arrive, Proceed

\* The inductive invariant holds throughout.
THEOREM Invariance == Spec => []IInv
BY Initial, Inductive, PTL DEF Spec

\* Every reachable state is well typed; no count goes below zero or, for an
\* identity, over its cap.
THEOREM TypeCorrect == Spec => []TypeOK
BY Invariance, PTL DEF IInv

\* The in-flight count of a process is exactly the number of its open requests.
THEOREM InFlightCounted == Spec => []InFlightExact
<1>1. IInv => InFlightExact
  BY DEF IInv
<1> QED
  BY Invariance, <1>1, PTL

\* No identity ever has more requests waiting for an answer than its cap, though
\* slots are given back at any time and in any order.
THEOREM CapHolds == Spec => []WithinCap
<1>1. IInv => WithinCap
  <2> SUFFICES ASSUME IInv, NEW i \in Identities
               PROVE  Cardinality({r \in Requests : ActiveAs(r, i)}) <= Cap[i]
    BY DEF WithinCap
  <2>1. {r \in Requests : ActiveAs(r, i)} \subseteq Holders(i)
    BY DEF ActiveAs, Holders, IInv, Shape
  <2>2. /\ Cardinality({r \in Requests : ActiveAs(r, i)}) <= Cardinality(Holders(i))
        /\ Cardinality({r \in Requests : ActiveAs(r, i)}) \in Nat
    BY <2>1, Finite, FS_Subset, FS_CardinalityType
  <2>3. Cardinality(Holders(i)) <= concurrent[i] /\ concurrent[i] <= Cap[i]
    BY DEF IInv, Covered, TypeOK
  <2> QED
    BY <2>2, <2>3, Finite, AdmissionAssumption DEF IInv, TypeOK
<1> QED
  BY Invariance, <1>1, PTL
-----------------------------------------------------------------------------
(***************************************************************************)
(* The quota of a key.                                                     *)
(***************************************************************************)
\* A counter that will expire does so Window after the last grant or later.
ExpiresLate == ttl > 0 => \A i \in Places : granted[i] >= Window - ttl

\* The grants that the counter does not cover are a whole window old.
Uncovered == \A i \in Places : i > count => granted[i] = Window

QuotaInv == QuotaTypeOK /\ ExpiresLate /\ Uncovered

\* A register of ages stays one when an event is entered or time passes.
LEMMA Registers ==
    ASSUME NEW ages \in [Places -> 0..Window]
    PROVE  /\ Pushed(ages) \in [Places -> 0..Window]
           /\ Older(ages) \in [Places -> 0..Window]
BY QuotaAssumption DEF Places, Pushed, Older, AtMost

\* The invariant holds with a fresh counter.
LEMMA QuotaInitial == QuotaInit => QuotaInv
BY QuotaAssumption DEF QuotaInit, QuotaInv, QuotaTypeOK, ExpiresLate, Uncovered, Places

\* A request of any kind leaves the variables typed.
LEMMA RequestTypes == ASSUME QuotaInv, Request PROVE QuotaTypeOK'
<1>1. count' \in 0..(MaxRequests + 1)
  BY QuotaAssumption DEF QuotaInv, QuotaTypeOK, Request, GrantMl, Degrade, FailOpen,
         CountRequest, Increment, AtMost
<1>2. ttl' \in 0..Window
  BY QuotaAssumption DEF QuotaInv, QuotaTypeOK, Request, GrantMl, Degrade, FailOpen,
         CountRequest
<1>3. asked' = Pushed(asked)
  BY DEF Request, GrantMl, Degrade, FailOpen, CountRequest
<1>4. granted' = granted \/ granted' = Pushed(granted)
  BY DEF Request, GrantMl, Degrade, FailOpen
<1> QED
  BY <1>1, <1>2, <1>3, <1>4, Registers
     DEF QuotaInv, QuotaTypeOK, Request, GrantMl, Degrade, FailOpen

\* A request within the quota: the count and the grants agree.
LEMMA MlStep == ASSUME QuotaInv, GrantMl PROVE QuotaInv'
<1>1. QuotaTypeOK'
  BY RequestTypes DEF Request
<1>2. count' = count + 1 /\ ttl' = Window /\ granted' = Pushed(granted)
  BY QuotaAssumption DEF GrantMl, CountRequest, Increment, AtMost, QuotaInv, QuotaTypeOK
<1>3. ExpiresLate'
  BY <1>1, <1>2, QuotaAssumption DEF ExpiresLate, QuotaTypeOK
<1>4. Uncovered'
  <2> SUFFICES ASSUME NEW i \in Places, i > count + 1 PROVE granted'[i] = Window
    BY <1>2 DEF Uncovered
  <2>1. i # 1 /\ i - 1 \in Places /\ i - 1 > count
    BY QuotaAssumption DEF QuotaInv, QuotaTypeOK, Places
  <2> QED
    BY <1>2, <2>1 DEF QuotaInv, Uncovered, Pushed
<1> QED
  BY <1>1, <1>3, <1>4 DEF QuotaInv

\* A request that grants nothing only lets the counter grow, and its life too.
LEMMA NoMlStep == ASSUME QuotaInv, Degrade \/ FailOpen PROVE QuotaInv'
<1>1. QuotaTypeOK'
  BY RequestTypes DEF Request
<1>2. granted' = granted /\ count' >= count /\ (ttl' = Window \/ ttl' = ttl)
  BY QuotaAssumption DEF Degrade, FailOpen, CountRequest, Increment, AtMost,
         QuotaInv, QuotaTypeOK
<1>3. ExpiresLate'
  BY <1>1, <1>2, QuotaAssumption DEF QuotaInv, ExpiresLate, QuotaTypeOK
<1>4. Uncovered'
  BY <1>1, <1>2 DEF QuotaInv, Uncovered, QuotaTypeOK, Places
<1> QED
  BY <1>1, <1>3, <1>4 DEF QuotaInv

\* Time passes, and the counter may expire.
LEMMA QuotaTickStep == ASSUME QuotaInv, Tick PROVE QuotaInv'
<1>1. QuotaTypeOK'
  BY Registers, QuotaAssumption DEF Tick, QuotaInv, QuotaTypeOK
<1>2. \A i \in Places : granted'[i] = AtMost(granted[i] + 1, Window)
  BY DEF Tick, Older
<1>3. ExpiresLate'
  <2> SUFFICES ASSUME ttl' > 0, NEW i \in Places PROVE granted'[i] >= Window - ttl'
    BY DEF ExpiresLate
  <2>1. ttl > 0 /\ ttl' = ttl - 1 /\ granted[i] >= Window - ttl
    BY QuotaAssumption DEF Tick, QuotaInv, QuotaTypeOK, ExpiresLate
  <2> QED
    BY <1>2, <2>1, QuotaAssumption DEF AtMost, QuotaInv, QuotaTypeOK
<1>4. Uncovered'
  <2> SUFFICES ASSUME NEW i \in Places, i > count' PROVE granted'[i] = Window
    BY DEF Uncovered
  <2>1. CASE ttl = 1
    BY <1>2, <2>1, QuotaAssumption DEF AtMost, QuotaInv, QuotaTypeOK, ExpiresLate
  <2>2. CASE ttl # 1
    BY <1>2, <2>2, QuotaAssumption DEF Tick, AtMost, QuotaInv, QuotaTypeOK, Uncovered
  <2> QED
    BY <2>1, <2>2
<1> QED
  BY <1>1, <1>3, <1>4 DEF QuotaInv

\* Redis recovers: the counter and its history stay.
LEMMA RecoverStep == ASSUME QuotaInv, RedisRecovers PROVE QuotaInv'
BY DEF RedisRecovers, QuotaInv, QuotaTypeOK, ExpiresLate, Uncovered

\* The inductive invariant holds throughout.
THEOREM QuotaInvariance == QuotaSpec => []QuotaInv
<1>1. QuotaInv /\ [QuotaNext]_quotaVars => QuotaInv'
  <2>1. QuotaInv /\ UNCHANGED quotaVars => QuotaInv'
    BY DEF quotaVars, QuotaInv, QuotaTypeOK, ExpiresLate, Uncovered
  <2> QED
    BY <2>1, MlStep, NoMlStep, QuotaTickStep, RecoverStep DEF QuotaNext, Request
<1> QED
  BY QuotaInitial, <1>1, PTL DEF QuotaSpec

\* At most maxRequests requests are granted ML in any window: the request
\* granted maxRequests grants before is at least a window old.
THEOREM WithinQuota == QuotaSpec => GrantsWithinQuota
<1>1. ASSUME QuotaInv, GrantMl PROVE granted[MaxRequests] >= Window
  <2>1. MaxRequests \in Places /\ MaxRequests > count
    BY <1>1, QuotaAssumption DEF GrantMl, CountRequest, Increment, AtMost, QuotaInv,
            QuotaTypeOK, Places
  <2> QED
    BY <1>1, <2>1, QuotaAssumption DEF QuotaInv, Uncovered
<1>2. QuotaInv /\ [QuotaNext]_quotaVars => [GrantMl => granted[MaxRequests] >= Window]_quotaVars
  BY <1>1
<1> QED
  BY QuotaInvariance, <1>2, PTL DEF QuotaSpec, GrantsWithinQuota
=============================================================================
