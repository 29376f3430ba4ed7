-------------------------- MODULE TokenBucketProofs --------------------------
(***************************************************************************)
(* Proofs about TokenBucket, for every limit and every window length.      *)
(***************************************************************************)
EXTENDS TokenBucket, TLAPS

\* While the observer watches: the calls granted, the tokens left and the time
\* not yet turned into tokens are together paid for by the initial burst, the
\* age of the window and less than one token saved up before it.
Budget ==
    age < Window =>
        Window * (granted + vtTokens) + Limit * elapsed
            <= Window * Limit + Limit * age + Window - 1

\* The bucket was emptied by a grant, after its last refill.
EmptiedByGrant == vtTokens = 0 => sinceGrant <= elapsed

NotWatching == age = Window => granted = 0

IInv == TypeOK /\ Budget /\ EmptiedByGrant /\ NotWatching

\* Multiplication by a natural number keeps the order.
LEMMA ProductMonotone ==
    ASSUME NEW a \in Nat, NEW x \in Nat, NEW y \in Nat, x <= y
    PROVE  a * x <= a * y
<1>1. y - x \in Nat /\ a * (y - x) >= 0
  OBVIOUS
<1>2. a * y = a * x + a * (y - x)
  OBVIOUS
<1> QED
  BY <1>1, <1>2

\* What a rounded-down refill can be: it is never worth more than the time
\* elapsed, and it is zero only if that time is too short for one token.
LEMMA RefillBound ==
    ASSUME NEW e \in Nat
    PROVE  /\ (e * Limit) \div Window \in Nat
           /\ Window * ((e * Limit) \div Window) <= Limit * e
           /\ ((e * Limit) \div Window = 0) => Limit * e <= Window - 1
<1> DEFINE p == e * Limit
           q == p \div Window
<1>1. p \in Nat /\ p = Limit * e
  BY BucketAssumption
<1>2. Window \in Nat /\ Window > 0
  BY BucketAssumption
<1> HIDE DEF p
<1>3. q \in Nat /\ Window * q <= p /\ p < Window * q + Window
  BY <1>1, <1>2, SMTT(30)
<1>4. q = 0 => p <= Window - 1
  BY <1>1, <1>2, <1>3
<1> QED
  BY <1>1, <1>3, <1>4 DEF p

\* What the refill of an acquisition does to tokens and time together.
LEMMA RefilledFacts ==
    ASSUME TypeOK
    PROVE  /\ Refilled.tokens \in 0..Limit /\ Refilled.elapsed \in 0..Window
           /\ Window * Refilled.tokens + Limit * Refilled.elapsed
                <= Window * vtTokens + Limit * elapsed
           /\ Limit * Refilled.elapsed <= Window - 1
           /\ Refilled.tokens = 0 => vtTokens = 0 /\ Refilled.elapsed = elapsed
<1> DEFINE refill == (elapsed * Limit) \div Window
<1>1. /\ Limit \in Nat /\ Limit > 0 /\ Window \in Nat /\ Window > 0
      /\ vtTokens \in 0..Limit /\ elapsed \in 0..Window
  BY BucketAssumption DEF TypeOK
<1>2. /\ refill \in Nat /\ Window * refill <= Limit * elapsed
      /\ refill = 0 => Limit * elapsed <= Window - 1
  BY RefillBound, <1>1
<1>3. CASE elapsed >= Window
  <2>1. Refilled.tokens = Limit /\ Refilled.elapsed = 0 /\ elapsed = Window
    BY <1>1, <1>3 DEF Refilled
  <2>2. Limit * Window = Window * Limit /\ 0 <= Window * vtTokens
    BY <1>1
  <2> QED
    BY <1>1, <2>1, <2>2
<1>4. CASE elapsed < Window
  <2>1. /\ Refilled.tokens = AtMost(vtTokens + refill, Limit)
        /\ Refilled.elapsed = IF refill > 0 THEN 0 ELSE elapsed
    BY <1>1, <1>4 DEF Refilled
  <2> HIDE DEF refill
  <2>2. Refilled.tokens \in 0..Limit /\ Refilled.tokens <= vtTokens + refill
    BY <1>1, <1>2, <2>1 DEF AtMost
  <2>3. Window * Refilled.tokens <= Window * vtTokens + Window * refill
    BY <1>1, <1>2, <2>2
  <2>4. CASE refill > 0
    <3>1. Refilled.elapsed = 0
      BY <2>1, <2>4
    <3>2. Refilled.tokens > 0
      BY <1>1, <1>2, <2>1, <2>4 DEF AtMost
    <3> QED
      BY <1>1, <1>2, <2>2, <2>3, <3>1, <3>2
  <2>5. CASE refill = 0
    <3>1. Refilled.elapsed = elapsed
      BY <2>1, <2>5
    <3>2. Refilled.tokens = vtTokens
      BY <1>1, <2>1, <2>5 DEF AtMost
    <3> QED
      BY <1>1, <1>2, <2>5, <3>1, <3>2
  <2> QED
    BY <1>2, <2>4, <2>5
<1> QED
  BY <1>1, <1>3, <1>4
-----------------------------------------------------------------------------
\* The invariant holds with a full bucket.
LEMMA Initial == Init => IInv
BY BucketAssumption DEF Init, IInv, TypeOK, Budget, EmptiedByGrant, NotWatching

\* A granted call takes a token and may open the window.
LEMMA GrantStep == ASSUME IInv, Grant PROVE IInv'
<1> DEFINE t == Refilled.tokens
           e == Refilled.elapsed
<1>1. /\ Limit \in Nat /\ Limit > 0 /\ Window \in Nat /\ Window > 0
      /\ vtTokens \in 0..Limit /\ elapsed \in 0..Window /\ age \in 0..Window
      /\ granted \in Nat
  BY BucketAssumption DEF IInv, TypeOK
<1>2. /\ t \in 0..Limit /\ e \in 0..Window
      /\ Window * t + Limit * e <= Window * vtTokens + Limit * elapsed
      /\ Limit * e <= Window - 1
  BY RefilledFacts DEF IInv
<1>3. t > 0 /\ vtTokens' = t - 1 /\ elapsed' = e /\ sinceGrant' = 0
  BY DEF Grant
<1> HIDE DEF t, e
<1>4. CASE age < Window /\ granted' = granted + 1 /\ age' = age
  <2>1. Window * (granted + vtTokens) + Limit * elapsed
          <= Window * Limit + Limit * age + Window - 1
    BY <1>4 DEF IInv, Budget
  <2>2. granted' + vtTokens' = granted + t
    BY <1>1, <1>2, <1>3, <1>4
  <2>3. Window * (granted + t) = Window * granted + Window * t
        /\ Window * (granted + vtTokens) = Window * granted + Window * vtTokens
    BY <1>1, <1>2
  <2>4. Window * (granted + t) + Limit * e <= Window * Limit + Limit * age + Window - 1
    BY <1>1, <1>2, <2>1, <2>3
  <2>5. Budget'
    BY <1>3, <1>4, <2>2, <2>4 DEF Budget
  <2> QED
    BY <1>1, <1>2, <1>3, <1>4, <2>5 DEF IInv, TypeOK, EmptiedByGrant, NotWatching
<1>5. CASE age = Window /\ granted' = 1 /\ age' = 0
  <2>1. granted' + vtTokens' = t /\ Window * t <= Window * Limit
    BY <1>1, <1>2, <1>3, <1>5
  <2>2. Budget'
    BY <1>1, <1>2, <1>3, <1>5, <2>1 DEF Budget
  <2> QED
    BY <1>1, <1>2, <1>3, <1>5, <2>2 DEF IInv, TypeOK, EmptiedByGrant, NotWatching
<1>6. CASE age = Window /\ UNCHANGED <<age, granted>>
  BY <1>1, <1>2, <1>3, <1>6
     DEF IInv, TypeOK, Budget, EmptiedByGrant, NotWatching
<1> QED
  BY <1>4, <1>5, <1>6 DEF Grant

\* A skipped call moves refilled tokens to the bucket only.
LEMMA SkipStep == ASSUME IInv, Skip PROVE IInv'
<1>1. Refilled.tokens = 0 /\ vtTokens = 0 /\ Refilled.elapsed = elapsed
  BY RefilledFacts, BucketAssumption DEF Skip, IInv
<1>2. UNCHANGED <<vtTokens, elapsed, age, granted, sinceGrant>>
  BY <1>1 DEF Skip
<1> QED
  BY <1>2 DEF IInv, TypeOK, Budget, EmptiedByGrant, NotWatching

\* Time passes: the tokens to come grow with it.
LEMMA TickStep == ASSUME IInv, Tick PROVE IInv'
<1>1. /\ Limit \in Nat /\ Limit > 0 /\ Window \in Nat /\ Window > 0
      /\ vtTokens \in 0..Limit /\ elapsed \in 0..Window /\ age \in 0..Window
      /\ granted \in Nat /\ sinceGrant \in 0..Window
  BY BucketAssumption DEF IInv, TypeOK
<1>2. TypeOK' /\ EmptiedByGrant' /\ NotWatching'
  BY <1>1 DEF Tick, AtMost, IInv, TypeOK, EmptiedByGrant, NotWatching
<1>3. Budget'
  <2> SUFFICES ASSUME age' < Window
               PROVE  Window * (granted' + vtTokens') + Limit * elapsed'
                        <= Window * Limit + Limit * age' + Window - 1
    BY DEF Budget
  <2>1. age < Window /\ age' = age + 1 /\ granted' = granted /\ vtTokens' = vtTokens
    BY <1>1 DEF Tick, AtMost
  <2>2. Window * (granted + vtTokens) + Limit * elapsed
          <= Window * Limit + Limit * age + Window - 1
    BY <2>1 DEF IInv, Budget
  <2>3. PICK n \in Nat : n = elapsed' /\ n <= elapsed + 1
    BY <1>1 DEF Tick, AtMost
  <2>4. Limit * n <= Limit * elapsed + Limit /\ Limit * n \in Int
    <3>1. Limit * n <= Limit * (elapsed + 1)
      <4>1. Limit \in Nat /\ n \in Nat /\ elapsed + 1 \in Nat /\ n <= elapsed + 1
        BY <1>1, <2>3
      <4> QED
        BY <4>1, ProductMonotone, Zenon
    <3>2. Limit * (elapsed + 1) = Limit * elapsed + Limit
      BY <1>1
    <3>3. Limit * n \in Int
      BY <1>1
    <3> QED
      BY <3>1, <3>2, <3>3
  <2>5. Limit * (age + 1) = Limit * age + Limit /\ Limit * age \in Int
    BY <1>1
  <2>6. PICK w \in Int : w = Window * (granted + vtTokens)
    BY <1>1
  <2>7. PICK b \in Int : b = Window * Limit
    BY <1>1
  <2>8. w + Limit * n <= b + (Limit * age + Limit) + Window - 1
    BY <1>1, <2>2, <2>4, <2>5, <2>6, <2>7
  <2> QED
    BY <2>1, <2>3, <2>5, <2>6, <2>7, <2>8
<1> QED
  BY <1>2, <1>3 DEF IInv

\* The inductive invariant holds throughout.
THEOREM Invariance == Spec => []IInv
<1>1. IInv /\ [Next]_vars => IInv'
  <2>1. IInv /\ UNCHANGED vars => IInv'
    BY DEF vars, IInv, TypeOK, Budget, EmptiedByGrant, NotWatching
  <2> QED
    BY <2>1, GrantStep, SkipStep, TickStep DEF Next
<1> QED
  BY Initial, <1>1, PTL DEF Spec
-----------------------------------------------------------------------------
\* Any window of VT_RATE_WINDOW_MS holds at most twice VT_RATE_LIMIT calls, for
\* every limit and window, and however the refills round.
THEOREM TwiceLimit == Spec => []AtMostTwiceLimit
<1>1. ASSUME IInv PROVE AtMostTwiceLimit
  <2>1. /\ Limit \in Nat /\ Limit > 0 /\ Window \in Nat /\ Window > 0
        /\ vtTokens \in 0..Limit /\ elapsed \in 0..Window /\ age \in 0..Window
        /\ granted \in Nat
    BY <1>1, BucketAssumption DEF IInv, TypeOK
  <2>2. CASE age = Window
    BY <1>1, <2>1, <2>2 DEF IInv, NotWatching, AtMostTwiceLimit
  <2>3. CASE age < Window
    <3>1. Window * (granted + vtTokens) + Limit * elapsed
            <= Window * Limit + Limit * age + Window - 1
      BY <1>1, <2>3 DEF IInv, Budget
    <3>2. Window * (granted + vtTokens) = Window * granted + Window * vtTokens
          /\ Window * vtTokens >= 0 /\ Limit * elapsed >= 0
      BY <2>1
    <3>3. Limit * age <= Limit * (Window - 1) /\ Limit * (Window - 1) = Window * Limit - Limit
      BY <2>1, <2>3
    <3>4. Window * granted < Window * (2 * Limit + 1)
      BY <2>1, <3>1, <3>2, <3>3
    <3>5. granted < 2 * Limit + 1
      BY <2>1, <3>4
    <3> QED
      BY <2>1, <3>5 DEF AtMostTwiceLimit
  <2> QED
    BY <2>1, <2>2, <2>3
<1> QED
  BY Invariance, <1>1, PTL

\* A call is skipped only within Window / Limit of a call that was granted.
THEOREM SkippedWhenBusy == Spec => []SkippedOnlyWhenBusy
<1>1. ASSUME IInv, Refilled.tokens = 0 PROVE sinceGrant * Limit < Window
  <2>1. /\ Limit \in Nat /\ Window \in Nat /\ Window > 0
        /\ elapsed \in 0..Window /\ sinceGrant \in 0..Window
    BY <1>1, BucketAssumption DEF IInv, TypeOK
  <2>2. Limit * elapsed <= Window - 1 /\ sinceGrant <= elapsed
    BY <1>1, RefilledFacts DEF IInv, EmptiedByGrant
  <2>3. sinceGrant * Limit <= Limit * elapsed
    BY <2>1, <2>2
  <2> QED
    BY <2>1, <2>2, <2>3
<1>2. IInv => SkippedOnlyWhenBusy
  BY <1>1 DEF SkippedOnlyWhenBusy
<1> QED
  BY Invariance, <1>2, PTL
=============================================================================
