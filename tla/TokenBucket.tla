---------------------------- MODULE TokenBucket ----------------------------
(***************************************************************************)
(* vtAcquireToken of src/checkers/virusTotal.ts: the token bucket in front *)
(* of the VirusTotal API in one worker process.  The function is           *)
(* synchronous, so an acquisition is one step; time passes between them.   *)
(*                                                                         *)
(* age, granted and sinceGrant are no part of the code: an observer picks  *)
(* any granted call, counts the calls granted in the window that starts    *)
(* with it, and remembers when the last one was.                           *)
(***************************************************************************)
EXTENDS Integers

CONSTANTS Limit, \* VT_RATE_LIMIT
          Window \* VT_RATE_WINDOW_MS, in ticks

ASSUME BucketAssumption == Limit \in Nat \ {0} /\ Window \in Nat \ {0}

VARIABLES vtTokens, \* tokens left
          elapsed,  \* ticks since vtLastRefill, counted up to Window, from
                    \* where on the bucket is simply filled
          age,      \* observer: ticks since its window began; Window when not watching
          granted,  \* observer: calls granted in its window
          sinceGrant \* observer: ticks since the last grant, up to Window

vars == <<vtTokens, elapsed, age, granted, sinceGrant>>

AtMost(n, bound) == IF n < bound THEN n ELSE bound

Init ==
    /\ vtTokens = Limit /\ elapsed = 0
    /\ age = Window /\ granted = 0 /\ sinceGrant = Window

\* Mutation: the time of a partial refill is not recorded.
Refilled_KeepTime ==
    IF elapsed >= Window
    THEN [tokens |-> Limit, elapsed |-> 0]
    ELSE [tokens  |-> AtMost(vtTokens + (elapsed * Limit) \div Window, Limit),
          elapsed |-> elapsed]

\* Mutation: the time is recorded even when it is too short for a token.
Refilled_AlwaysKeepTime ==
    IF elapsed >= Window
    THEN [tokens |-> Limit, elapsed |-> 0]
    ELSE [tokens  |-> AtMost(vtTokens + (elapsed * Limit) \div Window, Limit),
          elapsed |-> 0]

\* The bucket after the refill that begins every acquisition.
Refilled ==
    LET refill == (elapsed * Limit) \div Window
    IN  IF elapsed >= Window
        THEN [tokens |-> Limit, elapsed |-> 0]
        ELSE [tokens  |-> AtMost(vtTokens + refill, Limit),
              elapsed |-> IF refill > 0 THEN 0 ELSE elapsed]

\* A call is granted: a token is taken.  The observer counts it if it is
\* watching, and may begin to watch if it is not.
Grant ==
    /\ Refilled.tokens > 0
    /\ vtTokens' = Refilled.tokens - 1
    /\ elapsed' = Refilled.elapsed
    /\ sinceGrant' = 0
    /\ \/ age < Window /\ granted' = granted + 1 /\ age' = age
       \/ age = Window /\ granted' = 1 /\ age' = 0
       \/ age = Window /\ UNCHANGED <<age, granted>>

\* No token: checkVirusTotal skips the API (virusTotal.ts:73-76).
Skip ==
    /\ Refilled.tokens <= 0
    /\ vtTokens' = Refilled.tokens
    /\ elapsed' = Refilled.elapsed
    /\ UNCHANGED <<age, granted, sinceGrant>>

Tick ==
    /\ elapsed' = AtMost(elapsed + 1, Window)
    /\ sinceGrant' = AtMost(sinceGrant + 1, Window)
    /\ age' = AtMost(age + 1, Window)
    /\ granted' = IF age + 1 < Window THEN granted ELSE 0
    /\ UNCHANGED vtTokens

Next == Grant \/ Skip \/ Tick

Spec == Init /\ [][Next]_vars
-----------------------------------------------------------------------------
\* Types.
TypeOK ==
    /\ vtTokens \in 0..Limit
    /\ elapsed \in 0..Window
    /\ age \in 0..Window
    /\ granted \in Nat
    /\ sinceGrant \in 0..Window

\* Whatever burst was saved up and however refills are rounded
\* (virusTotal.ts:23-34), no window of VT_RATE_WINDOW_MS holds more than twice
\* VT_RATE_LIMIT calls.
AtMostTwiceLimit == granted <= 2 * Limit

\* A call would be skipped only if another one was granted less than Window / Limit
\* ago: however often the bucket is asked between two refills, being asked does
\* not put the next token off (virusTotal.ts:28-33).
SkippedOnlyWhenBusy == Refilled.tokens = 0 => sinceGrant * Limit < Window
=============================================================================
