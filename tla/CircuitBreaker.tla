--------------------------- MODULE CircuitBreaker ---------------------------
(***************************************************************************)
(* scoreUrlMl of src/utils/ml.ts: the circuit breaker between one worker   *)
(* process and the ML service, shared by all the calls in flight.  The     *)
(* await on the HTTP call is where calls interleave: the breaker is read   *)
(* when a call begins and written when it settles, so an answer may find   *)
(* the breaker in another state than the one that let its call through.    *)
(***************************************************************************)
EXTENDS Naturals

CONSTANTS Calls,     \* slots in which ML checks run
          Threshold, \* CIRCUIT_BREAKER_THRESHOLD
          Reset      \* CIRCUIT_BREAKER_RESET_MS, in ticks

ASSUME BreakerAssumption == Threshold \in Nat \ {0} /\ Reset \in Nat

VARIABLES circuitState,    \* "closed", "open" or "half-open"
          circuitFailures, \* counted up to Threshold, the only value compared with
          sinceOpened,     \* ticks since circuitOpenedAt, counted up to Reset + 1
          call,            \* per slot: "idle", or "remote" while it awaits the service
          sinceFailure     \* history: ticks since a call failed, up to Reset + 1

vars == <<circuitState, circuitFailures, sinceOpened, call, sinceFailure>>

AtMost(n, bound) == IF n < bound THEN n ELSE bound
Elapsed == sinceOpened > Reset

Init ==
    /\ circuitState = "closed" /\ circuitFailures = 0
    /\ sinceOpened = Reset + 1 /\ sinceFailure = Reset + 1
    /\ call = [c \in Calls |-> "idle"]
-----------------------------------------------------------------------------
\* isCircuitOpen returns false for a closed circuit.
BeginRemote(c) ==
    /\ call[c] = "idle" /\ circuitState = "closed"
    /\ call' = [call EXCEPT ![c] = "remote"]
    /\ UNCHANGED <<circuitState, circuitFailures, sinceOpened, sinceFailure>>

\* Mutation: an open circuit is never tried again.
BeginProbe_NoRetry(c) ==
    /\ call[c] = "idle" /\ circuitState = "half-open"
    /\ call' = [call EXCEPT ![c] = "remote"]
    /\ UNCHANGED <<circuitState, circuitFailures, sinceOpened, sinceFailure>>

\* isCircuitOpen returns false for one that is half-open, or becomes half-open.
BeginProbe(c) ==
    /\ call[c] = "idle"
    /\ \/ circuitState = "open" /\ Elapsed
       \/ circuitState = "half-open"
    /\ circuitState' = "half-open"
    /\ call' = [call EXCEPT ![c] = "remote"]
    /\ UNCHANGED <<circuitFailures, sinceOpened, sinceFailure>>

\* isCircuitOpen returns true: localFallbackScore, which changes nothing here.
FallBack(c) ==
    /\ call[c] = "idle" /\ circuitState = "open" /\ ~Elapsed
    /\ UNCHANGED vars

\* Mutation: leave the failures counted.
RecordSuccess_KeepCount ==
    /\ circuitState' = "closed"
    /\ UNCHANGED <<circuitFailures, sinceOpened>>

RecordSuccess ==
    /\ circuitFailures' = 0
    /\ circuitState' = "closed"
    /\ UNCHANGED sinceOpened

\* Mutation: only the failure that trips the circuit starts the wait.
RecordFailure_FirstOnly ==
    /\ circuitFailures' = AtMost(circuitFailures + 1, Threshold)
    /\ IF circuitFailures + 1 >= Threshold
       THEN circuitState' = "open"
       ELSE UNCHANGED circuitState
    /\ IF circuitFailures + 1 = Threshold
       THEN sinceOpened' = 0
       ELSE UNCHANGED sinceOpened

RecordFailure ==
    /\ circuitFailures' = AtMost(circuitFailures + 1, Threshold)
    /\ IF circuitFailures + 1 >= Threshold
       THEN circuitState' = "open" /\ sinceOpened' = 0
       ELSE UNCHANGED <<circuitState, sinceOpened>>

\* The ML service answered.
Succeed(c) ==
    /\ call[c] # "idle"
    /\ RecordSuccess
    /\ call' = [call EXCEPT ![c] = "idle"]
    /\ UNCHANGED sinceFailure

\* It refused, answered with an error status, or let ML_TIMEOUT_MS pass.
Fail(c) ==
    /\ call[c] # "idle"
    /\ RecordFailure
    /\ call' = [call EXCEPT ![c] = "idle"]
    /\ sinceFailure' = 0

\* It answered with something the code cannot read: recordSuccess, and then, in
\* the catch block, recordFailure.
Garble(c) ==
    /\ call[c] # "idle"
    /\ circuitFailures' = 1
    /\ IF Threshold = 1
       THEN circuitState' = "open" /\ sinceOpened' = 0
       ELSE circuitState' = "closed" /\ UNCHANGED sinceOpened
    /\ call' = [call EXCEPT ![c] = "idle"]
    /\ sinceFailure' = 0

Tick ==
    /\ sinceOpened' = AtMost(sinceOpened + 1, Reset + 1)
    /\ sinceFailure' = AtMost(sinceFailure + 1, Reset + 1)
    /\ UNCHANGED <<circuitState, circuitFailures, call>>

Settle(c) == Succeed(c) \/ Fail(c) \/ Garble(c)

Next ==
    \/ \E c \in Calls :
         BeginRemote(c) \/ BeginProbe(c) \/ FallBack(c) \/ Settle(c)
    \/ Tick

Spec == Init /\ [][Next]_vars

\* A call settles within ML_TIMEOUT_MS, time passes, and ML checks keep coming.
FairSpec ==
    /\ Spec
    /\ WF_vars(Tick)
    /\ \A c \in Calls : WF_vars(Settle(c))
    /\ WF_vars(\E c \in Calls : BeginProbe(c))
-----------------------------------------------------------------------------
\* Types.
TypeOK ==
    /\ circuitState \in {"closed", "open", "half-open"}
    /\ circuitFailures \in 0..Threshold
    /\ sinceOpened \in 0..(Reset + 1)
    /\ sinceFailure \in 0..(Reset + 1)
    /\ call \in [Calls -> {"idle", "remote"}]

\* The counter and the state agree however late answers interleave with a trip
\* (ml.ts:35-49): a closed circuit is short of the threshold, and any other has
\* reached it, so that one failed probe is enough to open it again.
CountMatchesState == circuitState = "closed" <=> circuitFailures < Threshold

\* While the circuit is not closed, every failure, a probe's or that of a call
\* sent before the trip, leaves the service alone for Reset (ml.ts:22-33, 44):
\* no call begins until then.
WaitIsRespected ==
    [][circuitState # "closed" /\ sinceFailure <= Reset =>
         \A c \in Calls : call[c] = "idle" => call'[c] = "idle"]_vars

\* Once calls stop failing the circuit closes for good: nothing keeps scans on
\* the local fallback (ml.ts:35-38).
RecoveredServiceIsUsed ==
    <>[][\A c \in Calls : ~Fail(c) /\ ~Garble(c)]_vars => <>[](circuitState = "closed")
=============================================================================
