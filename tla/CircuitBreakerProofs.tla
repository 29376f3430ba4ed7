------------------------ MODULE CircuitBreakerProofs ------------------------
(***************************************************************************)
(* Proofs about CircuitBreaker, for any number of overlapping calls, any   *)
(* threshold and any wait.                                                 *)
(***************************************************************************)
EXTENDS CircuitBreaker, TLAPS

\* An open circuit was opened by the last failure, and a half-open one has
\* waited since: a failure in any state but closed opens the circuit again.
WaitRuns ==
    /\ circuitState = "open" => sinceOpened = sinceFailure
    /\ circuitState = "half-open" => sinceFailure > Reset

IInv == TypeOK /\ CountMatchesState /\ WaitRuns

\* The invariant holds at first: the circuit is closed and has counted nothing.
LEMMA Initial == Init => IInv
BY BreakerAssumption DEF Init, IInv, TypeOK, CountMatchesState, WaitRuns

\* Every step keeps the invariant; Fail needs the count to match the state,
\* Tick needs the two clocks to run together.
LEMMA Inductive == IInv /\ [Next]_vars => IInv'
<1> USE BreakerAssumption
<1> SUFFICES ASSUME IInv, [Next]_vars PROVE IInv'
  OBVIOUS
<1>1. CASE UNCHANGED vars
  BY <1>1 DEF vars, IInv, TypeOK, CountMatchesState, WaitRuns
<1>2. ASSUME NEW c \in Calls, BeginRemote(c) PROVE IInv'
  BY <1>2 DEF BeginRemote, IInv, TypeOK, CountMatchesState, WaitRuns
<1>3. ASSUME NEW c \in Calls, BeginProbe(c) PROVE IInv'
  <2>1. TypeOK' /\ CountMatchesState'
    BY <1>3 DEF BeginProbe, IInv, TypeOK, CountMatchesState
  <2>2. WaitRuns'
    BY <1>3 DEF BeginProbe, Elapsed, IInv, WaitRuns
  <2> QED
    BY <2>1, <2>2 DEF IInv
<1>4. ASSUME NEW c \in Calls, FallBack(c) PROVE IInv'
  BY <1>4 DEF FallBack, vars, IInv, TypeOK, CountMatchesState, WaitRuns
<1>5. ASSUME NEW c \in Calls, Succeed(c) PROVE IInv'
  BY <1>5 DEF Succeed, RecordSuccess, IInv, TypeOK, CountMatchesState, WaitRuns
<1>6. ASSUME NEW c \in Calls, Fail(c) PROVE IInv'
  <2>1. TypeOK'
    BY <1>6 DEF Fail, RecordFailure, AtMost, IInv, TypeOK
  <2>2. CountMatchesState'
    BY <1>6 DEF Fail, RecordFailure, AtMost, IInv, TypeOK, CountMatchesState
  <2>3. WaitRuns'
    <3>1. CASE circuitFailures + 1 >= Threshold
      BY <1>6, <3>1 DEF Fail, RecordFailure, WaitRuns
    <3>2. CASE circuitFailures + 1 < Threshold
      BY <1>6, <3>2 DEF Fail, RecordFailure, IInv, TypeOK, CountMatchesState, WaitRuns
    <3> QED
      BY <3>1, <3>2 DEF IInv, TypeOK
  <2> QED
    BY <2>1, <2>2, <2>3 DEF IInv
<1>7. ASSUME NEW c \in Calls, Garble(c) PROVE IInv'
  <2>1. TypeOK'
    BY <1>7 DEF Garble, IInv, TypeOK
  <2>2. CountMatchesState' /\ WaitRuns'
    BY <1>7 DEF Garble, CountMatchesState, WaitRuns
  <2> QED
    BY <2>1, <2>2 DEF IInv
<1>8. CASE Tick
  BY <1>8 DEF Tick, AtMost, IInv, TypeOK, CountMatchesState, WaitRuns
<1> QED
  BY <1>1, <1>2, <1>3, <1>4, <1>5, <1>6, <1>7, <1>8 DEF Next, Settle

\* The inductive invariant holds throughout.
THEOREM Invariance == Spec => []IInv
BY Initial, Inductive, PTL DEF Spec

\* The failure counter and the breaker's state never disagree.
THEOREM CountAndState == Spec => []CountMatchesState
<1>1. IInv => CountMatchesState
  BY DEF IInv
<1> QED
  BY Invariance, <1>1, PTL

\* While the breaker is not closed, no call reaches the service until Reset has
\* passed since the last failure, however many calls were in flight.
THEOREM WaitHolds == Spec => WaitIsRespected
<1> DEFINE Quiet == circuitState # "closed" /\ sinceFailure <= Reset =>
                      \A c \in Calls : call[c] = "idle" => call'[c] = "idle"
<1>1. ASSUME IInv, [Next]_vars PROVE [Quiet]_vars
  <2> SUFFICES ASSUME circuitState # "closed", sinceFailure <= Reset, Next,
                      NEW c \in Calls, call[c] = "idle"
               PROVE  call'[c] = "idle"
    BY <1>1
  <2>1. circuitState = "open" /\ ~Elapsed
    BY <1>1, BreakerAssumption DEF IInv, TypeOK, WaitRuns, Elapsed
  <2>2. PICK d : Tick \/ FallBack(d) \/ Succeed(d) \/ Fail(d) \/ Garble(d)
    BY <2>1 DEF Next, Settle, BeginRemote, BeginProbe
  <2> QED
    BY <1>1, <2>2 DEF Tick, FallBack, Succeed, Fail, Garble, vars, IInv, TypeOK
<1> QED
  BY Invariance, <1>1, PTL DEF Spec, WaitIsRespected
=============================================================================
