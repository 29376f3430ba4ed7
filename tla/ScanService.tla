---------------------------- MODULE ScanService ----------------------------
(***************************************************************************)
(* What a scan promises its caller, with the cache, Redis and the checkers *)
(* left out: a request for a URL is eventually answered with an assessment *)
(* of that URL, made with the ML setting the request asked for, either     *)
(* since the request arrived or less than TTL ago.                         *)
(***************************************************************************)
EXTENDS Naturals

CONSTANTS Requests,  \* the slots in which requests are served
          Questions, \* what a request can ask: a URL and the caller's service level
          Results,   \* every assessment a scan can produce
          TTL,       \* how long an assessment may be reused
          Horizon    \* bound on the clock

VARIABLES now, phase, ask, began, answer

serviceVars == <<now, phase, ask, began, answer>>

Init ==
    /\ now = 0
    /\ phase = [r \in Requests |-> "idle"]
    /\ ask \in [Requests -> Questions]
    /\ began = [r \in Requests |-> 0]
    /\ answer = [r \in Requests |-> {}]

Receive(r) ==
    /\ phase[r] # "open"
    /\ \E q \in Questions : ask' = [ask EXCEPT ![r] = q]
    /\ phase' = [phase EXCEPT ![r] = "open"]
    /\ began' = [began EXCEPT ![r] = now]
    /\ answer' = [answer EXCEPT ![r] = {}]
    /\ UNCHANGED now

Admissible(r, v) ==
    /\ v.url = ask[r].url
    /\ v.ml = ask[r].ml
    /\ v.at <= now
    /\ \/ began[r] <= v.at
       \/ now < v.at + TTL

Answer(r) ==
    /\ phase[r] = "open"
    /\ \E v \in Results : Admissible(r, v) /\ answer' = [answer EXCEPT ![r] = {v}]
    /\ phase' = [phase EXCEPT ![r] = "done"]
    /\ UNCHANGED <<now, ask, began>>

Lose(r) ==
    /\ phase[r] = "open"
    /\ phase' = [phase EXCEPT ![r] = "lost"]
    /\ UNCHANGED <<now, ask, began, answer>>

Tick ==
    /\ now < Horizon
    /\ now' = now + 1
    /\ UNCHANGED <<phase, ask, began, answer>>

Next ==
    \/ Tick
    \/ \E r \in Requests : Receive(r) \/ Answer(r) \/ Lose(r)

Spec == Init /\ [][Next]_serviceVars
=============================================================================
