-------------------------- MODULE CheckerRunProofs --------------------------
(***************************************************************************)
(* Proofs about CheckerRun, for any scores, any cap of the ML checker's,   *)
(* and any deadline that the lookup budgets fit.                           *)
(***************************************************************************)
EXTENDS CheckerRun, TLAPS

\* Every settled score is one the checker may give: the ML checker's are capped.
ScoresOK ==
    \A c \in Names : checks[c] = {} \/ \E s \in Scores(c), v \in BOOLEAN :
                                        checks[c] = {[score |-> s, veto |-> v]}

\* How late heuristicCheck can be at each of its awaits, beside the time that DNS
\* and Redis took: a timer that is set fires before its budget is exceeded, and the
\* RDAP servers share theirs.
InTime ==
    Pending("heuristics") =>
      /\ step = "dns" => due = 0 /\ elapsed <= untimed
      /\ step = "whois" => due > 0 /\ elapsed <= due /\ due <= untimed + WhoisMax
      /\ step = "cache" => due = 0 /\ elapsed <= untimed + WhoisMax
      /\ step \in {"rdap", "rdap2"} =>
           /\ due > 0 /\ elapsed <= due /\ due <= until
           /\ until <= untimed + WhoisMax + RdapMax
      /\ step \in {"store", "ready"} => due = 0 /\ elapsed <= untimed + WhoisMax + RdapMax

\* The verdict is that of the checks as they stand: nothing settles after it.
VerdictStands ==
    outcome # "none" =>
        /\ \A c \in Eligible : checks[c] # {}
        /\ outcome = VerdictOf(Corroboration + Counted)

IInv == TypeOK /\ ScoresOK /\ InTime /\ VerdictStands

\* Scores are natural numbers, and the ML checker's are at most its cap.
LEMMA ScoresBounded ==
    /\ \A c \in Names : Scores(c) \subseteq Nat
    /\ \A s \in Scores("ml") : s <= MlCap
BY RunAssumption DEF Scores, MlPoints, Names, ProGated

\* The score counted for a checker is one it may give.
LEMMA ScoreGiven == ASSUME ScoresOK PROVE \A c \in Names : ScoreOf(c) \in Scores(c)
<1> SUFFICES ASSUME NEW c \in Names PROVE ScoreOf(c) \in Scores(c)
  OBVIOUS
<1>1. CASE checks[c] = {}
  BY <1>1 DEF ScoreOf, Scores
<1>2. ASSUME NEW s \in Scores(c), NEW v \in BOOLEAN,
             checks[c] = {[score |-> s, veto |-> v]}
      PROVE  ScoreOf(c) \in Scores(c)
  <2>1. (CHOOSE r \in checks[c] : TRUE) = [score |-> s, veto |-> v]
    BY <1>2
  <2> QED
    BY <1>2, <2>1 DEF ScoreOf
<1> QED
  BY <1>1, <1>2 DEF ScoresOK

\* The invariant holds when runAll is called.
LEMMA Initial == Init => IInv
<1> SUFFICES ASSUME Init PROVE IInv
  OBVIOUS
<1>1. TypeOK
  <2>1. checks \in [Names -> SUBSET [score : Nat, veto : BOOLEAN]]
    BY DEF Init
  <2>2. due \in Nat /\ until \in Nat /\ untimed \in Nat
    BY DEF Init
  <2>3. vetoEligible \in BOOLEAN /\ dated \in BOOLEAN
    BY Zenon DEF Init
  <2>4. asked \in Questions /\ site \in Sites /\ step \in Steps /\ outcome = "none"
    BY DEF Init, Steps
  <2>5. elapsed \in 0..Deadline
    BY RunAssumption DEF Init
  <2> QED
    BY <2>1, <2>2, <2>3, <2>4, <2>5 DEF TypeOK
<1>2. ScoresOK /\ VerdictStands
  BY DEF Init, ScoresOK, VerdictStands
<1>3. InTime
  BY DEF Init, InTime
<1> QED
  BY <1>1, <1>2, <1>3 DEF IInv

\* Settling a pending check with a score the checker may give.
LEMMA PutStep ==
    ASSUME IInv, NEW c \in Names, Pending(c), NEW s \in Scores(c), NEW v \in BOOLEAN,
           Put(c, s, v), UNCHANGED <<asking, elapsed, heuristic, untimed, outcome>>
    PROVE  IInv'
<1>1. TypeOK'
  BY ScoresBounded, RunAssumption DEF Put, IInv, TypeOK, asking, heuristic, timers
<1>2. ScoresOK'
  <2> SUFFICES ASSUME NEW d \in Names
               PROVE  checks'[d] = {} \/ \E t \in Scores(d), w \in BOOLEAN :
                                            checks'[d] = {[score |-> t, veto |-> w]}
    BY DEF ScoresOK, Scores
  <2>1. CASE d = c
    BY <2>1 DEF Put, IInv, TypeOK
  <2>2. CASE d # c
    BY <2>2 DEF Put, IInv, TypeOK, ScoresOK
  <2> QED
    BY <2>1, <2>2
<1>3. InTime'
  <2>1. UNCHANGED <<step, due, until, elapsed, untimed, asked>>
    BY DEF asking, heuristic, timers
  <2>2. Pending("heuristics")' => Pending("heuristics")
    <3>1. Eligible' = Eligible
      BY <2>1 DEF Eligible
    <3>2. checks'["heuristics"] = {} => checks["heuristics"] = {}
      BY RunAssumption DEF Put, IInv, TypeOK, Names
    <3> QED
      BY <3>1, <3>2 DEF Pending
  <2> QED
    BY <2>1, <2>2 DEF IInv, InTime
<1>4. VerdictStands'
  BY DEF Pending, IInv, VerdictStands
<1> QED
  BY <1>1, <1>2, <1>3, <1>4 DEF IInv

\* A step that leaves the checks, the clock and the verdict alone.
LEMMA AwaitStep ==
    ASSUME IInv, step' \in Steps, vetoEligible' \in BOOLEAN, dated' \in BOOLEAN,
           due' \in Nat, until' \in Nat, InTime',
           UNCHANGED <<asking, elapsed, checks, untimed, outcome>>
    PROVE  IInv'
<1>1. TypeOK' /\ ScoresOK'
  BY DEF IInv, TypeOK, ScoresOK, Scores, asking
<1>2. VerdictStands'
  BY DEF IInv, VerdictStands, Eligible, Corroboration, Counted, Vetoed, ScoreOf, asking
<1> QED
  BY <1>1, <1>2 DEF IInv

\* heuristicCheck goes from one await to the next, within the budgets.
LEMMA HeuristicsStep ==
    ASSUME IInv,
           Resolved \/ WhoisAnswers \/ CacheSettles \/ RdapAnswers \/ StoreSettles
    PROVE  IInv'
<1> USE RunAssumption
<1>1. /\ UNCHANGED <<asking, elapsed, checks, untimed, outcome>>
      /\ elapsed \in Nat /\ untimed \in Nat /\ due \in Nat /\ until \in Nat
      /\ Pending("heuristics")
  BY DEF Resolved, WhoisAnswers, CacheSettles, RdapAnswers, StoreSettles, IInv, TypeOK
<1>2. InTime' /\ step' \in Steps /\ due' \in Nat /\ until' \in Nat
  <2>1. CASE Resolved
    BY <1>1, <2>1 DEF Resolved, IInv, InTime, Await, AwaitFor, Steps
  <2>2. CASE WhoisAnswers
    BY <1>1, <2>2 DEF WhoisAnswers, IInv, InTime, Await, AwaitFor, Steps
  <2>3. CASE CacheSettles
    BY <1>1, <2>3 DEF CacheSettles, IInv, InTime, Await, AwaitFor, Steps
  <2>4. CASE RdapAnswers
    BY <1>1, <2>4 DEF RdapAnswers, SecondServer, IInv, InTime, Await, AwaitFor, Steps
  <2>5. CASE StoreSettles
    BY <1>1, <2>5 DEF StoreSettles, IInv, InTime, Await, AwaitFor, Steps
  <2> QED
    BY <2>1, <2>2, <2>3, <2>4, <2>5
<1>3. vetoEligible' \in BOOLEAN /\ dated' \in BOOLEAN
  BY DEF Resolved, WhoisAnswers, CacheSettles, RdapAnswers, SecondServer, StoreSettles,
         Sites, IInv, TypeOK
<1> QED
  BY <1>1, <1>2, <1>3, AwaitStep

\* A tick passes no timer that is due, and counts as untimed if none is set.
LEMMA TickStep == IInv /\ Tick => IInv'
<1> SUFFICES ASSUME IInv, Tick PROVE IInv'
  OBVIOUS
<1>1. TypeOK'
  BY RunAssumption DEF Tick, IInv, TypeOK, asking, heuristic, timers
<1>2. InTime'
  <2>1. UNCHANGED <<step, due, until>> /\ (Pending("heuristics")' <=> Pending("heuristics"))
    BY DEF Tick, heuristic, timers, asking, Pending, Eligible
  <2>2. /\ elapsed \in Nat /\ untimed \in Nat /\ due \in Nat /\ until \in Nat
        /\ elapsed' = elapsed + 1
    BY RunAssumption DEF Tick, IInv, TypeOK
  <2>3. CASE Pending("heuristics") /\ due = 0
    <3>1. untimed' = untimed + 1
      BY <2>3 DEF Tick
    <3> QED
      BY <2>1, <2>2, <2>3, <3>1, RunAssumption DEF IInv, InTime
  <2>4. CASE Pending("heuristics") /\ due > 0
    <3>1. untimed' = untimed /\ elapsed < due
      BY <2>4 DEF Tick
    <3> QED
      BY <2>1, <2>2, <2>4, <3>1, RunAssumption DEF IInv, InTime
  <2>5. CASE ~Pending("heuristics")
    BY <2>1, <2>5 DEF InTime
  <2> QED
    BY <2>2, <2>3, <2>4, <2>5
<1>3. ScoresOK' /\ VerdictStands'
  BY DEF Tick, IInv, ScoresOK, Scores, VerdictStands
<1> QED
  BY <1>1, <1>2, <1>3 DEF IInv

\* Every step keeps the invariant; once there is a verdict no check is pending.
LEMMA Inductive == IInv /\ [Next]_vars => IInv'
<1> SUFFICES ASSUME IInv, [Next]_vars PROVE IInv'
  OBVIOUS
<1> "heuristics" \in Names /\ RunAssumption
  BY RunAssumption DEF Names
<1>1. CASE UNCHANGED vars
  <2>1. InTime'
    BY <1>1 DEF vars, asking, heuristic, timers, IInv, InTime, Pending, Eligible
  <2> QED
    BY <1>1, <2>1, AwaitStep DEF vars, asking, heuristic, timers, IInv, TypeOK
<1>2. CASE Resolved \/ WhoisAnswers \/ CacheSettles \/ RdapAnswers \/ StoreSettles
  BY <1>2, HeuristicsStep
<1>3. CASE HeuristicsSettles
  <2> (dated /\ site.old /\ vetoEligible) \in BOOLEAN
    OBVIOUS
  <2> QED
    BY <1>3, PutStep DEF HeuristicsSettles
<1>4. CASE HeuristicsGivesUp
  BY <1>4, PutStep DEF HeuristicsGivesUp
<1>5. ASSUME NEW c \in Names, Settles(c) PROVE IInv'
  BY <1>5, PutStep DEF Settles
<1>6. ASSUME NEW c \in Names, TimesOut(c) PROVE IInv'
  BY <1>6, PutStep DEF TimesOut, Scores
<1>7. CASE Tick
  BY <1>7, TickStep
<1>8. CASE Assemble
  <2>1. TypeOK'
    BY <1>8 DEF Assemble, VerdictOf, IInv, TypeOK, asking, heuristic, timers
  <2>2. ScoresOK' /\ InTime'
    BY <1>8 DEF Assemble, IInv, ScoresOK, Scores, InTime, Pending, Eligible, asking,
                 heuristic, timers
  <2>3. VerdictStands'
    BY <1>8 DEF Assemble, Pending, VerdictStands, Eligible, Corroboration, Counted, Vetoed,
                 ScoreOf, asking
  <2> QED
    BY <2>1, <2>2, <2>3 DEF IInv
<1> QED
  BY <1>1, <1>2, <1>3, <1>4, <1>5, <1>6, <1>7, <1>8
     DEF Next, Heuristics

\* The inductive invariant holds throughout.
THEOREM Invariance == Spec => []IInv
BY Initial, Inductive, PTL DEF Spec

\* Every reachable state is well typed, a check having one settled result at most.
THEOREM TypeCorrect == Spec => []TypeOK
BY Invariance, PTL DEF IInv

\* A verdict of phishing rests on at least 70 - MlCap points of checkers other
\* than ml, whatever checkers answer, fail or time out.
THEOREM Corroborated == Spec => []PhishingIsCorroborated
<1>1. IInv => PhishingIsCorroborated
  <2> SUFFICES ASSUME IInv, outcome = "phishing" PROVE Corroboration >= 70 - MlCap
    BY DEF PhishingIsCorroborated
  <2>1. \A c \in Names : ScoreOf(c) \in Scores(c)
    BY ScoreGiven DEF IInv
  <2>2. Corroboration \in Nat
    BY <2>1, ScoresBounded DEF Corroboration, Names, ProGated
  <2>3. Counted \in Nat /\ Counted <= MlCap
    BY <2>1, ScoresBounded, RunAssumption DEF Counted, Names
  <2>4. Corroboration + Counted >= 70
    BY <2>2, <2>3 DEF IInv, VerdictStands, VerdictOf
  <2> QED
    BY <2>2, <2>3, <2>4, RunAssumption
<1> QED
  BY Invariance, <1>1, PTL

-----------------------------------------------------------------------------
\* runAll always runs heuristics.
LEMMA HeuristicsRuns == "heuristics" \in Names /\ "heuristics" \in Eligible
BY RunAssumption DEF Names, Eligible, ProGated

\* heuristicCheck has returned by the registry's deadline if DNS and Redis were
\* prompt, whatever whois and the RDAP servers do (heuristics.ts:13-17), for any
\* deadline that has room for the two budgets and for Prompt.
THEOREM BudgetsFit == Spec => []OnTimeIfPrompt
<1>1. IInv => OnTimeIfPrompt
  <2> SUFFICES ASSUME IInv, untimed <= Prompt, elapsed >= Deadline, checks["heuristics"] = {}
               PROVE  FALSE
    BY DEF OnTimeIfPrompt
  <2>1. Pending("heuristics")
    BY HeuristicsRuns DEF Pending
  <2>2. elapsed <= untimed + WhoisMax + RdapMax
    BY <2>1, RunAssumption DEF IInv, InTime, TypeOK, Steps
  <2> QED
    BY <2>2, RunAssumption, BudgetAssumption DEF IInv, TypeOK
<1> QED
  BY Invariance, <1>1, PTL

\* Why heuristics has settled without a veto on an established, clean URL.
NoVetoExplained ==
    checks["heuristics"] # {} /\ site.old /\ site.clean =>
        \/ \E r \in checks["heuristics"] : r.veto
        \/ Refuted
        \/ step # "ready" /\ elapsed >= Deadline

\* Once heuristics has settled its lookups stay where they are.
LEMMA ExplanationStays ==
    ASSUME IInv, NoVetoExplained, Next, ~Pending("heuristics") PROVE NoVetoExplained'
<1>1. "heuristics" \in Eligible /\ checks["heuristics"] # {}
  BY HeuristicsRuns DEF Pending
<1>2. \/ \E c \in Names : Settles(c) \/ (TimesOut(c) /\ c # "heuristics")
      \/ Tick \/ Assemble
  BY DEF Next, Heuristics, Resolved, WhoisAnswers, CacheSettles, RdapAnswers, StoreSettles,
         HeuristicsSettles, HeuristicsGivesUp, TimesOut
<1>3. checks'["heuristics"] = checks["heuristics"]
  BY <1>2, HeuristicsRuns DEF Settles, TimesOut, Tick, Assemble, Put, IInv, TypeOK
<1>4. UNCHANGED <<site, step, vetoEligible, dated>>
  BY <1>2 DEF Settles, TimesOut, Tick, Assemble, asking, heuristic
<1>5. elapsed' = elapsed \/ elapsed' = elapsed + 1
  BY <1>2 DEF Settles, TimesOut, Tick, Assemble
<1> QED
  BY <1>1, <1>3, <1>4, <1>5, RunAssumption DEF NoVetoExplained, Refuted, IInv, TypeOK

\* It settles with a veto, or refuted, or at the deadline.
LEMMA ExplanationFound ==
    ASSUME IInv, Next, Pending("heuristics") PROVE NoVetoExplained'
<1> "heuristics" \in Names /\ checks["heuristics"] = {} /\ checks \in [Names -> SUBSET [score : Nat, veto : BOOLEAN]]
  BY DEF Names, Pending, IInv, TypeOK
<1>1. CASE HeuristicsSettles
  <2>1. PICK score \in Scores("heuristics") :
          checks'["heuristics"] = {[score |-> score, veto |-> (dated /\ site.old /\ vetoEligible)]}
    BY <1>1 DEF HeuristicsSettles, Put
  <2>2. UNCHANGED <<site, step, vetoEligible, dated>> /\ step = "ready"
    BY <1>1 DEF HeuristicsSettles, asking, heuristic
  <2>3. CASE dated /\ site.old /\ vetoEligible
    <3>1. checks'["heuristics"] = {[score |-> score, veto |-> TRUE]}
      BY <2>1, <2>3
    <3> QED
      BY <3>1 DEF NoVetoExplained
  <2>4. CASE ~(dated /\ site.old /\ vetoEligible)
    BY <2>2, <2>4 DEF NoVetoExplained, Refuted
  <2> QED
    BY <2>3, <2>4
<1>2. CASE HeuristicsGivesUp
  BY <1>2 DEF HeuristicsGivesUp, NoVetoExplained, asking
<1>3. CASE TimesOut("heuristics")
  BY <1>3 DEF TimesOut, NoVetoExplained, asking, heuristic
<1>4. ASSUME ~HeuristicsSettles, ~HeuristicsGivesUp, ~TimesOut("heuristics")
      PROVE  checks'["heuristics"] = {}
  BY <1>4 DEF Next, Heuristics, Resolved, WhoisAnswers, CacheSettles, RdapAnswers,
              StoreSettles, Settles, TimesOut, Tick, Assemble, Put
<1> QED
  BY <1>1, <1>2, <1>3, <1>4 DEF NoVetoExplained

\* ML points bear on the verdict on an established, lexically clean URL only if
\* the lookups told against the veto or were still going on at the deadline, in
\* whatever order the checkers end.
THEOREM MlWithoutVeto == Spec => []MlCountsOnlyWithoutVeto
<1>1. Init => NoVetoExplained
  BY DEF Init, NoVetoExplained, Names
<1>2. IInv /\ NoVetoExplained /\ [Next]_vars => NoVetoExplained'
  <2>1. ASSUME IInv, NoVetoExplained, UNCHANGED vars PROVE NoVetoExplained'
    BY <2>1 DEF NoVetoExplained, Refuted, vars, asking, heuristic
  <2> QED
    BY <2>1, ExplanationStays, ExplanationFound
<1>3. IInv /\ NoVetoExplained => MlCountsOnlyWithoutVeto
  <2> SUFFICES ASSUME IInv, NoVetoExplained, outcome # "none", site.old, site.clean,
                      outcome # VerdictOf(Corroboration)
               PROVE  Refuted \/ (step # "ready" /\ elapsed >= Deadline)
    BY DEF MlCountsOnlyWithoutVeto
  <2>1. checks["heuristics"] # {} /\ outcome = VerdictOf(Corroboration + Counted)
    BY HeuristicsRuns DEF IInv, VerdictStands
  <2>2. Corroboration \in Nat
    BY ScoreGiven, ScoresBounded DEF IInv, Corroboration, Names, ProGated
  <2>3. ~Vetoed
    BY <2>1, <2>2 DEF Counted
  <2> QED
    BY <2>1, <2>3 DEF NoVetoExplained, Vetoed, Names
<1> QED
  BY Invariance, <1>1, <1>2, <1>3, PTL DEF Spec
=============================================================================
