----------------------------- MODULE CheckerRun -----------------------------
(***************************************************************************)
(* One scan's run of the checkers: CheckerRegistry.runAll, the race each   *)
(* checker runs against its timer, the awaits heuristicCheck goes through  *)
(* one after the other, and the veto, the total and the verdict of         *)
(* src/Scanner.ts:128-146.                                                 *)
(*                                                                         *)
(* A checker that lost its race goes on, but its result reaches nobody, so *)
(* it is followed only until its entry of checks is settled.               *)
(***************************************************************************)
EXTENDS Integers

CONSTANTS Registered, \* the checkers followed; the others answer 0 at once
          Questions,  \* the service levels that may ask: [tier, ml]
          Points,     \* Points[c]: the scores checker c may give
          MlScores,   \* the scores of the ML service and of the local fallback
          MlCap,      \* ML_MAX_SCORE
          Deadline,   \* TIMEOUT_MS, in ticks
          WhoisMax,   \* WHOIS_TIMEOUT_MS
          RdapMax,    \* RDAP_TOTAL_MS
          Prompt      \* ticks within which DNS and Redis together answer, at their best

Premium == {"pro", "enterprise"}
ProGated == {"google_safe_browsing", "virustotal"}
Names == {"heuristics", "openphish", "urlhaus", "phishtank", "phishstats", "ml"} \cup ProGated

ASSUME RunAssumption ==
    /\ Registered \subseteq Names /\ "heuristics" \in Registered
    /\ Questions \subseteq [tier : {"free"} \cup Premium, ml : BOOLEAN]
    /\ Points \in [Names \ {"ml"} -> SUBSET Nat]
    /\ MlScores \subseteq Int /\ MlCap \in Nat
    /\ Deadline \in Nat \ {0} /\ WhoisMax \in Nat \ {0} /\ RdapMax \in Nat \ {0}
    /\ Prompt \in Nat

\* heuristics.ts:13-17: the budgets fit the deadline, with time for DNS and Redis.
ASSUME BudgetAssumption == WhoisMax + RdapMax + Prompt < Deadline

VARIABLES asked,   \* the service level of the scan
          site,    \* facts: [old, clean], its domain's age and its URL's looks
          elapsed, \* ticks since runAll began
          checks,  \* per checker, a set of at most one settled [score, veto]
          step,    \* the await heuristicCheck is at
          vetoEligible,
          dated,   \* has heuristicCheck a creation date?
          due,     \* when the timer heuristicCheck has set fires; 0 if none is set
          until,   \* fetchRdapDate's deadline while it runs, else 0
          untimed, \* ticks heuristicCheck spent at awaits without a timer: DNS, Redis
          outcome  \* the verdict of the scan, "none" until there is one

timers == <<due, until>>
heuristic == <<step, vetoEligible, dated, timers>>
asking == <<asked, site>>
vars == <<asking, elapsed, checks, heuristic, untimed, outcome>>

Sites == [old : BOOLEAN, clean : BOOLEAN]
Steps == {"dns", "whois", "cache", "rdap", "rdap2", "store", "ready"}

\* runAll's filter on minTier.
Eligible ==
    {c \in Registered :
        /\ c = "ml" => asked.ml
        /\ c \in ProGated => asked.ml /\ asked.tier \in Premium}

Pending(c) == c \in Eligible /\ checks[c] = {}

\* Mutation: a negative prediction counts as it is.
MlPoints_NoFloor(s) == IF s > MlCap THEN MlCap ELSE s
\* Mutation: the prediction counts in full.
MlPoints_Uncapped(s) == IF s < 0 THEN 0 ELSE s
MlPoints(s) == IF s < 0 THEN 0 ELSE IF s > MlCap THEN MlCap ELSE s

\* What checker c may answer; a checker that rejects is counted as 0.
Scores(c) == {0} \cup (IF c = "ml" THEN {MlPoints(s) : s \in MlScores} ELSE Points[c])

Ready == Pending("heuristics") /\ step = "ready"

\* heuristicCheck goes to another await, with a timer set or without one.
Await(label) == step' = label /\ due' = 0
AwaitFor(label, ticks) == step' = label /\ due' = elapsed + ticks

Put(c, score, veto) == checks' = [checks EXCEPT ![c] = {[score |-> score, veto |-> veto]}]
-----------------------------------------------------------------------------
Init ==
    /\ asked \in Questions /\ site \in Sites
    /\ elapsed = 0
    /\ checks = [c \in Names |-> {}]
    /\ step = "dns" /\ vetoEligible = FALSE /\ dated = FALSE
    /\ due = 0 /\ until = 0 /\ untimed = 0
    /\ outcome = "none"

\* A checker other than heuristics answers or rejects.
Settles(c) ==
    /\ c # "heuristics" /\ Pending(c)
    /\ \E score \in Scores(c) : Put(c, score, FALSE)
    /\ UNCHANGED <<asking, elapsed, heuristic, untimed, outcome>>

\* safeResolveHost settles, and hget(whois_data) after it: the URL may qualify
\* for the veto only if its host resolved and it is lexically clean.  A cached
\* whois answer, or a failure to read one, skips the whois lookup; rdapCache may
\* then have a date, or know that there is none.
Resolved ==
    /\ Pending("heuristics") /\ step = "dns"
    /\ \E resolved \in BOOLEAN : vetoEligible' = (resolved /\ site.clean)
    /\ \/ AwaitFor("whois", WhoisMax) /\ UNCHANGED dated
       \/ Await("ready") /\ dated' = TRUE
       \/ Await("ready") /\ UNCHANGED dated
       \/ vetoEligible' /\ Await("cache") /\ UNCHANGED dated
    /\ UNCHANGED <<asking, elapsed, checks, until, untimed, outcome>>

\* whois answers, with a creation date or without, and is cached; or its timer
\* rejects, and rdapCache is looked at.
WhoisAnswers ==
    /\ Pending("heuristics") /\ step = "whois"
    /\ dated' \in BOOLEAN
    /\ \/ Await("cache")
       \/ Await("ready") /\ (dated' => vetoEligible)
    /\ UNCHANGED <<asking, elapsed, checks, vetoEligible, until, untimed, outcome>>

\* The whois answer is cached, and without a date in it rdapCache and rdap_data
\* are read for a URL that may qualify for the veto.  If they have none,
\* fetchRdapDate fixes its deadline and tries the first server until then.
CacheSettles ==
    /\ Pending("heuristics") /\ step = "cache"
    /\ \/ /\ ~dated /\ vetoEligible
          /\ until' = elapsed + RdapMax /\ AwaitFor("rdap", RdapMax)
          /\ UNCHANGED dated
       \/ (dated \/ ~vetoEligible) /\ Await("ready") /\ UNCHANGED <<dated, until>>
       \/ ~dated /\ vetoEligible /\ Await("ready") /\ dated' \in BOOLEAN /\ UNCHANGED until
    /\ UNCHANGED <<asking, elapsed, checks, vetoEligible, untimed, outcome>>

\* Mutation: the budget is each server's, not that of the two together.
SecondServer_FullBudget == step = "rdap" /\ AwaitFor("rdap2", RdapMax) /\ UNCHANGED until

\* The second server gets what is left of the budget, if anything is.
SecondServer ==
    /\ step = "rdap" /\ until > elapsed
    /\ AwaitFor("rdap2", until - elapsed) /\ UNCHANGED until

\* An RDAP server has the date; or it has none, fails, or is aborted by its timer.
RdapAnswers ==
    /\ Pending("heuristics") /\ step \in {"rdap", "rdap2"}
    /\ \/ dated' = TRUE /\ Await("store") /\ until' = 0
       \/ SecondServer /\ UNCHANGED dated
       \/ /\ step = "rdap2" \/ until <= elapsed
          /\ Await("ready") /\ until' = 0 /\ UNCHANGED dated
    /\ UNCHANGED <<asking, elapsed, checks, vetoEligible, untimed, outcome>>

StoreSettles ==
    /\ Pending("heuristics") /\ step = "store"
    /\ Await("ready")
    /\ UNCHANGED <<asking, elapsed, checks, vetoEligible, dated, until, untimed, outcome>>

\* heuristicCheck returns, in the same turn of the event loop in which the last
\* of its awaits settled: no timer fires in between.
HeuristicsSettles ==
    /\ Pending("heuristics") /\ step = "ready"
    /\ \E score \in Scores("heuristics") :
         Put("heuristics", score, dated /\ site.old /\ vetoEligible)
    /\ UNCHANGED <<asking, elapsed, heuristic, untimed, outcome>>

\* heuristicCheck returns before its first await: the URL names no domain, but a
\* private address or nothing at all.
HeuristicsGivesUp ==
    /\ Pending("heuristics") /\ step = "dns" /\ elapsed = 0 /\ ~site.old
    /\ \E score \in Scores("heuristics") : Put("heuristics", score, FALSE)
    /\ UNCHANGED <<asking, elapsed, heuristic, untimed, outcome>>

\* Mutation: no timer for a checker that has a timeout of its own.
TimesOut_NotVirusTotal(c) ==
    /\ Pending(c) /\ elapsed >= Deadline /\ c # "virustotal"
    /\ c = "heuristics" => step # "ready"
    /\ Put(c, 0, FALSE)
    /\ UNCHANGED <<asking, elapsed, heuristic, untimed, outcome>>

\* The timer of checker c wins its race.
TimesOut(c) ==
    /\ Pending(c) /\ elapsed >= Deadline
    /\ c = "heuristics" => step # "ready"
    /\ Put(c, 0, FALSE)
    /\ UNCHANGED <<asking, elapsed, heuristic, untimed, outcome>>

\* Time passes, but past no timer that is due: heuristicCheck's own, or the
\* registry's.  Its other awaits last as long as they last.
Tick ==
    /\ elapsed < Deadline /\ outcome = "none" /\ ~Ready
    /\ Pending("heuristics") /\ due > 0 => elapsed < due
    /\ elapsed' = elapsed + 1
    /\ untimed' = IF Pending("heuristics") /\ due = 0 THEN untimed + 1 ELSE untimed
    /\ UNCHANGED <<asking, checks, heuristic, outcome>>
-----------------------------------------------------------------------------
ScoreOf(c) == IF checks[c] = {} THEN 0 ELSE (CHOOSE r \in checks[c] : TRUE).score
Vetoed == \E c \in Names : \E r \in checks[c] : r.veto

\* The points of the checkers other than ml.
Corroboration ==
    ScoreOf("heuristics") + ScoreOf("openphish") + ScoreOf("google_safe_browsing")
      + ScoreOf("urlhaus") + ScoreOf("phishtank") + ScoreOf("phishstats") + ScoreOf("virustotal")

\* Mutation: the veto is not looked at.
Counted_NoVeto == ScoreOf("ml")
\* A veto drops the ML checker's contribution.
Counted == IF Vetoed THEN 0 ELSE ScoreOf("ml")

\* The cap of the total at 100 is above every threshold.
VerdictOf(total) ==
    IF total >= 70 THEN "phishing" ELSE IF total >= 40 THEN "suspicious" ELSE "safe"

\* Promise.all resolves: the scan has its verdict.
Assemble ==
    /\ outcome = "none" /\ \A c \in Eligible : ~Pending(c)
    /\ outcome' = VerdictOf(Corroboration + Counted)
    /\ UNCHANGED <<asking, elapsed, checks, heuristic, untimed>>

Heuristics ==
    \/ Resolved \/ WhoisAnswers \/ CacheSettles \/ RdapAnswers \/ StoreSettles
    \/ HeuristicsSettles \/ HeuristicsGivesUp

Next == Heuristics \/ (\E c \in Names : Settles(c) \/ TimesOut(c)) \/ Tick \/ Assemble

Spec == Init /\ [][Next]_vars

\* Timers fire, whois's and RDAP's among them, and the registry goes on.  A
\* checker need never answer.
FairSpec ==
    /\ Spec
    /\ WF_vars(Tick) /\ WF_vars(Assemble)
    /\ WF_vars(WhoisAnswers) /\ WF_vars(RdapAnswers) /\ WF_vars(HeuristicsSettles)
    /\ \A c \in Names : WF_vars(TimesOut(c))
-----------------------------------------------------------------------------
\* Types.
TypeOK ==
    /\ asked \in Questions /\ site \in Sites
    /\ elapsed \in 0..Deadline
    /\ checks \in [Names -> SUBSET [score : Nat, veto : BOOLEAN]]
    /\ step \in Steps /\ vetoEligible \in BOOLEAN /\ dated \in BOOLEAN
    /\ due \in Nat /\ until \in Nat /\ untimed \in Nat
    /\ outcome \in {"none", "safe", "suspicious", "phishing"}

\* ml.ts:12-16, "ML can push a URL to suspicious but reaching phishing requires
\* >=10 more points": whichever checkers answer, fail or time out, the ones
\* other than ml account for what the cap leaves short of 70.
PhishingIsCorroborated == outcome = "phishing" => Corroboration >= 70 - MlCap

\* heuristics.ts:13-17, "must fit inside the heuristics checker's deadline [...]
\* otherwise the whole checker times out and loses its signal": whatever whois and
\* the two RDAP servers do, heuristicCheck has returned by the deadline if DNS and
\* Redis took no longer than Prompt.
OnTimeIfPrompt ==
    untimed <= Prompt /\ elapsed >= Deadline => checks["heuristics"] # {}

\* The lookups told against the veto: the host did not resolve, or no source
\* has a creation date.
Refuted == (step # "dns" /\ ~vetoEligible) \/ (step = "ready" /\ ~dated)

\* heuristics.ts:370-375, Scanner.ts:128-138: ML points bear on the verdict on an
\* established, lexically clean URL only if the lookups told against the veto or
\* were still going on at the deadline; whatever order the checkers end in.
MlCountsOnlyWithoutVeto ==
    outcome # "none" /\ site.old /\ site.clean /\ outcome # VerdictOf(Corroboration) =>
        Refuted \/ (step # "ready" /\ elapsed >= Deadline)

\* README.md:134: a scan gets its verdict even if no checker ever answers.
EveryRunEnds == <>(outcome # "none")
=============================================================================
