----------------------------- MODULE KeyService -----------------------------
(***************************************************************************)
(* What the API keys promise, as if each operation were one step: a key    *)
(* goes out of force only when somebody asked that, and comes back only    *)
(* when somebody asked that.  A request is told that its key is in force,  *)
(* or that it is not, and that was so at a moment between its question and *)
(* the answer.                                                             *)
(***************************************************************************)
CONSTANTS Keys,     \* every key there may be
          Checkers  \* slots in which keys are checked

VARIABLES status,  \* per key: "new", "inForce" or "withdrawn"
          known,   \* the keys somebody was given
          doomed,  \* those somebody asked to disable or delete
          pardoned,\* those somebody asked to enable
          about,   \* per checker, the key it asks about
          answer   \* per checker: "none", "asked", "yes" or "no"

serviceVars == <<status, known, doomed, pardoned, about, answer>>
keyVars == <<status, known, doomed, pardoned>>
checkVars == <<about, answer>>

Init ==
    /\ status = [k \in Keys |-> "new"]
    /\ known = {} /\ doomed = {} /\ pardoned = {}
    /\ about \in [Checkers -> Keys]
    /\ answer = [c \in Checkers |-> "none"]

Issue(k) ==
    /\ status[k] = "new"
    /\ status' = [status EXCEPT ![k] = "inForce"]
    /\ UNCHANGED <<known, doomed, pardoned, checkVars>>

\* The creation of a key has failed.
Discard(k) ==
    /\ status[k] = "new"
    /\ status' = [status EXCEPT ![k] = "withdrawn"]
    /\ UNCHANGED <<known, doomed, pardoned, checkVars>>

\* A key is given to whom it is for, who finds it in force.
HandOut(k) ==
    /\ status[k] = "inForce"
    /\ known' = known \cup {k}
    /\ UNCHANGED <<status, doomed, pardoned, checkVars>>

AskToWithdraw(k) ==
    /\ k \in known
    /\ doomed' = doomed \cup {k}
    /\ UNCHANGED <<status, known, pardoned, checkVars>>

AskToRestore(k) ==
    /\ k \in known
    /\ pardoned' = pardoned \cup {k}
    /\ UNCHANGED <<status, known, doomed, checkVars>>

\* A key goes out of force only when that was asked.
Withdraw(k) ==
    /\ k \in doomed
    /\ status[k] = "inForce"
    /\ status' = [status EXCEPT ![k] = "withdrawn"]
    /\ UNCHANGED <<known, doomed, pardoned, checkVars>>

\* Nor does it come back into force unless that was asked.
Restore(k) ==
    /\ k \in pardoned
    /\ status[k] = "withdrawn"
    /\ status' = [status EXCEPT ![k] = "inForce"]
    /\ UNCHANGED <<known, doomed, pardoned, checkVars>>

Ask(c, k) ==
    /\ answer[c] = "none"
    /\ about' = [about EXCEPT ![c] = k]
    /\ answer' = [answer EXCEPT ![c] = "asked"]
    /\ UNCHANGED keyVars

\* The answer is true when it is made.
Decide(c) ==
    /\ answer[c] = "asked"
    /\ answer' = [answer EXCEPT ![c] = IF status[about[c]] = "inForce" THEN "yes" ELSE "no"]
    /\ UNCHANGED <<keyVars, about>>

\* The request is over, or its check has failed.
Forget(c) ==
    /\ answer[c] # "none"
    /\ answer' = [answer EXCEPT ![c] = "none"]
    /\ \E k \in Keys : about' = [about EXCEPT ![c] = k]
    /\ UNCHANGED keyVars

Next ==
    \/ \E k \in Keys : Issue(k) \/ Discard(k) \/ HandOut(k)
    \/ \E k \in Keys : AskToWithdraw(k) \/ Withdraw(k) \/ AskToRestore(k) \/ Restore(k)
    \/ \E c \in Checkers, k \in Keys : Ask(c, k)
    \/ \E c \in Checkers : Decide(c) \/ Forget(c)

Spec == Init /\ [][Next]_serviceVars
=============================================================================
