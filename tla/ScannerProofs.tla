--------------------------- MODULE ScannerProofs ---------------------------
(***************************************************************************)
(* Machine-checked proofs about Scanner, for every value of its constants: *)
(* its type invariant, the soundness of the scan cache, and that it        *)
(* implements ScanService.                                                 *)
(***************************************************************************)
EXTENDS Scanner, TLAPS

\* The result a request has assembled answers the question it was asked.
OutSound ==
    \A r \in Requests :
        pc[r] \in Writing \cup {"log"} =>
            \E v \in Results :
                /\ out[r] = {v}
                /\ v.url = ask[r].url /\ v.ml = ask[r].ml
                /\ began[r] <= v.at /\ v.at <= now
                /\ pc[r] \in Writing => Cacheable(v)

\* The entry a request has read answers the question it was asked, however
\* long ago it was read and whatever happened to the cache since.
GotSound ==
    \A r \in Requests :
        pc[r] = "look" =>
            \E e \in Entries :
                /\ got[r] = {e}
                /\ e.value.url = ask[r].url /\ e.value.ml = ask[r].ml
                /\ e.value.at <= now

BeganSound == \A r \in Requests : began[r] <= now

IInv == TypeOK /\ CacheSound /\ OutSound /\ GotSound /\ BeganSound
-----------------------------------------------------------------------------
\* Whether a question asks for ML is a Boolean.
LEMMA QuestionTypes == \A q \in Questions : q.ml \in BOOLEAN
<1>1. \A t, over : Keyed(t, over).ml \in BOOLEAN
  BY DEF Keyed
<1>2. Anonymous.ml \in BOOLEAN
  BY DEF Anonymous
<1>3. \A c \in AllCallers : c.ml \in BOOLEAN
  BY <1>1, <1>2 DEF AllCallers
<1>4. \A c \in Callers : c.ml \in BOOLEAN
  BY <1>3, ScannerAssumption
<1> QED
  BY <1>4 DEF Questions

\* The fields of a result.
LEMMA ResultTypes ==
    \A v \in Results :
        v.ml \in BOOLEAN /\ v.flagged \in BOOLEAN /\ v.at \in 0..Horizon /\ IdOf(v) \in Ids
BY QuestionTypes DEF Results, Result, IdOf, Ids

\* An assembled result is a result for its question.
LEMMA ResultOf ==
    ASSUME NEW q \in Questions, NEW f \in BOOLEAN, NEW t \in 0..Horizon
    PROVE  /\ Result(q, f, t) \in Results
           /\ Result(q, f, t).url = q.url /\ Result(q, f, t).ml = q.ml
           /\ Result(q, f, t).flagged = f /\ Result(q, f, t).at = t
BY DEF Results, Result

\* Two questions share a cache field only if they agree on URL and ML setting:
\* this is what the profile in scanCacheId (Scanner.ts:66-75) is for.
LEMMA IdSeparates ==
    ASSUME NEW p, NEW q, p.ml \in BOOLEAN, q.ml \in BOOLEAN, IdOf(p) = IdOf(q)
    PROVE  p.url = q.url /\ p.ml = q.ml
BY DEF IdOf, ScanCacheId, CacheProfile

\* The fields of an entry.
LEMMA EntryTypes ==
    \A e \in Entries :
        e.id \in Ids /\ e.value \in Results /\ e.exp = e.value.at + TTL
BY DEF Entries, EntryOf

\* An entry made from a result is an entry.
LEMMA EntryFacts ==
    ASSUME NEW i \in Ids, NEW v \in Results
    PROVE  /\ EntryOf(i, v) \in Entries
           /\ EntryOf(i, v).id = i /\ EntryOf(i, v).value = v
BY DEF Entries, EntryOf
-----------------------------------------------------------------------------
\* The invariant holds when nothing is cached.
LEMMA Initial == Init => IInv
<1> SUFFICES ASSUME Init PROVE IInv
  OBVIOUS
<1>1. TypeOK
  BY ScannerAssumption DEF Init, TypeOK
<1>2. CacheSound
  BY DEF Init, CacheSound
<1>3. OutSound /\ GotSound /\ BeganSound
  BY DEF Init, OutSound, GotSound, BeganSound, Writing
<1> QED
  BY <1>1, <1>2, <1>3 DEF IInv
-----------------------------------------------------------------------------
(***************************************************************************)
(* One lemma per kind of step.  Steps that touch neither Redis nor what a  *)
(* request carries leave the invariant to a move of pc.                    *)
(***************************************************************************)
LEMMA ArriveStep == ASSUME IInv, NEW r \in Requests, Arrive(r) PROVE IInv'
<1> USE DEF Arrive, Goto
<1>1. TypeOK'
  BY DEF IInv, TypeOK, Active, Reading, sweeper
<1>2. CacheSound'
  BY DEF IInv, CacheSound
<1>3. OutSound'
  BY DEF IInv, TypeOK, OutSound, Writing
<1>4. GotSound'
  BY DEF IInv, TypeOK, GotSound
<1>5. BeganSound'
  BY ScannerAssumption DEF IInv, TypeOK, BeganSound
<1> QED
  BY <1>1, <1>2, <1>3, <1>4, <1>5 DEF IInv

\* A read takes at most one entry, a sound one.
LEMMA ReadCacheStep == ASSUME IInv, NEW r \in Requests, ReadCache(r) PROVE IInv'
<1> DEFINE found == {e \in hash : e.id = IdOf(ask[r])}
<1>1. /\ got' = [got EXCEPT ![r] = found]
      /\ pc' = [pc EXCEPT ![r] = IF found = {} THEN "scan" ELSE "look"]
      /\ UNCHANGED <<now, ask, began, out, hash, index, sweep, due>>
  BY DEF ReadCache, Goto, sweeper
<1>2. TypeOK'
  BY <1>1 DEF IInv, TypeOK, Active, Reading
<1>3. CacheSound'
  BY <1>1 DEF IInv, CacheSound
<1>4. OutSound'
  BY <1>1 DEF IInv, TypeOK, OutSound, Writing
<1>5. ASSUME found # {}
      PROVE  \E e \in Entries :
                /\ found = {e}
                /\ e.value.url = ask[r].url /\ e.value.ml = ask[r].ml
                /\ e.value.at <= now
  <2>1. PICK e \in hash : e.id = IdOf(ask[r])
    BY <1>5
  <2>2. found = {e}
    BY <2>1 DEF IInv, TypeOK
  <2>3. e \in Entries /\ IdOf(e.value) = IdOf(ask[r]) /\ e.value.at <= now
    BY <2>1 DEF IInv, TypeOK, CacheSound
  <2>4. e.value.ml \in BOOLEAN /\ ask[r].ml \in BOOLEAN
    BY <2>3, EntryTypes, ResultTypes, QuestionTypes DEF IInv, TypeOK
  <2>5. e.value.url = ask[r].url /\ e.value.ml = ask[r].ml
    BY <2>3, <2>4, IdSeparates
  <2> QED
    BY <2>2, <2>3, <2>5
<1>6. GotSound'
  BY <1>1, <1>5 DEF IInv, TypeOK, GotSound
<1>7. BeganSound'
  BY <1>1 DEF IInv, BeganSound
<1> QED
  BY <1>2, <1>3, <1>4, <1>6, <1>7 DEF IInv

\* The decision on the entry read.
LEMMA LookStep ==
    ASSUME IInv, NEW r \in Requests, ReturnCached(r) \/ FindExpired(r) \/ Unreadable(r)
    PROVE  IInv'
<1>1. PICK label \in {"done", "hdel", "scan"} : pc' = [pc EXCEPT ![r] = label]
  BY DEF ReturnCached, FindExpired, Unreadable, Goto
<1>2. /\ got' = [got EXCEPT ![r] = {}]
      /\ UNCHANGED <<now, ask, began, hash, index, sweep, due>>
  BY DEF ReturnCached, FindExpired, Unreadable, sweeper
<1>3. out' = out \/ \E e \in got[r] : out' = [out EXCEPT ![r] = {e.value}]
  BY DEF ReturnCached, FindExpired, Unreadable
<1>4. out' \in [Requests -> SUBSET Results]
  BY <1>3, EntryTypes DEF IInv, TypeOK
<1>5. TypeOK'
  BY <1>1, <1>2, <1>4 DEF IInv, TypeOK, Active, Reading
<1>6. CacheSound'
  BY <1>2 DEF IInv, CacheSound
<1>7. OutSound'
  BY <1>1, <1>2, <1>3 DEF IInv, TypeOK, OutSound, Writing
<1>8. GotSound'
  BY <1>1, <1>2 DEF IInv, TypeOK, GotSound
<1>9. BeganSound'
  BY <1>2 DEF IInv, BeganSound
<1> QED
  BY <1>5, <1>6, <1>7, <1>8, <1>9 DEF IInv

\* A scan leaves a result of the time of its making.
LEMMA RunCheckersStep == ASSUME IInv, NEW r \in Requests, RunCheckers(r) PROVE IInv'
<1>1. PICK f \in BOOLEAN :
        /\ out' = [out EXCEPT ![r] = {Result(ask[r], f, now)}]
        /\ pc' = [pc EXCEPT ![r] =
                    IF Cacheable(Result(ask[r], f, now)) THEN "hset" ELSE "log"]
  BY DEF RunCheckers, Goto
<1>2. UNCHANGED <<now, ask, began, got, hash, index, sweep, due>>
  BY DEF RunCheckers, sweeper
<1> DEFINE v == Result(ask[r], f, now)
<1>3. v \in Results /\ v.url = ask[r].url /\ v.ml = ask[r].ml /\ v.at = now
  BY ResultOf DEF IInv, TypeOK
<1> HIDE DEF v
<1>4. out' = [out EXCEPT ![r] = {v}]
      /\ pc' = [pc EXCEPT ![r] = IF Cacheable(v) THEN "hset" ELSE "log"]
  BY <1>1 DEF v
<1>5. TypeOK'
  BY <1>2, <1>3, <1>4 DEF IInv, TypeOK, Active, Writing
<1>6. CacheSound'
  BY <1>2 DEF IInv, CacheSound
<1>7. OutSound'
  BY <1>2, <1>3, <1>4 DEF IInv, TypeOK, OutSound, BeganSound, Writing
<1>8. GotSound'
  BY <1>2, <1>4 DEF IInv, TypeOK, GotSound
<1>9. BeganSound'
  BY <1>2 DEF IInv, BeganSound
<1> QED
  BY <1>5, <1>6, <1>7, <1>8, <1>9 DEF IInv

\* A stored entry is one the scan just made.
LEMMA StoreFieldStep == ASSUME IInv, NEW r \in Requests, StoreField(r) PROVE IInv'
<1> DEFINE id == IdOf(ask[r])
<1>1. PICK v \in Results :
        /\ out[r] = {v}
        /\ v.url = ask[r].url /\ v.ml = ask[r].ml
        /\ v.at <= now /\ Cacheable(v)
  BY DEF IInv, OutSound, StoreField, Writing
<1>2. id \in Ids /\ id = IdOf(v)
  BY <1>1 DEF IInv, TypeOK, Ids, IdOf
<1>3. PICK e : e = EntryOf(id, v)
  OBVIOUS
<1>4. e \in Entries /\ e.id = id /\ e.value = v
  BY <1>2, <1>3, EntryFacts
<1> HIDE DEF id
<1>5. hash' = WithoutId(hash, {id}) \cup {e}
  <2>1. hash' = WithoutId(hash, {id}) \cup {EntryOf(id, w) : w \in out[r]}
    BY DEF StoreField, id
  <2> QED
    BY <1>1, <1>3, <2>1
<1>6. UNCHANGED <<now, ask, began, got, out, index, sweep, due>>
  BY DEF StoreField, local, sweeper
<1>7. pc[r] = "hset" /\ pc' = [pc EXCEPT ![r] = "zadd"]
  BY DEF StoreField, Goto
<1>8. TypeOK'
  BY <1>4, <1>5, <1>6, <1>7 DEF IInv, TypeOK, Active, Writing, WithoutId
<1>9. CacheSound'
  BY <1>1, <1>2, <1>4, <1>5, <1>6 DEF IInv, CacheSound, WithoutId
<1>10. OutSound'
  BY <1>6, <1>7 DEF IInv, TypeOK, OutSound, Writing
<1>11. GotSound'
  BY <1>6, <1>7 DEF IInv, TypeOK, GotSound
<1>12. BeganSound'
  BY <1>6 DEF IInv, BeganSound
<1> QED
  BY <1>8, <1>9, <1>10, <1>11, <1>12 DEF IInv

\* The expiry stored in the sorted set is that of a result.
LEMMA StoreIndexStep == ASSUME IInv, NEW r \in Requests, StoreIndex(r) PROVE IInv'
<1> DEFINE id == IdOf(ask[r])
<1>1. PICK v \in Results : out[r] = {v}
  BY DEF IInv, OutSound, StoreIndex, Writing
<1>2. id \in Ids
  BY DEF IInv, TypeOK, Ids
<1>3. PICK x : x = [id |-> id, score |-> v.at + TTL]
  OBVIOUS
<1>4. x \in Scores /\ x.id = id
  BY <1>2, <1>3, ResultTypes, ScannerAssumption DEF Scores
<1> HIDE DEF id
<1>5. index' = WithoutId(index, {id}) \cup {x}
  <2>1. index' = WithoutId(index, {id})
                 \cup {[id |-> id, score |-> w.at + TTL] : w \in out[r]}
    BY DEF StoreIndex, id
  <2> QED
    BY <1>1, <1>3, <2>1
<1>6. UNCHANGED <<now, ask, began, got, out, hash, sweep, due>>
  BY DEF StoreIndex, local, sweeper
<1>7. pc[r] = "zadd" /\ pc' = [pc EXCEPT ![r] = "log"]
  BY DEF StoreIndex, Goto
<1>8. TypeOK'
  BY <1>4, <1>5, <1>6, <1>7 DEF IInv, TypeOK, Active, WithoutId
<1>9. CacheSound'
  BY <1>6 DEF IInv, CacheSound
<1>10. OutSound'
  BY <1>6, <1>7 DEF IInv, TypeOK, OutSound, Writing
<1>11. GotSound'
  BY <1>6, <1>7 DEF IInv, TypeOK, GotSound
<1>12. BeganSound'
  BY <1>6 DEF IInv, BeganSound
<1> QED
  BY <1>8, <1>9, <1>10, <1>11, <1>12 DEF IInv

\* Steps that at most delete from the cache and move one pc to a place that
\* asks nothing new of what the request carries.
LEMMA ForgetfulStep ==
    ASSUME IInv, NEW r \in Requests,
           \/ DropField(r) \/ DropIndex(r) \/ LogAndReturn(r)
           \/ RedisFails(r) \/ Crash(r)
    PROVE  IInv'
<1>1. PICK label \in {"zrem", "scan", "log", "done", "lost"} :
        /\ pc' = [pc EXCEPT ![r] = label]
        /\ label = "log" => pc[r] \in Writing
  BY DEF DropField, DropIndex, LogAndReturn, RedisFails, Crash, Goto
<1>2. hash' \subseteq hash /\ index' \subseteq index
  BY DEF DropField, DropIndex, LogAndReturn, RedisFails, Crash, WithoutId
<1>3. UNCHANGED <<now, ask, began, sweep, due>>
  BY DEF DropField, DropIndex, LogAndReturn, RedisFails, Crash, local, sweeper
<1>4. /\ got' = got \/ got' = [got EXCEPT ![r] = {}]
      /\ out' = out \/ (label = "lost" /\ out' = [out EXCEPT ![r] = {}])
  <2>1. CASE Crash(r)
    <3>1. pc'[r] = "lost"
      BY <2>1 DEF Crash, Goto, IInv, TypeOK
    <3>2. label = "lost"
      BY <1>1, <3>1 DEF IInv, TypeOK
    <3>3. got' = [got EXCEPT ![r] = {}] /\ out' = [out EXCEPT ![r] = {}]
      BY <2>1 DEF Crash
    <3> QED
      BY <3>2, <3>3
  <2>2. CASE DropField(r) \/ DropIndex(r) \/ LogAndReturn(r) \/ RedisFails(r)
    BY <2>2 DEF DropField, DropIndex, LogAndReturn, RedisFails, local
  <2> QED
    BY <2>1, <2>2
<1>5. TypeOK'
  BY <1>1, <1>2, <1>3, <1>4 DEF IInv, TypeOK, Active, Reading
<1>6. CacheSound'
  BY <1>2, <1>3 DEF IInv, CacheSound
<1>7. OutSound'
  BY <1>1, <1>3, <1>4 DEF IInv, TypeOK, OutSound, Writing
<1>8. GotSound'
  BY <1>1, <1>3, <1>4 DEF IInv, TypeOK, GotSound
<1>9. BeganSound'
  BY <1>3 DEF IInv, BeganSound
<1> QED
  BY <1>5, <1>6, <1>7, <1>8, <1>9 DEF IInv

\* The clean-up only removes.
LEMMA SweepStep == ASSUME IInv, Sweep PROVE IInv'
<1>1. UNCHANGED <<now, pc, ask, began, got, out>>
  BY DEF Sweep, SweepRead, SweepFields, SweepIndex, SweepFails, local
<1>2. hash' \subseteq hash /\ index' \subseteq index
  BY DEF Sweep, SweepRead, SweepFields, SweepIndex, SweepFails, WithoutId
<1>3. sweep' \in {"idle", "hdel", "zrem"}
  BY DEF Sweep, SweepRead, SweepFields, SweepIndex, SweepFails
<1>4. due' \subseteq Ids
  BY DEF Sweep, SweepRead, SweepFields, SweepIndex, SweepFails, IInv, TypeOK, Scores
<1>5. TypeOK'
  BY <1>1, <1>2, <1>3, <1>4 DEF IInv, TypeOK
<1>6. CacheSound'
  BY <1>1, <1>2 DEF IInv, CacheSound
<1>7. OutSound' /\ GotSound'
  BY <1>1 DEF IInv, OutSound, GotSound
<1>8. BeganSound'
  BY <1>1 DEF IInv, BeganSound
<1> QED
  BY <1>5, <1>6, <1>7, <1>8 DEF IInv

\* Time passes.
LEMMA TickStep == ASSUME IInv, Tick PROVE IInv'
<1>1. now \in Nat /\ now < Horizon /\ now' = now + 1 /\ now' \in 0..Horizon
  BY ScannerAssumption DEF Tick, IInv, TypeOK
<1>2. UNCHANGED <<pc, ask, began, got, out, hash, index, sweep, due>>
  BY DEF Tick, local, sweeper
<1>3. TypeOK'
  BY <1>1, <1>2 DEF IInv, TypeOK
<1>4. CacheSound'
  <2> SUFFICES ASSUME NEW e \in hash PROVE e.value.at <= now'
    BY <1>2 DEF IInv, CacheSound
  <2>1. e.value.at \in 0..Horizon /\ e.value.at <= now
    BY EntryTypes, ResultTypes DEF IInv, TypeOK, CacheSound
  <2> QED
    BY <1>1, <2>1, ScannerAssumption
<1>5. OutSound'
  <2>1. \A v \in Results : v.at <= now => v.at <= now'
    BY <1>1, ResultTypes, ScannerAssumption
  <2> QED
    BY <1>2, <2>1 DEF IInv, OutSound, Cacheable
<1>6. GotSound'
  <2>1. \A e \in Entries : e.value.at <= now => e.value.at <= now'
    BY <1>1, EntryTypes, ResultTypes, ScannerAssumption
  <2> QED
    BY <1>2, <2>1 DEF IInv, GotSound
<1>7. BeganSound'
  BY <1>1, <1>2, ScannerAssumption DEF IInv, TypeOK, BeganSound
<1> QED
  BY <1>3, <1>4, <1>5, <1>6, <1>7 DEF IInv
-----------------------------------------------------------------------------
\* The invariant is preserved by every step.
LEMMA Inductive == IInv /\ [Next]_vars => IInv'
<1> SUFFICES ASSUME IInv, [Next]_vars PROVE IInv'
  OBVIOUS
<1>1. CASE UNCHANGED vars
  BY <1>1 DEF vars, local, sweeper, IInv, TypeOK, CacheSound, OutSound, GotSound, BeganSound
<1>2. ASSUME NEW r \in Requests, Arrive(r) \/ Proceed(r) \/ Crash(r)
      PROVE  IInv'
  <2>1. CASE Arrive(r)
    BY <2>1, ArriveStep
  <2>2. CASE ReadCache(r)
    BY <2>2, ReadCacheStep
  <2>3. CASE ReturnCached(r) \/ FindExpired(r) \/ Unreadable(r)
    BY <2>3, LookStep
  <2>4. CASE RunCheckers(r)
    BY <2>4, RunCheckersStep
  <2>5. CASE StoreField(r)
    BY <2>5, StoreFieldStep
  <2>6. CASE StoreIndex(r)
    BY <2>6, StoreIndexStep
  <2>7. CASE \/ DropField(r) \/ DropIndex(r) \/ LogAndReturn(r)
             \/ RedisFails(r) \/ Crash(r)
    BY <2>7, ForgetfulStep
  <2> QED
    BY <1>2, <2>1, <2>2, <2>3, <2>4, <2>5, <2>6, <2>7 DEF Proceed
<1>3. CASE Sweep
  BY <1>3, SweepStep
<1>4. CASE Tick
  BY <1>4, TickStep
<1> QED
  BY <1>1, <1>2, <1>3, <1>4 DEF Next

\* The inductive invariant holds throughout.
THEOREM Invariance == Spec => []IInv
BY Initial, Inductive, PTL DEF Spec

\* The variables keep their types, and Redis holds at most one field and one
\* score per cache id.
THEOREM TypeCorrect == Spec => []TypeOK
<1>1. IInv => TypeOK
  BY DEF IInv
<1> QED
  BY Invariance, <1>1, PTL

\* Every entry of the scan cache answers the question it is filed under, for
\* any number of requests and URLs, any lifetime and any failures.
THEOREM CacheIsSound == Spec => []CacheSound
<1>1. IInv => CacheSound
  BY DEF IInv
<1> QED
  BY Invariance, <1>1, PTL
-----------------------------------------------------------------------------
(***************************************************************************)
(* Scanner implements ScanService.                                         *)
(***************************************************************************)
phases == [r \in Requests |-> Phase(r)]
answers == [r \in Requests |-> IF pc[r] = "done" THEN out[r] ELSE {}]

\* An initial state is one of the service.
LEMMA InitRefines == Init => Service!Init
BY DEF Init, Service!Init, Phase, Active, Reading, Writing

\* A step that keeps every request in the phase it is in, with the answer it
\* has, is invisible to the caller.
LEMMA Invisible ==
    ASSUME IInv, NEW r \in Requests, NEW label \in Active, pc[r] \in Active,
           pc' = [pc EXCEPT ![r] = label],
           \A s \in Requests \ {r} : out'[s] = out[s],
           UNCHANGED <<now, ask, began>>
    PROVE  UNCHANGED Service!serviceVars
<1>1. \A s \in Requests : Phase(s)' = Phase(s)
  BY DEF Phase, IInv, TypeOK
<1>2. \A s \in Requests : pc[s] = "done" => s # r /\ pc'[s] = "done"
  BY DEF IInv, TypeOK, Active, Reading, Writing
<1>3. \A s \in Requests : pc'[s] = "done" => s # r /\ pc[s] = "done"
  BY DEF IInv, TypeOK, Active, Reading, Writing
<1>4. phases' = phases
  BY <1>1 DEF phases
<1>5. answers' = answers
  BY <1>2, <1>3 DEF answers
<1> QED
  BY <1>4, <1>5 DEF Service!serviceVars, phases, answers

\* A request that stops being active with result v admissible for its question
\* is an Answer of the abstract service.
LEMMA Answers ==
    ASSUME IInv, NEW r \in Requests, NEW v \in Results, pc[r] \in Active,
           v.url = ask[r].url, v.ml = ask[r].ml, v.at <= now,
           began[r] <= v.at \/ now < v.at + TTL,
           pc' = [pc EXCEPT ![r] = "done"], out' = [out EXCEPT ![r] = {v}],
           UNCHANGED <<now, ask, began>>
    PROVE  Service!Answer(r)
<1>1. Phase(r) = "open"
  BY DEF Phase
<1>2. [s \in Requests |-> Phase(s)'] = [[s \in Requests |-> Phase(s)] EXCEPT ![r] = "done"]
  BY DEF Phase, IInv, TypeOK, Active, Reading, Writing
<1>3. [s \in Requests |-> IF pc'[s] = "done" THEN out'[s] ELSE {}]
      = [[s \in Requests |-> IF pc[s] = "done" THEN out[s] ELSE {}] EXCEPT ![r] = {v}]
  BY DEF IInv, TypeOK
<1> QED
  BY <1>1, <1>2, <1>3 DEF Service!Answer, Service!Admissible

\* Every step is a step of the service or a stutter.
LEMMA StepRefines == IInv /\ [Next]_vars => [Service!Next]_Service!serviceVars
<1> SUFFICES ASSUME IInv, [Next]_vars PROVE [Service!Next]_Service!serviceVars
  OBVIOUS
<1>1. CASE UNCHANGED vars
  BY <1>1 DEF vars, local, Service!serviceVars, Phase
<1>2. ASSUME NEW r \in Requests, Arrive(r)
      PROVE  Service!Receive(r)
  <2>1. Phase(r) # "open"
    BY <1>2 DEF Arrive, Phase, IInv, TypeOK, Active, Reading, Writing
  <2>2. [s \in Requests |-> Phase(s)']
        = [[s \in Requests |-> Phase(s)] EXCEPT ![r] = "open"]
    BY <1>2 DEF Arrive, Goto, Phase, IInv, TypeOK, Active, Reading
  <2>3. [s \in Requests |-> IF pc'[s] = "done" THEN out'[s] ELSE {}]
        = [[s \in Requests |-> IF pc[s] = "done" THEN out[s] ELSE {}] EXCEPT ![r] = {}]
    BY <1>2 DEF Arrive, Goto, IInv, TypeOK
  <2> QED
    BY <1>2, <2>1, <2>2, <2>3 DEF Arrive, Service!Receive
<1>3. ASSUME NEW r \in Requests, ReturnCached(r)
      PROVE  Service!Answer(r)
  <2>1. PICK e \in Entries :
          /\ got[r] = {e}
          /\ e.value.url = ask[r].url /\ e.value.ml = ask[r].ml
          /\ e.value.at <= now
    BY <1>3 DEF ReturnCached, IInv, GotSound
  <2>2. LiveAt(e, now) /\ out' = [out EXCEPT ![r] = {e.value}]
    BY <1>3, <2>1 DEF ReturnCached
  <2>3. e.value \in Results /\ now < e.value.at + TTL
    BY <2>2, EntryTypes, ResultTypes, ScannerAssumption DEF LiveAt, IInv, TypeOK
  <2> QED
    BY <1>3, <2>1, <2>2, <2>3, Answers DEF ReturnCached, Goto, Active, Reading
<1>4. ASSUME NEW r \in Requests, LogAndReturn(r)
      PROVE  Service!Answer(r)
  <2>1. PICK v \in Results :
          /\ out[r] = {v}
          /\ v.url = ask[r].url /\ v.ml = ask[r].ml
          /\ began[r] <= v.at /\ v.at <= now
    BY <1>4 DEF LogAndReturn, IInv, OutSound
  <2>2. out' = [out EXCEPT ![r] = {v}]
    BY <1>4, <2>1 DEF LogAndReturn, local, IInv, TypeOK
  <2> QED
    BY <1>4, <2>1, <2>2, Answers DEF LogAndReturn, Goto, local, Active
<1>5. ASSUME NEW r \in Requests, Crash(r)
      PROVE  Service!Lose(r)
  <2>1. Phase(r) = "open"
    BY <1>5 DEF Crash, Phase
  <2>2. [s \in Requests |-> Phase(s)']
        = [[s \in Requests |-> Phase(s)] EXCEPT ![r] = "lost"]
    BY <1>5 DEF Crash, Goto, Phase, IInv, TypeOK, Active, Reading, Writing
  <2>3. [s \in Requests |-> IF pc'[s] = "done" THEN out'[s] ELSE {}]
        = [s \in Requests |-> IF pc[s] = "done" THEN out[s] ELSE {}]
    BY <1>5 DEF Crash, Goto, IInv, TypeOK, Active, Reading, Writing
  <2> QED
    BY <1>5, <2>1, <2>2, <2>3 DEF Crash, Service!Lose
<1>6. ASSUME NEW r \in Requests,
             \/ ReadCache(r) \/ FindExpired(r) \/ Unreadable(r)
             \/ DropField(r) \/ DropIndex(r) \/ RunCheckers(r)
             \/ StoreField(r) \/ StoreIndex(r) \/ RedisFails(r)
      PROVE  UNCHANGED Service!serviceVars
  <2>1. pc[r] \in Active
    BY <1>6 DEF ReadCache, FindExpired, Unreadable, DropField, DropIndex, RunCheckers,
                StoreField, StoreIndex, RedisFails, Active, Reading, Writing
  <2>2. PICK label \in Active : pc' = [pc EXCEPT ![r] = label]
    BY <1>6 DEF ReadCache, FindExpired, Unreadable, DropField, DropIndex, RunCheckers,
                StoreField, StoreIndex, RedisFails, Goto, Active, Reading, Writing
  <2>3. UNCHANGED <<now, ask, began>>
    BY <1>6 DEF ReadCache, FindExpired, Unreadable, DropField, DropIndex, RunCheckers,
                StoreField, StoreIndex, RedisFails, local
  <2>4. \A s \in Requests \ {r} : out'[s] = out[s]
    BY <1>6 DEF ReadCache, FindExpired, Unreadable, DropField, DropIndex, RunCheckers,
                StoreField, StoreIndex, RedisFails, local, IInv, TypeOK
  <2> QED
    BY <2>1, <2>2, <2>3, <2>4, Invisible
<1>7. CASE Sweep
  <2>1. UNCHANGED <<now, pc, ask, began, out>>
    BY <1>7 DEF Sweep, SweepRead, SweepFields, SweepIndex, SweepFails, local
  <2> QED
    BY <2>1 DEF Service!serviceVars, Phase
<1>8. CASE Tick
  BY <1>8 DEF Tick, local, Service!Next, Service!Tick, Phase
<1>9. ASSUME NEW r \in Requests, Arrive(r) \/ Proceed(r) \/ Crash(r)
      PROVE  [Service!Next]_Service!serviceVars
  <2>1. CASE Arrive(r) \/ ReturnCached(r) \/ LogAndReturn(r) \/ Crash(r)
    BY <2>1, <1>2, <1>3, <1>4, <1>5 DEF Service!Next
  <2>2. CASE \/ ReadCache(r) \/ FindExpired(r) \/ Unreadable(r)
             \/ DropField(r) \/ DropIndex(r) \/ RunCheckers(r)
             \/ StoreField(r) \/ StoreIndex(r) \/ RedisFails(r)
    BY <2>2, <1>6
  <2> QED
    BY <1>9, <2>1, <2>2 DEF Proceed
<1> QED
  BY <1>1, <1>7, <1>8, <1>9 DEF Next

\* analyzeUrl with its cache, its failures and its clean-up is, to its callers,
\* a service that answers the question asked with a current assessment.
THEOREM Refinement == Spec => ImplementsService
BY InitRefines, StepRefines, Invariance, PTL DEF Spec, ImplementsService, Service!Spec
=============================================================================
