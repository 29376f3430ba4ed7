----------------------------- MODULE FeedsProofs -----------------------------
(***************************************************************************)
(* Proofs about the refresh of a feed, for any number of overlapping loads *)
(* and any entries.  What the code says of whole versions holds without    *)
(* the poller only, when CacheManager's load is alone with the temporary   *)
(* keys.                                                                   *)
(***************************************************************************)
EXTENDS Feeds, TLAPS

Cm == load[CacheManager]

\* Without the poller only CacheManager loads.
Serial == \A l \in Loaders : l # CacheManager => load[l].at = "idle"

\* What the temporary keys hold while the load clears, fills and renames them,
\* and what the live ones hold from then on.
Cleared == Cm.at = "clear" => \A k \in Keys : k \notin Cm.keys => temp[k] = {}
Filling == Cm.at = "fill" =>
    \A k \in Keys : Cm.left[k] \subseteq Cm.got /\ temp[k] = Cm.got \ Cm.left[k]
Publishing == Cm.at = "publish" =>
    /\ Cm.keys \subseteq Keys
    /\ \A k \in Keys : IF k \in Cm.keys THEN temp[k] = Cm.got ELSE live[k] = Cm.got
Published == Cm.at \in {"tidy", "stamp"} => \A k \in Keys : live[k] = Cm.got

\* A feed that has not expired is whole, and nothing is loading it.
AtWork == {"cooldown", "fetch", "clear", "fill", "publish", "tidy", "stamp"}
Stamped == fresh => Cm.at \notin AtWork /\ \A k \in Keys : live[k] = live["urls"]

Alone == Serial /\ Cleared /\ Filling /\ Publishing /\ Published /\ Stamped

\* What a load is about to publish is a version, or nothing.
Versions == feed = "urlhaus" =>
    \A l \in Loaders : load[l].at \in {"clear", "fill", "publish"} =>
        Lasting \subseteq load[l].got \/ load[l].got = {}

IInv == TypeOK /\ Versions /\ (~continuous => Alone)
-----------------------------------------------------------------------------
\* The labels, spelled out.
LEMMA LabelSet ==
    Labels = {"idle", "cooldown", "fetch", "clear", "fill", "publish", "tidy", "stamp",
              "forgive", "finally", "fallback", "refuse", "lastfail", "stuck"}
BY DEF Labels, After

\* A load's record with its keys replaced, field by field.
Fewer(r, ks) ==
    [at |-> r.at, got |-> r.got, keys |-> ks, left |-> r.left, batch |-> r.batch]

LEMMA Fields == ASSUME NEW r \in Loads, NEW ks PROVE [r EXCEPT !.keys = ks] = Fewer(r, ks)
<1>1. PICK a \in Labels, g \in SUBSET Entries, s \in SUBSET Sets,
           f \in [Sets -> SUBSET Entries], c \in SUBSET Entries :
        r = [at |-> a, got |-> g, keys |-> s, left |-> f, batch |-> c]
  BY DEF Loads
<1>2. r.at = a /\ r.got = g /\ r.keys = s /\ r.left = f /\ r.batch = c
  BY <1>1
<1> QED
  BY <1>1, <1>2 DEF Fewer

\* They are the same for every feed.
LEMMA LoadsFixed == Loads' = Loads
<1>1. Labels' = Labels
  BY DEF Labels, After
<1> QED
  BY <1>1 DEF Loads, Sets

\* Every phase has a next one.
LEMMA Successors == \A x \in Labels : After[x] \in Labels
BY LabelSet DEF After, For

\* A load that has gone to a label is well typed.
LEMMA AtTyped ==
    ASSUME NEW label \in Labels, NEW got \in SUBSET Entries
    PROVE  /\ At(label, got) \in Loads
           /\ At(label, got).keys # {} <=> At(label, got).at \in Deleting \cup {"publish"}
<1>1. Keys \subseteq Sets /\ Keys # {}
  BY DEF Keys, Sets
<1> QED
  BY <1>1 DEF At, Loads

LoadsTyped ==
    /\ load \in [Loaders -> Loads]
    /\ \A l \in Loaders : load[l].keys # {} <=> load[l].at \in Deleting \cup {"publish"}

\* One load's record is replaced by another.
LEMMA Replaced ==
    ASSUME LoadsTyped, NEW l \in Loaders, NEW r \in Loads,
           r.keys # {} <=> r.at \in Deleting \cup {"publish"},
           load' = [load EXCEPT ![l] = r]
    PROVE  LoadsTyped' /\ load'[l] = r /\ \A o \in Loaders : o # l => load'[o] = load[o]
BY LoadsFixed DEF LoadsTyped, Deleting

\* A load goes to a label,
LEMMA GotoTyped ==
    ASSUME LoadsTyped, NEW l \in Loaders, NEW label \in Labels, Goto(l, label)
    PROVE  /\ LoadsTyped'
           /\ load'[l] = At(label, load[l].got)
           /\ \A o \in Loaders : o # l => load'[o] = load[o]
<1>1. load[l].got \in SUBSET Entries
  BY DEF LoadsTyped, Loads
<1>2. load' = [load EXCEPT ![l] = At(label, load[l].got)]
  BY DEF Goto
<1> QED
  BY <1>1, <1>2, AtTyped, Replaced

\* to the next phase,
LEMMA ContinueTyped ==
    ASSUME LoadsTyped, NEW l \in Loaders, Continue(l) PROVE LoadsTyped'
<1>1. load[l].at \in Labels
  BY DEF LoadsTyped, Loads
<1> QED
  BY <1>1, Successors, GotoTyped DEF Continue

\* out of the try block,
LEMMA AbandonTyped ==
    ASSUME LoadsTyped, NEW l \in Loaders, Abandon(l) PROVE LoadsTyped'
BY LabelSet, GotoTyped DEF Abandon

\* and to the next key.
LEMMA NextKeyTyped ==
    ASSUME LoadsTyped, NEW l \in Loaders, load[l].keys # {}, NextKey(l) PROVE LoadsTyped'
<1>1. CASE load[l].keys = {Turn(l)}
  BY <1>1, ContinueTyped DEF NextKey
<1>2. CASE load[l].keys # {Turn(l)}
  <2>1. load' = [load EXCEPT ![l].keys = @ \ {Turn(l)}]
    BY <1>2 DEF NextKey
  <2> DEFINE r == Fewer(load[l], load[l].keys \ {Turn(l)})
  <2>2. load[l] \in Loads /\ load[l].at \in Deleting \cup {"publish"}
    BY DEF LoadsTyped
  <2>3. r \in Loads /\ r.keys # {} /\ r.at = load[l].at
    BY <1>2, <2>2 DEF Loads, Fewer
  <2>4. load' = [load EXCEPT ![l] = r]
    BY <2>1, <2>2, Fields
  <2> QED
    BY <2>2, <2>3, <2>4, Replaced
<1> QED
  BY <1>1, <1>2

-----------------------------------------------------------------------------
\* Every step of a load keeps the types.
LEMMA StepTyped == ASSUME TypeOK, NEW l \in Loaders, Step(l) PROVE TypeOK'
<1>t. LoadsTyped
  BY DEF TypeOK, LoadsTyped
<1>s. SUFFICES LoadsTyped' /\ live' \in [Sets -> SUBSET Entries]
               /\ temp' \in [Sets -> SUBSET Entries] /\ fresh' \in BOOLEAN /\ cooling' \in BOOLEAN
               /\ UNCHANGED <<config, calm>>
  BY DEF TypeOK, LoadsTyped, config
<1>k. load[l].at \in Deleting \cup {"publish"} => load[l].keys # {} /\ Turn(l) \in Sets
  BY <1>t DEF LoadsTyped, Turn, Sets
<1>1. CASE Begin(l)
  BY <1>1, <1>t, ContinueTyped DEF Begin, TypeOK, store
<1>2. CASE NothingToDo(l)
  BY <1>2, <1>t, AbandonTyped DEF NothingToDo, TypeOK, store
<1>3. CASE LookAtLastFail(l)
  BY <1>3, <1>t, ContinueTyped, GotoTyped, LabelSet DEF LookAtLastFail, TypeOK, store
<1>4. CASE Fetch(l)
  <2>1. PICK got \in SUBSET Entries :
          load' = [load EXCEPT ![l] = At("clear", got)] \/ load' = [load EXCEPT ![l] = Idle]
    BY <1>4 DEF Fetch
  <2>2. LoadsTyped'
    <3>1. "clear" \in Labels /\ "idle" \in Labels /\ {} \in SUBSET Entries
      BY LabelSet
    <3>2. CASE load' = [load EXCEPT ![l] = At("clear", got)]
      BY <3>1, <3>2, <1>t, AtTyped, Replaced
    <3>3. CASE load' = [load EXCEPT ![l] = Idle]
      BY <3>1, <3>3, <1>t, AtTyped, Replaced DEF Idle
    <3> QED
      BY <2>1, <3>2, <3>3
  <2> QED
    BY <1>4, <2>2 DEF Fetch, TypeOK, store
<1>5. CASE Delete(l)
  BY <1>5, <1>t, <1>k, NextKeyTyped DEF Delete, TypeOK
<1>6. CASE Add(l)
  <2>1. PICK k \in Keys, e \in Entries :
          /\ temp' = [temp EXCEPT ![k] = @ \cup {e}]
          /\ load' = [load EXCEPT ![l] = Less(@, k, e)]
          /\ UNCHANGED <<config, calm, live, fresh, cooling>>
    BY <1>6 DEF Add
  <2>2. k \in Sets
    BY DEF Keys, Sets
  <2>3. load[l] \in Loads /\ (load[l].keys # {} <=> load[l].at \in Deleting \cup {"publish"})
    BY <1>t DEF LoadsTyped
  <2>4. Less(load[l], k, e) \in Loads
    BY <2>2, <2>3 DEF Loads, Less, For
  <2>5. LoadsTyped'
    BY <2>1, <2>3, <2>4, <1>t, Replaced DEF Less
  <2> QED
    BY <2>1, <2>2, <2>5 DEF TypeOK
<1>7. CASE Filled(l)
  BY <1>7, <1>t, ContinueTyped, AbandonTyped DEF Filled, TypeOK, store
<1>8. CASE Publish(l)
  BY <1>8, <1>t, <1>k, NextKeyTyped, AbandonTyped DEF Publish, TypeOK
<1>9. CASE NothingToRename(l)
  BY <1>9, <1>t, AbandonTyped DEF NothingToRename, TypeOK, store
<1>10. CASE Stamp(l)
  BY <1>10, <1>t, ContinueTyped DEF Stamp, TypeOK
<1>11. CASE RecordFailure(l)
  BY <1>11, <1>t, ContinueTyped DEF RecordFailure, TypeOK
<1>12. CASE FallbackFails(l)
  BY <1>12, <1>t, ContinueTyped DEF FallbackFails, TypeOK, store
<1>13. CASE Fail(l)
  BY <1>13, <1>t, AbandonTyped, GotoTyped, LabelSet DEF Fail, TypeOK, store
<1>14. CASE Hang(l)
  BY <1>14, <1>t, GotoTyped, LabelSet DEF Hang, TypeOK, store
<1>15. CASE Ingest(l)
  <2>1. LoadsTyped'
    <3> DEFINE r == [load[l] EXCEPT !.batch = {}]
    <3>1. load[l] \in Loads /\ (load[l].keys # {} <=> load[l].at \in Deleting \cup {"publish"})
      BY <1>t DEF LoadsTyped
    <3>2. r \in Loads /\ r.at = load[l].at /\ r.keys = load[l].keys
      BY <3>1 DEF Loads
    <3>3. load' = [load EXCEPT ![l] = r]
      BY <1>15 DEF Ingest
    <3> QED
      BY <3>1, <3>2, <3>3, <1>t, Replaced
  <2>2. load[l].batch \subseteq Entries
    BY <1>t DEF LoadsTyped, Loads
  <2> QED
    BY <1>15, <2>1, <2>2 DEF Ingest, TypeOK, Sets
<1>16. CASE Forgive(l)
  BY <1>16, <1>t, ContinueTyped DEF Forgive, TypeOK
<1> QED
  BY <1>1, <1>2, <1>3, <1>4, <1>5, <1>6, <1>7, <1>8, <1>9, <1>10, <1>11, <1>12, <1>13, <1>14,
     <1>15, <1>16
     DEF Step
-----------------------------------------------------------------------------
\* What a load is after it has gone to a label.
LEMMA AtIs ==
    ASSUME NEW label \in Labels, NEW got
    PROVE  /\ At(label, got).at = label
           /\ label # "idle" => At(label, got).got = got
           /\ label \in {"clear", "publish"} => At(label, got).keys = Keys
           /\ label = "fill" => \A k \in Keys : At(label, got).left[k] = got
BY DEF At, Keys, Sets, Deleting

\* What comes after what.
LEMMA AfterIs ==
    /\ After["idle"] \in {"cooldown", "fetch"} /\ After["cooldown"] = "fetch"
    /\ After["clear"] = "fill" /\ After["fill"] = "publish"
    /\ After["publish"] \in {"tidy", "stamp"} /\ After["tidy"] = "stamp"
    /\ After["stamp"] \in {"forgive", "finally", "idle"} /\ After["forgive"] = "idle"
    /\ After["finally"] \in {"fallback", "idle"}
    /\ After["fallback"] = "refuse" /\ After["refuse"] = "lastfail"
    /\ After["lastfail"] = "idle" /\ After["stuck"] = "stuck"
BY DEF After, For

\* Where a step from one phase to the next leaves the loads,
LEMMA ContinueMoves ==
    ASSUME LoadsTyped, NEW l \in Loaders, Continue(l)
    PROVE  /\ load'[l] = At(After[load[l].at], load[l].got)
           /\ After[load[l].at] \in Labels
           /\ \A o \in Loaders : o # l => load'[o] = load[o]
<1>1. load[l].at \in Labels
  BY DEF LoadsTyped, Loads
<1> QED
  BY <1>1, Successors, GotoTyped DEF Continue

\* a step out of the try block,
LEMMA AbandonMoves ==
    ASSUME LoadsTyped, NEW l \in Loaders, Abandon(l)
    PROVE  /\ load'[l].at \in {"finally", "idle"}
           /\ \A o \in Loaders : o # l => load'[o] = load[o]
<1>1. "finally" \in Labels /\ "idle" \in Labels
  BY LabelSet
<1>2. CASE HasFinally
  BY <1>1, <1>2, GotoTyped, AtIs DEF Abandon
<1>3. CASE ~HasFinally
  BY <1>1, <1>3, GotoTyped, AtIs DEF Abandon
<1> QED
  BY <1>2, <1>3

\* a step to rest, or to a wait for ever,
LEMMA RestMoves ==
    ASSUME LoadsTyped, NEW l \in Loaders, NEW label \in {"idle", "stuck"}, Goto(l, label)
    PROVE  /\ load'[l].at = label
           /\ \A o \in Loaders : o # l => load'[o] = load[o]
BY LabelSet, GotoTyped, AtIs

\* and a command for one of the sets.
LEMMA NextKeyMoves ==
    ASSUME LoadsTyped, NEW l \in Loaders, load[l].keys # {}, NextKey(l),
           load[l].keys # {Turn(l)}
    PROVE  /\ load'[l].at = load[l].at /\ load'[l].got = load[l].got
           /\ load'[l].keys = load[l].keys \ {Turn(l)} /\ load'[l].left = load[l].left
           /\ \A o \in Loaders : o # l => load'[o] = load[o]
<1>1. load' = [load EXCEPT ![l].keys = @ \ {Turn(l)}]
  BY DEF NextKey
<1>2. load[l] \in Loads /\ load \in [Loaders -> Loads]
  BY DEF LoadsTyped
<1>3. load'[l] = [load[l] EXCEPT !.keys = @ \ {Turn(l)}]
  BY <1>1, <1>2
<1> QED
  BY <1>1, <1>2, <1>3 DEF Loads

\* A batch is handed on: nothing else of the load changes.
LEMMA IngestMoves ==
    ASSUME LoadsTyped, NEW l \in Loaders, Ingest(l)
    PROVE  /\ load'[l].at = "fill" /\ load'[l].got = load[l].got
           /\ load'[l].left = load[l].left
           /\ \A o \in Loaders : o # l => load'[o] = load[o]
<1>1. load[l] \in Loads /\ load \in [Loaders -> Loads]
  BY DEF LoadsTyped
<1>2. load'[l] = [load[l] EXCEPT !.batch = {}]
  BY <1>1 DEF Ingest
<1> QED
  BY <1>1, <1>2 DEF Loads, Ingest

\* Any step leaves the other loads where they are.
LEMMA OthersStay ==
    ASSUME TypeOK, NEW l \in Loaders, Step(l), NEW o \in Loaders, o # l
    PROVE  load'[o] = load[o]
<1>t. LoadsTyped
  BY DEF TypeOK, LoadsTyped
<1>1. \/ Continue(l) \/ Abandon(l) \/ Goto(l, "idle") \/ Goto(l, "stuck")
      \/ NextKey(l) /\ load[l].at \in Deleting \cup {"publish"}
      \/ Fetch(l) \/ Add(l) \/ Ingest(l)
  BY DEF Step, Begin, NothingToDo, LookAtLastFail, Delete, Filled, Hang, Publish, NothingToRename,
         Stamp, Forgive, RecordFailure, FallbackFails, Fail
<1>2. CASE NextKey(l) /\ load[l].at \in Deleting \cup {"publish"}
  BY <1>2, <1>t, NextKeyMoves, ContinueMoves DEF LoadsTyped, NextKey
<1>3. CASE Fetch(l)
  BY <1>3 DEF Fetch, TypeOK
<1>4. CASE Add(l)
  BY <1>4, <1>t DEF Add, LoadsTyped
<1>5. CASE Ingest(l)
  BY <1>5, <1>t, IngestMoves
<1> QED
  BY <1>1, <1>2, <1>3, <1>4, <1>5, <1>t, ContinueMoves, AbandonMoves, RestMoves
-----------------------------------------------------------------------------
\* What a load has read changes with Fetch only.
LEMMA VersionsStep ==
    ASSUME TypeOK, Versions, NEW l \in Loaders, Step(l) PROVE Versions'
<1>t. LoadsTyped
  BY DEF TypeOK, LoadsTyped
<1> DEFINE Loaded == {"clear", "fill", "publish"}
<1>0. feed' = feed
  BY DEF Step, Begin, NothingToDo, LookAtLastFail, Fetch, Delete, Add, Ingest, Filled, Hang, Publish,
         NothingToRename, Stamp, Forgive, RecordFailure, FallbackFails, Fail, config
<1>1. SUFFICES ASSUME feed = "urlhaus", load'[l].at \in Loaded
               PROVE  Lasting \subseteq load'[l].got \/ load'[l].got = {}
  BY <1>0, OthersStay DEF Versions
<1>2. CASE Fetch(l)
  BY <1>1, <1>2, <1>t, LabelSet, AtIs DEF Fetch, LoadsTyped, Streamed
<1>3. ASSUME ~Fetch(l) PROVE load[l].at \in Loaded /\ load'[l].got = load[l].got
  <2>1. CASE Begin(l)
    BY <1>1, <2>1, <1>t, ContinueMoves, AfterIs, AtIs DEF Begin, Fired
  <2>2. CASE LookAtLastFail(l)
    BY <1>1, <2>2, <1>t, ContinueMoves, RestMoves, AfterIs, AtIs DEF LookAtLastFail
  <2>3. CASE Delete(l)
    <3>1. CASE load[l].keys = {Turn(l)}
      BY <1>1, <2>3, <3>1, <1>t, ContinueMoves, AfterIs, AtIs DEF Delete, NextKey, Deleting
    <3>2. CASE load[l].keys # {Turn(l)}
      BY <1>1, <2>3, <3>2, <1>t, NextKeyMoves DEF Delete, Deleting, LoadsTyped
    <3> QED
      BY <3>1, <3>2
  <2>4. CASE Add(l)
    <3>1. load'[l].at = load[l].at /\ load'[l].got = load[l].got
      BY <2>4, <1>t DEF Add, LoadsTyped, Less
    <3> QED
      BY <1>1, <3>1
  <2>5. CASE Filled(l)
    BY <1>1, <2>5, <1>t, ContinueMoves, AbandonMoves, AfterIs, AtIs DEF Filled
  <2>6. CASE Publish(l)
    <3>1. CASE load[l].keys = {Turn(l)}
      BY <1>1, <2>6, <3>1, <1>t, ContinueMoves, AbandonMoves, AfterIs, AtIs DEF Publish, NextKey
    <3>2. CASE load[l].keys # {Turn(l)}
      BY <1>1, <2>6, <3>2, <1>t, NextKeyMoves, AbandonMoves DEF Publish, LoadsTyped
    <3> QED
      BY <3>1, <3>2
  <2>7. CASE Stamp(l) \/ Forgive(l)
    BY <1>1, <2>7, <1>t, ContinueMoves, AfterIs, AtIs DEF Stamp, Forgive
  <2>8. CASE RecordFailure(l) \/ FallbackFails(l)
    BY <1>1, <2>8, <1>t, ContinueMoves, AfterIs, AtIs DEF RecordFailure, FallbackFails
  <2>9. CASE NothingToDo(l) \/ NothingToRename(l) \/ Fail(l) \/ Hang(l)
    BY <1>1, <2>9, <1>t, AbandonMoves, RestMoves DEF NothingToDo, NothingToRename, Fail, Hang
  <2>10. CASE Ingest(l)
    BY <1>1, <2>10, <1>t, IngestMoves DEF Ingest
  <2> QED
    BY <1>3, <2>1, <2>2, <2>3, <2>4, <2>5, <2>6, <2>7, <2>8, <2>9, <2>10 DEF Step
<1> QED
  BY <1>1, <1>2, <1>3 DEF Versions
-----------------------------------------------------------------------------
\* Nothing is asked of the keys while a load is neither clearing, filling nor
\* publishing; and a feed that is not fresh need not be whole.
LEMMA AtRest ==
    ASSUME load'[CacheManager].at \notin {"clear", "fill", "publish", "tidy", "stamp"}
    PROVE  Cleared' /\ Filling' /\ Publishing' /\ Published'
BY DEF Cleared, Filling, Publishing, Published, Cm

\* CacheManager's load, when it is alone, keeps what is said of it.
LEMMA AloneStep ==
    ASSUME IInv, ~continuous, NEW l \in Loaders, Step(l) PROVE Alone'
<1>t. LoadsTyped /\ TypeOK /\ Alone
  BY DEF IInv, TypeOK, LoadsTyped
<1>c. l = CacheManager
  <2>1. load[l].at # "idle" \/ Fired(l)
    BY DEF Step, Begin, NothingToDo, LookAtLastFail, Fetch, Delete, Add, Ingest, Filled, Hang, Publish,
           NothingToRename, Stamp, Forgive, RecordFailure, FallbackFails, Fail, Deleting
  <2> QED
    BY <2>1, <1>t DEF Alone, Serial, Fired
<1>s. Serial'
  BY <1>t, <1>c, OthersStay DEF Alone, Serial
<1>k. Keys' = Keys /\ Keys \subseteq Sets /\ "urls" \in Keys
  BY DEF Step, Begin, NothingToDo, LookAtLastFail, Fetch, Delete, Add, Ingest, Filled, Hang, Publish,
         NothingToRename, Stamp, Forgive, RecordFailure, FallbackFails, Fail, config, Keys, Sets
<1>w. load[l].at \in AtWork => fresh = FALSE
  BY <1>t, <1>c DEF Alone, Stamped, Cm, TypeOK
<1>1. CASE Begin(l)
  <2>1. load'[l].at \in {"cooldown", "fetch"} /\ fresh' = FALSE
    BY <1>1, <1>t, ContinueMoves, AfterIs, AtIs DEF Begin, Fired, store, TypeOK
  <2> QED
    BY <2>1, <1>c, <1>s, AtRest DEF Alone, Stamped
<1>2. CASE NothingToDo(l)
  <2>1. load'[l].at \in {"finally", "idle"} /\ fresh' = fresh /\ live' = live
    BY <1>2, <1>t, AbandonMoves DEF NothingToDo, store
  <2>2. load[l].at = "idle"
    BY <1>2 DEF NothingToDo, Fired
  <2> QED
    BY <2>1, <2>2, <1>t, <1>c, <1>k, <1>s, AtRest DEF Alone, Stamped, AtWork, Cm
<1>3. CASE LookAtLastFail(l)
  <2>1. load'[l].at \in {"idle", "fetch"} /\ fresh' = FALSE
    BY <1>3, <1>t, <1>w, ContinueMoves, RestMoves, AfterIs, AtIs
       DEF LookAtLastFail, store, AtWork
  <2> QED
    BY <2>1, <1>c, <1>s, AtRest DEF Alone, Stamped
<1>4. CASE Fetch(l)
  <2>1. fresh' = FALSE
    BY <1>4, <1>w DEF Fetch, store, AtWork
  <2>2. load'[l] = Idle \/ \E got \in SUBSET Entries : load'[l] = At("clear", got)
    BY <1>4, <1>t DEF Fetch, LoadsTyped
  <2>3. load'[l].at = "idle" \/ (load'[l].at = "clear" /\ load'[l].keys = Keys)
    BY <2>2, LabelSet, AtIs DEF Idle
  <2>4. Cleared' /\ Filling' /\ Publishing' /\ Published'
    BY <2>3, <1>c, <1>k DEF Cleared, Filling, Publishing, Published, Cm
  <2> QED
    BY <2>1, <2>4, <1>s DEF Alone, Stamped
<1>5. CASE Delete(l)
  <2>0. /\ temp' = [temp EXCEPT ![Turn(l)] = {}] /\ live' = live /\ fresh' = fresh
        /\ NextKey(l) /\ load[l].at \in Deleting /\ load[l].keys # {} /\ Turn(l) \in Sets
        /\ temp \in [Sets -> SUBSET Entries]
    BY <1>5, <1>t DEF Delete, LoadsTyped, TypeOK, Turn, Sets
  <2>1. CASE load[l].at = "clear" /\ load[l].keys = {Turn(l)}
    <3>1. /\ load'[l].at = "fill" /\ load'[l].got = load[l].got
          /\ \A k \in Keys : load'[l].left[k] = load[l].got
      BY <2>0, <2>1, <1>t, ContinueMoves, AfterIs, AtIs DEF NextKey
    <3>2. \A k \in Keys : temp'[k] = {}
      BY <2>0, <2>1, <1>t, <1>c, <1>k DEF Alone, Cleared, Cm
    <3>3. Cleared' /\ Filling' /\ Publishing' /\ Published'
      BY <3>1, <3>2, <1>c, <1>k DEF Cleared, Filling, Publishing, Published, Cm
    <3> QED
      BY <2>0, <2>1, <3>3, <1>w, <1>s DEF Alone, Stamped, AtWork
  <2>2. CASE load[l].at = "clear" /\ load[l].keys # {Turn(l)}
    <3>1. load'[l].at = "clear" /\ load'[l].keys = load[l].keys \ {Turn(l)}
      BY <2>0, <2>2, <1>t, NextKeyMoves
    <3>2. \A k \in Keys : k \notin load'[l].keys => temp'[k] = {}
      BY <3>1, <2>0, <2>2, <1>t, <1>c, <1>k DEF Alone, Cleared, Cm
    <3>3. Cleared' /\ Filling' /\ Publishing' /\ Published'
      BY <3>1, <3>2, <1>c, <1>k DEF Cleared, Filling, Publishing, Published, Cm
    <3> QED
      BY <2>0, <2>2, <3>3, <1>w, <1>s DEF Alone, Stamped, AtWork
  <2>3. CASE load[l].at = "tidy"
    <3>1. load'[l].at \in {"tidy", "stamp"} /\ load'[l].got = load[l].got
      BY <2>0, <2>3, <1>t, NextKeyMoves, ContinueMoves, AfterIs, AtIs DEF NextKey
    <3>2. Cleared' /\ Filling' /\ Publishing' /\ Published'
      BY <3>1, <2>0, <2>3, <1>t, <1>c, <1>k
         DEF Alone, Cleared, Filling, Publishing, Published, Cm
    <3> QED
      BY <2>0, <2>3, <3>2, <1>w, <1>s DEF Alone, Stamped, AtWork
  <2>4. CASE load[l].at \in {"finally", "fallback", "refuse"}
    <3>1. load'[l].at \in {"idle", "finally", "fallback", "refuse", "lastfail"}
      BY <2>0, <2>4, <1>t, NextKeyMoves, ContinueMoves, AfterIs, AtIs DEF NextKey
    <3> QED
      BY <3>1, <2>0, <2>4, <1>t, <1>c, <1>k, <1>s, AtRest DEF Alone, Stamped, AtWork, Cm
  <2> QED
    BY <2>0, <2>1, <2>2, <2>3, <2>4 DEF Deleting
<1>6. CASE Add(l)
  <2>1. PICK k \in Keys, e \in Entries :
          /\ e \in load[l].left[k]
          /\ temp' = [temp EXCEPT ![k] = @ \cup {e}]
          /\ load' = [load EXCEPT ![l] = Less(@, k, e)]
    BY <1>6 DEF Add
  <2>2. load[l].at = "fill" /\ fresh' = FALSE
    BY <1>6, <1>w DEF Add, AtWork
  <2>3. /\ load'[l].at = "fill" /\ load'[l].got = load[l].got
        /\ load'[l].left = [load[l].left EXCEPT ![k] = @ \ {e}]
    BY <2>1, <2>2, <1>t DEF LoadsTyped, Less
  <2>4. load[l].left \in [Sets -> SUBSET Entries] /\ temp \in [Sets -> SUBSET Entries]
    BY <1>t DEF LoadsTyped, Loads, TypeOK
  <2>5. ASSUME NEW j \in Keys
        PROVE  load'[l].left[j] \subseteq load[l].got
               /\ temp'[j] = load[l].got \ load'[l].left[j]
    BY <2>1, <2>2, <2>3, <2>4, <1>t, <1>c, <1>k DEF Alone, Filling, Cm
  <2>6. Cleared' /\ Filling' /\ Publishing' /\ Published'
    BY <2>3, <2>5, <1>c, <1>k DEF Cleared, Filling, Publishing, Published, Cm
  <2> QED
    BY <2>2, <2>6, <1>s DEF Alone, Stamped
<1>7. CASE Filled(l)
  <2>0. load[l].at = "fill" /\ fresh' = FALSE /\ live' = live /\ temp' = temp
    BY <1>7, <1>w DEF Filled, store, AtWork
  <2>1. CASE load[l].got = {}
    <3>1. load'[l].at \in {"finally", "idle"}
      BY <1>7, <2>1, <1>t, AbandonMoves DEF Filled
    <3> QED
      BY <2>0, <3>1, <1>c, <1>s, AtRest DEF Alone, Stamped
  <2>2. CASE load[l].got # {}
    <3>1. load'[l].at = "publish" /\ load'[l].got = load[l].got /\ load'[l].keys = Keys
      BY <1>7, <2>0, <2>2, <1>t, ContinueMoves, AfterIs, AtIs DEF Filled
    <3>2. \A k \in Keys : temp'[k] = load[l].got
      BY <1>7, <2>0, <1>t, <1>c DEF Filled, Alone, Filling, Cm
    <3>3. Cleared' /\ Filling' /\ Publishing' /\ Published'
      BY <3>1, <3>2, <1>c, <1>k DEF Cleared, Filling, Publishing, Published, Cm
    <3> QED
      BY <2>0, <3>3, <1>s DEF Alone, Stamped
  <2> QED
    BY <2>1, <2>2
<1>8. CASE Publish(l)
  <2>0. /\ load[l].at = "publish" /\ fresh' = FALSE /\ load[l].keys # {}
        /\ Turn(l) \in load[l].keys /\ load[l].keys \subseteq Sets
        /\ live' = [live EXCEPT ![Turn(l)] = temp[Turn(l)]]
        /\ temp' = [temp EXCEPT ![Turn(l)] = {}]
        /\ live \in [Sets -> SUBSET Entries] /\ temp \in [Sets -> SUBSET Entries]
    BY <1>8, <1>w, <1>t DEF Publish, AtWork, LoadsTyped, Loads, TypeOK, Turn, Sets
  <2>1. \A k \in Keys : k \notin load[l].keys \ {Turn(l)} => live'[k] = load[l].got
    BY <2>0, <1>t, <1>c, <1>k DEF Alone, Publishing, Cm
  <2>2. \A k \in Keys : k \in load[l].keys \ {Turn(l)} => temp'[k] = load[l].got
    BY <2>0, <1>t, <1>c, <1>k DEF Alone, Publishing, Cm
  <2>3. CASE Abandon(l)
    <3>1. load'[l].at \in {"finally", "idle"}
      BY <2>3, <1>t, AbandonMoves
    <3> QED
      BY <2>0, <3>1, <1>c, <1>s, AtRest DEF Alone, Stamped
  <2>4. CASE NextKey(l) /\ load[l].keys = {Turn(l)}
    <3>1. load'[l].at \in {"tidy", "stamp"} /\ load'[l].got = load[l].got
      BY <2>0, <2>4, <1>t, ContinueMoves, AfterIs, AtIs DEF NextKey
    <3>2. Cleared' /\ Filling' /\ Publishing' /\ Published'
      BY <3>1, <2>1, <2>4, <1>c, <1>k DEF Cleared, Filling, Publishing, Published, Cm
    <3> QED
      BY <2>0, <3>2, <1>s DEF Alone, Stamped
  <2>5. CASE NextKey(l) /\ load[l].keys # {Turn(l)}
    <3>1. /\ load'[l].at = "publish" /\ load'[l].got = load[l].got
          /\ load'[l].keys = load[l].keys \ {Turn(l)}
      BY <2>0, <2>5, <1>t, NextKeyMoves
    <3>2. load[l].keys \subseteq Keys
      BY <2>0, <1>t, <1>c DEF Alone, Publishing, Cm
    <3>3. Cleared' /\ Filling' /\ Publishing' /\ Published'
      BY <3>1, <3>2, <2>1, <2>2, <1>c, <1>k DEF Cleared, Filling, Publishing, Published, Cm
    <3> QED
      BY <2>0, <3>3, <1>s DEF Alone, Stamped
  <2> QED
    BY <1>8, <2>3, <2>4, <2>5 DEF Publish
<1>9. CASE NothingToRename(l)
  <2>1. load'[l].at \in {"finally", "idle"} /\ fresh' = FALSE
    BY <1>9, <1>t, <1>w, AbandonMoves DEF NothingToRename, store, AtWork
  <2> QED
    BY <2>1, <1>c, <1>s, AtRest DEF Alone, Stamped
<1>10. CASE Stamp(l)
  <2>1. load'[l].at \in {"forgive", "finally", "idle"} /\ live' = live /\ load[l].at = "stamp"
    BY <1>10, <1>t, ContinueMoves, AfterIs, AtIs DEF Stamp
  <2>2. \A k \in Keys : live'[k] = live'["urls"]
    BY <2>1, <1>t, <1>c, <1>k DEF Alone, Published, Cm
  <2> QED
    BY <2>1, <2>2, <1>c, <1>k, <1>s, AtRest DEF Alone, Stamped, AtWork, Cm
<1>11. CASE RecordFailure(l) \/ FallbackFails(l)
  <2>1. /\ load[l].at \in {"lastfail", "fallback"} /\ load'[l].at \in {"idle", "refuse"}
        /\ fresh' = fresh /\ live' = live
    BY <1>11, <1>t, ContinueMoves, AfterIs, AtIs DEF RecordFailure, FallbackFails, store
  <2> QED
    BY <2>1, <1>t, <1>c, <1>k, <1>s, AtRest DEF Alone, Stamped, AtWork, Cm
<1>12. CASE Fail(l)
  <2>1. load'[l].at \in {"finally", "idle"} /\ fresh' = fresh /\ live' = live
    BY <1>12, <1>t, AbandonMoves, RestMoves DEF Fail, store
  <2> QED
    BY <2>1, <1>t, <1>c, <1>k, <1>s, AtRest DEF Alone, Stamped, AtWork, Cm
<1>13. CASE Hang(l)
  <2>1. load'[l].at = "stuck" /\ fresh' = FALSE
    BY <1>13, <1>t, <1>w, RestMoves DEF Hang, store, AtWork
  <2> QED
    BY <2>1, <1>c, <1>s, AtRest DEF Alone, Stamped
<1>14. CASE Ingest(l)
  <2>1. /\ load'[l].at = "fill" /\ load'[l].got = load[l].got
        /\ load'[l].left = load[l].left
        /\ load[l].at = "fill" /\ temp' = temp /\ fresh' = FALSE
    BY <1>14, <1>t, <1>w, IngestMoves DEF Ingest, AtWork
  <2>2. Cleared' /\ Filling' /\ Publishing' /\ Published'
    BY <2>1, <1>t, <1>c, <1>k DEF Alone, Cleared, Filling, Publishing, Published, Cm
  <2> QED
    BY <2>1, <2>2, <1>s DEF Alone, Stamped
<1>15. CASE Forgive(l)
  <2>1. /\ load[l].at = "forgive" /\ load'[l].at = "idle"
        /\ fresh' = fresh /\ live' = live
    BY <1>15, <1>t, ContinueMoves, AfterIs, AtIs DEF Forgive
  <2> QED
    BY <2>1, <1>t, <1>c, <1>k, <1>s, AtRest DEF Alone, Stamped, AtWork, Cm
<1> QED
  BY <1>1, <1>2, <1>3, <1>4, <1>5, <1>6, <1>7, <1>8, <1>9, <1>10, <1>11, <1>12, <1>13,
     <1>14, <1>15 DEF Step
-----------------------------------------------------------------------------
\* The invariant holds before any load.
LEMMA Initial == Init => IInv
<1> SUFFICES ASSUME Init PROVE IInv
  OBVIOUS
<1>1. Idle \in Loads /\ Idle.at = "idle" /\ (Idle.keys # {} <=> Idle.at \in Deleting \cup {"publish"})
  BY LabelSet, AtTyped, AtIs DEF Idle
<1>2. TypeOK
  BY <1>1 DEF Init, TypeOK
<1>3. \A l \in Loaders : load[l].at = "idle"
  BY <1>1 DEF Init
<1> QED
  BY <1>2, <1>3, FeedsAssumption
     DEF Init, IInv, Versions, Alone, Serial, Cleared, Filling, Publishing, Published, Stamped,
         AtWork, Cm, Keys

\* A crash of the master ends every load where it is.
LEMMA CrashStep == ASSUME IInv, Crash PROVE IInv'
<1>1. Idle \in Loads /\ Idle.at = "idle" /\ (Idle.keys # {} <=> Idle.at \in Deleting \cup {"publish"})
  BY LabelSet, AtTyped, AtIs DEF Idle
<1>2. \A l \in Loaders : load'[l].at = "idle"
  BY <1>1 DEF Crash
<1>3. TypeOK'
  BY <1>1, LoadsFixed DEF Crash, IInv, TypeOK, config, store, Deleting
<1> QED
  BY <1>2, <1>3, FeedsAssumption
     DEF Crash, IInv, Versions, Alone, Serial, Cleared, Filling, Publishing, Published, Stamped,
         AtWork, Cm, Keys, config, store

\* Time passing, and the end of failures, change nothing that is said.
LEMMA ClockStep == ASSUME IInv, Expire \/ CoolDown \/ BecomeCalm PROVE IInv'
<1>1. /\ UNCHANGED <<feed, continuous, live, temp, load>>
      /\ fresh' = fresh \/ fresh' = FALSE
      /\ cooling' = cooling \/ cooling' = FALSE
      /\ calm' = calm \/ calm' = TRUE
  BY DEF Expire, CoolDown, BecomeCalm, config, store
<1>2. TypeOK'
  BY <1>1, LoadsFixed DEF IInv, TypeOK
<1> QED
  BY <1>1, <1>2
     DEF IInv, Versions, Alone, Serial, Cleared, Filling, Publishing, Published, Stamped,
         Cm, Keys

\* So does a step that changes nothing.
LEMMA StutterStep == ASSUME IInv, UNCHANGED vars PROVE IInv'
<1>1. TypeOK'
  BY LoadsFixed DEF IInv, TypeOK, vars, config, store
<1> QED
  BY <1>1
     DEF IInv, Versions, Alone, Serial, Cleared, Filling, Publishing, Published, Stamped,
         Cm, Keys, vars, config, store

\* The inductive invariant holds throughout.
THEOREM Invariance == Spec => []IInv
<1>1. IInv /\ [Next]_vars => IInv'
  <2>1. ASSUME IInv, NEW l \in Loaders, Step(l) PROVE IInv'
    <3>1. TypeOK' /\ Versions'
      BY <2>1, StepTyped, VersionsStep DEF IInv
    <3>2. continuous' = continuous
      BY <2>1 DEF Step, Begin, NothingToDo, LookAtLastFail, Fetch, Delete, Add, Ingest, Filled, Hang, Publish,
                  NothingToRename, Stamp, Forgive, RecordFailure, FallbackFails, Fail, config
    <3> QED
      BY <2>1, <3>1, <3>2, AloneStep DEF IInv
  <2> QED
    BY <2>1, CrashStep, ClockStep, StutterStep DEF Next
<1> QED
  BY Initial, <1>1, PTL DEF Spec

\* Every reachable state is well typed; a load has keys left to delete or to
\* rename exactly while it deletes or renames.
THEOREM TypeCorrect == Spec => []TypeOK
BY Invariance, PTL DEF IInv

\* A feed that is fresh has its URLs and its hosts from one version.
THEOREM FreshConsistent == Spec => []FreshIsConsistent
<1>1. IInv => FreshIsConsistent
  BY DEF IInv, Alone, Stamped, FreshIsConsistent
<1> QED
  BY Invariance, <1>1, PTL

\* What a step does to the live sets: entries are added, or a temporary set
\* that is not empty takes their place.
LEMMA LiveStep ==
    ASSUME TypeOK, [Next]_vars, NEW k \in Sets, live'[k] # live[k]
    PROVE  \/ live[k] \subseteq live'[k]
           \/ \E l \in Loaders : Publish(l) /\ k = Turn(l) /\ live'[k] = temp[k] /\ temp[k] # {}
<1>1. PICK l \in Loaders : Ingest(l) \/ Publish(l)
  BY DEF Next, Step, Begin, NothingToDo, LookAtLastFail, Fetch, Delete, Add, Filled, Hang,
         NothingToRename, Stamp, Forgive, RecordFailure, FallbackFails, Fail, Crash, Expire, CoolDown,
         BecomeCalm, store, vars
<1>2. live \in [Sets -> SUBSET Entries]
  BY DEF TypeOK
<1>3. CASE Ingest(l)
  BY <1>2, <1>3 DEF Ingest
<1>4. CASE Publish(l)
  BY <1>2, <1>4 DEF Publish
<1> QED
  BY <1>1, <1>3, <1>4

\* No load, with the poller or without, leaves a set that had entries empty.
THEOREM NeverEmpty == Spec => NeverEmptied
<1>1. TypeOK /\ [Next]_vars => [\A k \in Sets : live[k] # {} => live'[k] # {}]_vars
  BY LiveStep
<1> QED
  BY TypeCorrect, <1>1, PTL DEF Spec, NeverEmptied

\* Without the poller no load of URLHaus ever takes an entry that lasts off the
\* list that the lookups read.
THEOREM LastingFlagged == Spec => LastingStaysFlagged
<1>1. ASSUME IInv, [Next]_vars, NEW e \in Lasting, ~continuous, feed = "urlhaus",
             e \in live["urls"]
      PROVE  e \in live'["urls"]
  <2>1. ASSUME NEW l \in Loaders, Publish(l), Turn(l) = "urls", temp["urls"] # {}
        PROVE  e \in temp["urls"]
    <3>1. load[l].at = "publish" /\ load[l].keys # {} /\ "urls" \in load[l].keys
      BY <1>1, <2>1 DEF Publish, IInv, TypeOK, Turn
    <3>2. l = CacheManager
      BY <1>1, <3>1 DEF IInv, Alone, Serial
    <3>3. temp["urls"] = load[l].got
      BY <1>1, <3>1, <3>2 DEF IInv, Alone, Publishing, Cm, Keys, Sets
    <3> QED
      BY <1>1, <2>1, <3>1, <3>3 DEF IInv, Versions
  <2> QED
    BY <1>1, <2>1, LiveStep DEF IInv, Sets
<1>2. \A e : (Score(e) = 100 <=> e \in live["urls"]) /\ (Score(e) = 100 <=> e \in live["urls"])'
  BY DEF Score
<1>3. IInv /\ [Next]_vars =>
        [\A e \in Lasting : ~continuous /\ feed = "urlhaus" /\ Score(e) = 100
            => Score(e)' = 100]_vars
  BY <1>1, <1>2
<1> QED
  BY Invariance, <1>3, PTL DEF Spec, LastingStaysFlagged

\* Without the poller a load publishes what it read, in full and nothing else.
THEOREM PublishedAsRead == Spec => PublishesWhatItRead
<1>1. ASSUME IInv, ~continuous, NEW l \in Loaders, Publish(l)
      PROVE  live'[Turn(l)] = load[l].got
  <2>1. /\ load[l].at = "publish" /\ load[l].keys # {} /\ load[l].keys \subseteq Sets
        /\ live' = [live EXCEPT ![Turn(l)] = temp[Turn(l)]]
        /\ live \in [Sets -> SUBSET Entries]
    BY <1>1 DEF Publish, IInv, TypeOK, Loads
  <2>2. Turn(l) \in load[l].keys /\ Turn(l) \in Sets
    BY <2>1 DEF Turn, Sets
  <2>3. l = CacheManager
    BY <1>1, <2>1 DEF IInv, Alone, Serial
  <2>4. Turn(l) \in Keys
    BY <1>1, <2>1, <2>2, <2>3 DEF IInv, Alone, Publishing, Cm
  <2>5. temp[Turn(l)] = load[l].got
    BY <1>1, <2>1, <2>2, <2>3, <2>4 DEF IInv, Alone, Publishing, Cm
  <2> QED
    BY <2>1, <2>2, <2>5
<1>2. IInv /\ [Next]_vars =>
        [\A l \in Loaders : ~continuous /\ Publish(l) => live'[Turn(l)] = load[l].got]_vars
  BY <1>1
<1> QED
  BY Invariance, <1>2, PTL DEF Spec, PublishesWhatItRead
=============================================================================
