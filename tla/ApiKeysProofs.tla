--------------------------- MODULE ApiKeysProofs ---------------------------
(***************************************************************************)
(* Proofs about ApiKeys, for any keys, tiers, updates and number of        *)
(* requests.                                                               *)
(***************************************************************************)
EXTENDS ApiKeys, TLAPS

Creating(w) == op[w].at \in {"hset", "zadd"}
Deleting(w) == op[w].at \in {"check", "del", "zrem"}
Updating(w) == op[w].at \in {"exists", "update"}

\* Keys being created have not been handed out, and each has one creator; the
\* others being worked on have been.
OpsApart ==
    /\ \A w \in Writers :
         /\ Creating(w) => op[w].key \in minted \ known
         /\ Deleting(w) => op[w].key \in known \cap condemned
         /\ Updating(w) => /\ op[w].key \in known
                           /\ op[w].update.enabled = "false" => op[w].key \in condemned
                           /\ Enables(op[w].update) => op[w].key \in pardoned
    /\ \A w, x \in Writers : Creating(w) /\ Creating(x) /\ op[w].key = op[x].key => w = x

\* A stored key keeps what it was stored with until it is handed out.
StoredWhole ==
    \A w \in Writers : op[w].at = "zadd" =>
        fields[op[w].key].enabled = "true" /\ fields[op[w].key].tier \in Tiers

\* A key that is revoked is not enabled, and no update under way enables it.
StaysRevoked ==
    /\ revoked \subseteq known
    /\ \A k \in revoked : fields[k].enabled # "true"
    /\ \A w \in Writers : op[w].at # "idle" /\ op[w].key \in revoked => ~Enables(op[w].update)

\* A verification that began after the revocation still finds the key revoked.
LateFindsNothing ==
    \A v \in Verifiers : verify[v].late =>
        verify[v].key \in revoked /\ verify[v].at \notin {"touch", "in"}

IInv == TypeOK /\ OpsApart /\ StoredWhole /\ StaysRevoked /\ LateFindsNothing /\ IssuedKeysWork

\* The invariant holds when Redis is empty.
LEMMA Initial == Init => IInv
<1> SUFFICES ASSUME Init PROVE IInv
  OBVIOUS
<1>1. TypeOK
  BY KeysAssumption DEF Init, TypeOK, Absent, NoOp, NoVerify, NoUpdate
<1>2. OpsApart /\ StoredWhole /\ StaysRevoked /\ LateFindsNothing /\ IssuedKeysWork
  BY DEF Init, OpsApart, StoredWhole, StaysRevoked, LateFindsNothing, IssuedKeysWork,
         Creating, Deleting, Updating, NoOp, NoVerify
<1> QED
  BY <1>1, <1>2 DEF IInv

\* What HSET leaves in the hash of a key, and in the others.
LEMMA SetFields ==
    ASSUME TypeOK, NEW k \in Keys, NEW tier \in Tiers \cup {None},
           NEW enabled \in Flags \cup {None}, Set(k, tier, enabled)
    PROVE  /\ fields' \in [Keys -> [tier : Tiers \cup {None}, enabled : Flags \cup {None},
                                    other : BOOLEAN]]
           /\ fields'[k].tier = IF tier = None THEN fields[k].tier ELSE tier
           /\ fields'[k].enabled = IF enabled = None THEN fields[k].enabled ELSE enabled
           /\ \A j \in Keys : j # k => fields'[j] = fields[j]
BY DEF TypeOK, Set

\* A step that changes neither Redis nor an operation, and makes no key revoked.
LEMMA VerifyStep ==
    ASSUME IInv, UNCHANGED <<fields, index, minted, known, op, history>>,
           boot' \in {"off", "verify", "create"},
           NEW v \in Verifiers,
           NEW new \in [at : {"idle", "get", "touch", "null", "in"}, key : Keys, late : BOOLEAN],
           verify' = [verify EXCEPT ![v] = new],
           new.late => new.key \in revoked /\ new.at \notin {"touch", "in"}
    PROVE  IInv'
<1>1. TypeOK'
  BY DEF IInv, TypeOK, history
<1>2. OpsApart' /\ StoredWhole' /\ StaysRevoked' /\ IssuedKeysWork'
  BY DEF IInv, OpsApart, StoredWhole, StaysRevoked, IssuedKeysWork, Creating, Deleting,
         Updating, history
<1>3. LateFindsNothing'
  BY DEF IInv, LateFindsNothing, TypeOK, history
<1> QED
  BY <1>1, <1>2, <1>3 DEF IInv

\* verifyApiKey's read of the hash passes only an enabled key.
LEMMA ReadKeyStep == ASSUME IInv, NEW v \in Verifiers, ReadKey(v) PROVE IInv'
<1> DEFINE at == IF fields[verify[v].key].enabled = "true" THEN "touch" ELSE "null"
           new == [verify[v] EXCEPT !.at = at]
<1>1. new \in [at : {"idle", "get", "touch", "null", "in"}, key : Keys, late : BOOLEAN]
  BY DEF IInv, TypeOK
<1>2. new.late = verify[v].late /\ new.key = verify[v].key /\ new.at = at
  BY DEF IInv, TypeOK
<1>3. new.late => new.key \in revoked /\ new.at \notin {"touch", "in"}
  BY <1>2 DEF IInv, LateFindsNothing, StaysRevoked
<1>4. verify' = [verify EXCEPT ![v] = new]
  BY DEF ReadKey
<1>5. UNCHANGED <<fields, index, minted, known, op, history>>
      /\ boot' \in {"off", "verify", "create"}
  BY DEF ReadKey, store, IInv, TypeOK
<1> QED
  BY <1>1, <1>3, <1>4, <1>5, VerifyStep

\* The write of lastUsedAt leaves the tier and enabled alone.
LEMMA TouchKeyStep == ASSUME IInv, NEW v \in Verifiers, TouchKey(v) PROVE IInv'
<1>1. verify[v].key \in Keys /\ Set(verify[v].key, None, None)
  BY DEF TouchKey, IInv, TypeOK
<1>2. /\ fields' \in [Keys -> [tier : Tiers \cup {None}, enabled : Flags \cup {None},
                               other : BOOLEAN]]
      /\ \A k \in Keys : fields'[k].tier = fields[k].tier /\ fields'[k].enabled = fields[k].enabled
  BY <1>1, SetFields DEF IInv
<1>3. TypeOK'
  BY <1>2 DEF TouchKey, IInv, TypeOK, history
<1>4. OpsApart'
  BY DEF TouchKey, IInv, OpsApart, Creating, Deleting, Updating, history
<1>5. StoredWhole' /\ StaysRevoked' /\ IssuedKeysWork'
  BY <1>2 DEF TouchKey, IInv, TypeOK, StoredWhole, StaysRevoked, IssuedKeysWork, history
<1>6. LateFindsNothing'
  BY DEF TouchKey, IInv, TypeOK, LateFindsNothing, history
<1> QED
  BY <1>3, <1>4, <1>5, <1>6 DEF IInv

\* The steps of a request, and of the bootstrap's verification.
LEMMA RequestStep ==
    ASSUME IInv, NEW v \in Verifiers,
           \/ v \in Clients /\ (Authenticate(v) \/ EndRequest(v))
           \/ VerifyFails(v)
           \/ v = Master /\ (BootBegins \/ BootFindsKey)
    PROVE  IInv'
<1> USE DEF store
<1>1. NoVerify \in [at : {"idle", "get", "touch", "null", "in"}, key : Keys, late : BOOLEAN]
      /\ NoVerify.late = FALSE
  BY KeysAssumption DEF NoVerify
<1>2. ASSUME verify' = [verify EXCEPT ![v] = NoVerify],
             UNCHANGED <<fields, index, minted, known, op, history>>,
             boot' \in {"off", "verify", "create"}
      PROVE  IInv'
  BY <1>1, <1>2, VerifyStep
<1>3. ASSUME NEW k \in Keys, BeginVerify(v, k),
             UNCHANGED <<fields, index, minted, known, op, history>>,
             boot' \in {"off", "verify", "create"}
      PROVE  IInv'
  <2> DEFINE new == [at |-> "get", key |-> k, late |-> k \in revoked]
  <2>1. new \in [at : {"idle", "get", "touch", "null", "in"}, key : Keys, late : BOOLEAN]
    OBVIOUS
  <2>2. new.late => new.key \in revoked /\ new.at \notin {"touch", "in"}
    OBVIOUS
  <2>3. verify' = [verify EXCEPT ![v] = new]
    BY <1>3 DEF BeginVerify
  <2> QED
    BY <1>3, <2>1, <2>2, <2>3, VerifyStep
<1>4. CASE v \in Clients /\ Authenticate(v)
  <2>1. PICK k \in known : BeginVerify(v, k)
    BY <1>4 DEF Authenticate
  <2>2. k \in Keys
    BY <2>1 DEF IInv, TypeOK
  <2> QED
    BY <1>3, <1>4, <2>1, <2>2 DEF Authenticate, IInv, TypeOK
<1>5. CASE v \in Clients /\ EndRequest(v)
  BY <1>2, <1>5 DEF EndRequest, IInv, TypeOK
<1>6. CASE VerifyFails(v)
  BY <1>2, <1>6 DEF VerifyFails, IInv, TypeOK
<1>7. CASE v = Master /\ BootBegins
  BY <1>3, <1>7, KeysAssumption DEF BootBegins
<1>8. CASE v = Master /\ BootFindsKey
  BY <1>2, <1>8 DEF BootFindsKey
<1> QED
  BY <1>4, <1>5, <1>6, <1>7, <1>8

\* A new key is nobody else's.
LEMMA BeginCreateStep ==
    ASSUME IInv, NEW w \in Writers, BeginCreate(w), UNCHANGED <<fields, index, known, history>>,
           boot' \in {"off", "verify", "create"},
           \/ UNCHANGED verify
           \/ verify' = [verify EXCEPT ![Master] = NoVerify]
    PROVE  IInv'
<1>1. PICK k \in Keys \ minted : Begin(w, k, "hset", NoUpdate) /\ minted' = minted \cup {k}
  BY DEF BeginCreate
<1>2. /\ op \in [Writers -> [at : {"idle", "hset", "zadd", "exists", "update", "check", "del",
                                    "zrem"}, key : Keys, update : Updates \cup {NoUpdate}]]
      /\ op' = [op EXCEPT ![w] = [at |-> "hset", key |-> k, update |-> NoUpdate]]
  BY <1>1 DEF Begin, IInv, TypeOK
<1>3. op'[w] = [at |-> "hset", key |-> k, update |-> NoUpdate]
      /\ \A x \in Writers : x # w => op'[x] = op[x]
  BY <1>2
<1>4. /\ verify' \in [Verifiers -> [at : {"idle", "get", "touch", "null", "in"}, key : Keys,
                                    late : BOOLEAN]]
      /\ \A v \in Verifiers : verify'[v] = verify[v] \/ verify'[v].late = FALSE
  <2>1. verify \in [Verifiers -> [at : {"idle", "get", "touch", "null", "in"}, key : Keys,
                                  late : BOOLEAN]]
    BY DEF IInv, TypeOK
  <2>2. NoVerify \in [at : {"idle", "get", "touch", "null", "in"}, key : Keys, late : BOOLEAN]
        /\ NoVerify.late = FALSE
    BY KeysAssumption DEF NoVerify
  <2> QED
    BY <2>1, <2>2
<1>5. TypeOK'
  BY <1>1, <1>2, <1>4 DEF IInv, TypeOK, history
<1>6. OpsApart'
  <2>1. \A x \in Writers : /\ Creating(x)' => op'[x].key \in minted' \ known'
                           /\ Deleting(x)' => op'[x].key \in known' \cap condemned'
                           /\ Updating(x)' => /\ op'[x].key \in known'
                                              /\ op'[x].update.enabled = "false"
                                                   => op'[x].key \in condemned'
                                              /\ Enables(op'[x].update) => op'[x].key \in pardoned'
    BY <1>1, <1>3 DEF IInv, OpsApart, TypeOK, Creating, Deleting, Updating, history
  <2>2. \A x, y \in Writers : Creating(x)' /\ Creating(y)' /\ op'[x].key = op'[y].key => x = y
    BY <1>1, <1>3 DEF IInv, OpsApart, Creating
  <2> QED
    BY <2>1, <2>2 DEF OpsApart
<1>7. StoredWhole' /\ StaysRevoked' /\ IssuedKeysWork'
  BY <1>3, KeysAssumption
     DEF IInv, StoredWhole, StaysRevoked, IssuedKeysWork, history, Enables, NoUpdate, Flags
<1>8. LateFindsNothing'
  BY <1>4 DEF IInv, LateFindsNothing, history
<1> QED
  BY <1>5, <1>6, <1>7, <1>8 DEF IInv

\* What a step of an operation does to op.
LEMMA OpStep ==
    ASSUME IInv, NEW w \in Writers, NEW from,
           NEW to \in {"idle", "hset", "zadd", "exists", "update", "check", "del", "zrem"},
           Step(w, from, to)
    PROVE  /\ op' \in [Writers -> [at : {"idle", "hset", "zadd", "exists", "update", "check",
                                         "del", "zrem"},
                                   key : Keys, update : Updates \cup {NoUpdate}]]
           /\ op[w].at = from /\ op'[w].at = to
           /\ to # "idle" => op'[w].key = op[w].key /\ op'[w].update = op[w].update
           /\ \A x \in Writers : x # w => op'[x] = op[x]
<1>1. op \in [Writers -> [at : {"idle", "hset", "zadd", "exists", "update", "check", "del",
                                "zrem"}, key : Keys, update : Updates \cup {NoUpdate}]]
  BY DEF IInv, TypeOK
<1>2. CASE to = "idle"
  BY <1>1, <1>2, KeysAssumption DEF Step, NoOp
<1>3. CASE to # "idle"
  BY <1>1, <1>3 DEF Step
<1> QED
  BY <1>2, <1>3

\* createApiKey stores the key whole, and nobody else works on it.
LEMMA StoreKeyStep == ASSUME IInv, NEW w \in Writers, StoreKey(w) PROVE IInv'
<1>1. /\ op' \in [Writers -> [at : {"idle", "hset", "zadd", "exists", "update", "check",
                                    "del", "zrem"},
                              key : Keys, update : Updates \cup {NoUpdate}]]
      /\ op[w].at = "hset" /\ op'[w].at = "zadd"
      /\ op'[w].key = op[w].key /\ op'[w].update = op[w].update
      /\ \A x \in Writers : x # w => op'[x] = op[x]
  <2>1. Step(w, "hset", "zadd")
    BY DEF StoreKey
  <2> QED
    BY <2>1, OpStep
<1>2. PICK tier \in Tiers : Set(op[w].key, tier, "true")
  BY DEF StoreKey
<1>3. op[w].key \in minted \ known /\ op[w].key \in Keys
  BY <1>1 DEF IInv, TypeOK, OpsApart, Creating
<1>4. /\ fields' \in [Keys -> [tier : Tiers \cup {None}, enabled : Flags \cup {None},
                               other : BOOLEAN]]
      /\ fields'[op[w].key].enabled = "true" /\ fields'[op[w].key].tier \in Tiers
      /\ \A j \in Keys : j # op[w].key => fields'[j] = fields[j]
  BY <1>2, <1>3, SetFields, KeysAssumption DEF IInv, Flags
<1>5. TypeOK'
  BY <1>1, <1>4 DEF IInv, TypeOK, StoreKey, history
<1>6. OpsApart'
  <2>1. \A x \in Writers : /\ Creating(x)' => op'[x].key \in minted' \ known'
                           /\ Deleting(x)' => op'[x].key \in known' \cap condemned'
                           /\ Updating(x)' => /\ op'[x].key \in known'
                                              /\ op'[x].update.enabled = "false"
                                                   => op'[x].key \in condemned'
                                              /\ Enables(op'[x].update) => op'[x].key \in pardoned'
    BY <1>1, <1>3 DEF IInv, OpsApart, Creating, Deleting, Updating, StoreKey, history
  <2>2. \A x, y \in Writers : Creating(x)' /\ Creating(y)' /\ op'[x].key = op'[y].key => x = y
    BY <1>1 DEF IInv, OpsApart, Creating
  <2> QED
    BY <2>1, <2>2 DEF OpsApart
<1>7. StoredWhole'
  BY <1>1, <1>3, <1>4 DEF IInv, TypeOK, StoredWhole, OpsApart, Creating
<1>8. StaysRevoked'
  <2>1. revoked' = revoked /\ known' = known
    BY DEF StoreKey, history
  <2>2. \A k \in revoked : k \in Keys /\ k # op[w].key
    BY <1>3 DEF IInv, TypeOK, StaysRevoked
  <2> QED
    BY <1>1, <1>4, <2>1, <2>2 DEF IInv, StaysRevoked
<1>9. LateFindsNothing' /\ IssuedKeysWork'
  BY <1>3, <1>4 DEF IInv, TypeOK, LateFindsNothing, IssuedKeysWork, StoreKey, history
<1> QED
  BY <1>5, <1>6, <1>7, <1>8, <1>9 DEF IInv

\* A key is handed out with everything it was stored with.
LEMMA IndexKeyStep == ASSUME IInv, NEW w \in Writers, IndexKey(w) PROVE IInv'
<1>1. /\ op' \in [Writers -> [at : {"idle", "hset", "zadd", "exists", "update", "check",
                                    "del", "zrem"},
                              key : Keys, update : Updates \cup {NoUpdate}]]
      /\ op[w].at = "zadd" /\ op'[w].at = "idle"
      /\ \A x \in Writers : x # w => op'[x] = op[x]
  <2>1. Step(w, "zadd", "idle")
    BY DEF IndexKey
  <2> QED
    BY <2>1, OpStep
<1>2. op[w].key \in minted \ known /\ op[w].key \in Keys
  BY <1>1 DEF IInv, TypeOK, OpsApart, Creating
<1>3. fields[op[w].key].enabled = "true" /\ fields[op[w].key].tier \in Tiers
  BY <1>1 DEF IInv, StoredWhole
<1>4. known' \in {known, known \cup {op[w].key}} /\ index' = index \cup {op[w].key}
      /\ fields' = fields /\ minted' = minted /\ verify' = verify
      /\ revoked' = revoked /\ condemned' = condemned /\ pardoned' = pardoned
  BY DEF IndexKey, history
<1>5. boot' \in {"off", "verify", "create"}
  BY DEF IndexKey, IInv, TypeOK
<1>6. TypeOK'
  BY <1>1, <1>2, <1>4, <1>5 DEF IInv, TypeOK
<1>7. OpsApart'
  BY <1>1, <1>4 DEF IInv, OpsApart, Creating, Deleting, Updating
<1>8. StoredWhole' /\ StaysRevoked'
  BY <1>1, <1>4 DEF IInv, StoredWhole, StaysRevoked
<1>9. LateFindsNothing' /\ IssuedKeysWork'
  BY <1>3, <1>4 DEF IInv, LateFindsNothing, IssuedKeysWork
<1> QED
  BY <1>6, <1>7, <1>8, <1>9 DEF IInv

\* A request to change or delete a key that was handed out begins.  If it may
\* enable the key, nobody takes the key for revoked any more.
LEMMA BeginsStep ==
    ASSUME IInv, NEW w \in Writers, NEW k \in known, NEW at \in {"exists", "check"},
           NEW u \in Updates \cup {NoUpdate}, Begin(w, k, at, u),
           condemned' = IF at = "check" \/ u.enabled = "false" THEN condemned \cup {k}
                        ELSE condemned,
           IF Enables(u)
           THEN /\ revoked' = revoked \ {k} /\ pardoned' = pardoned \cup {k}
                /\ verify' = [v \in Verifiers |->
                     IF verify[v].key = k THEN [verify[v] EXCEPT !.late = FALSE] ELSE verify[v]]
           ELSE UNCHANGED <<revoked, pardoned, verify>>,
           UNCHANGED <<store, minted, known, boot>>
    PROVE  IInv'
<1>1. /\ ~(at = "check") => at = "exists"
      /\ k \in Keys
      /\ op' = [op EXCEPT ![w] = [at |-> at, key |-> k, update |-> u]]
      /\ op \in [Writers -> [at : {"idle", "hset", "zadd", "exists", "update", "check", "del",
                                   "zrem"}, key : Keys, update : Updates \cup {NoUpdate}]]
      /\ verify \in [Verifiers -> [at : {"idle", "get", "touch", "null", "in"}, key : Keys,
                                   late : BOOLEAN]]
  BY DEF Begin, IInv, TypeOK
<1>2. op'[w] = [at |-> at, key |-> k, update |-> u]
      /\ \A x \in Writers : x # w => op'[x] = op[x]
  BY <1>1
<1>3. condemned \subseteq condemned' /\ condemned' \subseteq condemned \cup {k}
      /\ (at = "check" \/ u.enabled = "false" => k \in condemned')
  OBVIOUS
<1>4. /\ pardoned \subseteq pardoned' /\ pardoned' \subseteq pardoned \cup {k}
      /\ revoked' \subseteq revoked /\ revoked \ {k} \subseteq revoked'
      /\ Enables(u) => k \in pardoned' /\ k \notin revoked'
  OBVIOUS
<1>5. /\ verify' \in [Verifiers -> [at : {"idle", "get", "touch", "null", "in"}, key : Keys,
                                    late : BOOLEAN]]
      /\ \A v \in Verifiers :
           /\ verify'[v].at = verify[v].at /\ verify'[v].key = verify[v].key
           /\ verify'[v].late => verify[v].late /\ (verify[v].key = k => ~Enables(u))
  <2>1. CASE Enables(u)
    <3>1. verify' = [v \in Verifiers |->
             IF verify[v].key = k THEN [verify[v] EXCEPT !.late = FALSE] ELSE verify[v]]
      BY <2>1
    <3>2. \A v \in Verifiers :
            verify'[v] = IF verify[v].key = k THEN [verify[v] EXCEPT !.late = FALSE] ELSE verify[v]
      BY <3>1
    <3>3. \A v \in Verifiers :
            /\ verify'[v] \in [at : {"idle", "get", "touch", "null", "in"}, key : Keys,
                               late : BOOLEAN]
            /\ verify'[v].at = verify[v].at /\ verify'[v].key = verify[v].key
            /\ verify'[v].late => verify[v].late /\ verify[v].key # k
      BY <1>1, <3>2
    <3> QED
      BY <2>1, <3>1, <3>3
  <2>2. CASE ~Enables(u)
    BY <1>1, <2>2
  <2> QED
    BY <2>1, <2>2
<1>6. TypeOK'
  BY <1>1, <1>3, <1>4, <1>5 DEF IInv, TypeOK, store
<1>7. OpsApart'
  <2>1. \A x \in Writers : /\ Creating(x)' => op'[x].key \in minted' \ known'
                           /\ Deleting(x)' => op'[x].key \in known' \cap condemned'
                           /\ Updating(x)' => /\ op'[x].key \in known'
                                              /\ op'[x].update.enabled = "false"
                                                   => op'[x].key \in condemned'
                                              /\ Enables(op'[x].update)
                                                   => op'[x].key \in pardoned'
    BY <1>1, <1>2, <1>3, <1>4 DEF IInv, OpsApart, Creating, Deleting, Updating
  <2>2. \A x, y \in Writers : Creating(x)' /\ Creating(y)' /\ op'[x].key = op'[y].key => x = y
    BY <1>1, <1>2 DEF IInv, OpsApart, Creating
  <2> QED
    BY <2>1, <2>2 DEF OpsApart
<1>8. StaysRevoked'
  BY <1>2, <1>4 DEF IInv, StaysRevoked, store
<1>9. LateFindsNothing'
  <2> SUFFICES ASSUME NEW v \in Verifiers, verify'[v].late
               PROVE  verify'[v].key \in revoked' /\ verify'[v].at \notin {"touch", "in"}
    BY DEF LateFindsNothing
  <2>1. verify[v].key \in revoked /\ verify[v].at \notin {"touch", "in"}
    BY <1>5 DEF IInv, LateFindsNothing
  <2>2. CASE verify[v].key = k
    BY <1>5, <2>1, <2>2
  <2>3. CASE verify[v].key # k
    BY <1>4, <1>5, <2>1, <2>3
  <2> QED
    BY <2>2, <2>3
<1>10. StoredWhole' /\ IssuedKeysWork'
  BY <1>1, <1>2, <1>3 DEF IInv, StoredWhole, IssuedKeysWork, store
<1> QED
  BY <1>6, <1>7, <1>8, <1>9, <1>10 DEF IInv

\* A step of an operation that leaves Redis alone and either keeps the kind of
\* the operation, before it has stored or deleted anything, or ends it.
LEMMA QuietStep ==
    ASSUME IInv, NEW w \in Writers,
           \/ op' = [op EXCEPT ![w] = NoOp]
           \/ Updating(w) /\ op' = [op EXCEPT ![w] = [@ EXCEPT !.at = "update"]]
           \/ Deleting(w) /\ op' = [op EXCEPT ![w] = [@ EXCEPT !.at = "del"]],
           boot' \in {"off", "verify", "create"},
           UNCHANGED <<fields, index, minted, known, verify, history>>
    PROVE  IInv'
<1> USE DEF history
<1>1. op \in [Writers -> [at : {"idle", "hset", "zadd", "exists", "update", "check", "del",
                                "zrem"}, key : Keys, update : Updates \cup {NoUpdate}]]
  BY DEF IInv, TypeOK
<1>2. NoOp \in [at : {"idle"}, key : Keys, update : {NoUpdate}] /\ NoOp.at = "idle"
  BY KeysAssumption DEF NoOp
<1>3. /\ op' \in [Writers -> [at : {"idle", "hset", "zadd", "exists", "update", "check", "del",
                                    "zrem"}, key : Keys, update : Updates \cup {NoUpdate}]]
      /\ \A x \in Writers : x # w => op'[x] = op[x]
      /\ \/ op'[w].at = "idle"
         \/ /\ op'[w].key = op[w].key /\ op'[w].update = op[w].update
            /\ \/ Updating(w) /\ op'[w].at = "update"
               \/ Deleting(w) /\ op'[w].at = "del"
  BY <1>1, <1>2
<1>4. TypeOK'
  BY <1>3 DEF IInv, TypeOK
<1>5. OpsApart'
  BY <1>3 DEF IInv, OpsApart, Creating, Deleting, Updating
<1>6. StoredWhole' /\ StaysRevoked' /\ LateFindsNothing' /\ IssuedKeysWork'
  BY <1>3 DEF IInv, StoredWhole, StaysRevoked, LateFindsNothing, IssuedKeysWork,
     Updating, Deleting
<1> QED
  BY <1>4, <1>5, <1>6 DEF IInv

\* An update leaves what it does not change, and enables no revoked key.
LEMMA ApplyUpdateStep ==
    ASSUME IInv, NEW w \in Writers, ApplyUpdate(w) PROVE IInv'
<1>1. /\ op' \in [Writers -> [at : {"idle", "hset", "zadd", "exists", "update", "check",
                                    "del", "zrem"},
                              key : Keys, update : Updates \cup {NoUpdate}]]
      /\ op[w].at = "update" /\ op'[w].at = "idle"
      /\ \A x \in Writers : x # w => op'[x] = op[x]
  <2>1. Step(w, "update", "idle")
    BY DEF ApplyUpdate
  <2> QED
    BY <2>1, OpStep
<1> DEFINE k == op[w].key
           u == op[w].update
<1>2. k \in known /\ k \in Keys /\ (u.enabled = "false" => k \in condemned)
  BY <1>1 DEF IInv, TypeOK, OpsApart, Updating
<1>3. u.tier \in Tiers \cup {None} /\ u.enabled \in {"false", "true", None}
  <2>1. u \in Updates \cup {NoUpdate}
    BY DEF IInv, TypeOK
  <2> QED
    BY <2>1, KeysAssumption DEF NoUpdate, Flags
<1>4. /\ fields' \in [Keys -> [tier : Tiers \cup {None}, enabled : Flags \cup {None},
                               other : BOOLEAN]]
      /\ fields'[k].tier = IF u.tier = None THEN fields[k].tier ELSE u.tier
      /\ fields'[k].enabled = IF u.enabled = None THEN fields[k].enabled ELSE u.enabled
      /\ \A j \in Keys : j # k => fields'[j] = fields[j]
  <2>1. Set(k, u.tier, u.enabled) /\ u.enabled \in Flags \cup {None}
    BY <1>3 DEF ApplyUpdate, Flags
  <2> HIDE DEF k, u
  <2> QED
    BY <1>2, <1>3, <2>1, SetFields DEF IInv
<1>5. /\ revoked \subseteq revoked'
      /\ revoked' \subseteq revoked \cup {k}
      /\ u.enabled # "false" => revoked' = revoked
      /\ revoked' # revoked =>
           \A x \in Writers : op[x].at # "idle" /\ op[x].key = k => ~Enables(op[x].update)
  BY DEF ApplyUpdate, Revoke
<1>6. None # "false" /\ None # "true"
  BY KeysAssumption DEF Flags
<1>7. UNCHANGED <<index, minted, known, verify, boot, condemned, pardoned>>
  BY DEF ApplyUpdate
<1> HIDE DEF k, u
<1>8. TypeOK'
  BY <1>1, <1>2, <1>4, <1>5, <1>7 DEF IInv, TypeOK
<1>9. OpsApart'
  BY <1>1, <1>7 DEF IInv, OpsApart, Creating, Deleting, Updating
<1>10. StoredWhole'
  <2>1. \A x \in Writers : op'[x].at = "zadd" =>
            op'[x] = op[x] /\ op[x].at = "zadd" /\ op[x].key # k /\ op[x].key \in Keys
    BY <1>1, <1>2 DEF IInv, TypeOK, OpsApart, Creating
  <2> QED
    BY <1>4, <2>1 DEF IInv, StoredWhole
<1>11. \A j \in revoked : fields'[j].enabled = "true" => fields[j].enabled = "true"
  <2>1. k \in revoked => u.enabled # "true"
    BY <1>1 DEF k, u, IInv, StaysRevoked, Enables
  <2> QED
    BY <1>3, <1>4, <2>1 DEF IInv, TypeOK
<1>12. StaysRevoked'
  <2>1. revoked' \subseteq known'
    BY <1>2, <1>5, <1>7 DEF IInv, StaysRevoked
  <2>2. \A j \in revoked' : fields'[j].enabled # "true"
    <3>1. CASE u.enabled = "false"
      BY <1>4, <1>5, <1>6, <1>11, <3>1 DEF IInv, TypeOK, StaysRevoked
    <3>2. CASE u.enabled # "false"
      BY <1>5, <1>11, <3>2 DEF IInv, TypeOK, StaysRevoked
    <3> QED
      BY <3>1, <3>2
  <2>3. ASSUME NEW x \in Writers, op'[x].at # "idle", op'[x].key \in revoked'
        PROVE  ~Enables(op'[x].update)
    <3>1. op'[x] = op[x]
      BY <1>1, <2>3
    <3> QED
      BY <1>5, <2>3, <3>1 DEF IInv, StaysRevoked
  <2> QED
    BY <2>1, <2>2, <2>3 DEF StaysRevoked
<1>13. LateFindsNothing'
  BY <1>5, <1>7 DEF IInv, LateFindsNothing
<1>14. IssuedKeysWork'
  BY <1>2, <1>3, <1>4, <1>7 DEF IInv, TypeOK, IssuedKeysWork
<1> QED
  BY <1>8, <1>9, <1>10, <1>12, <1>13, <1>14 DEF IInv

\* Only a key somebody asked to delete is dropped.
LEMMA DropKeyStep == ASSUME IInv, NEW w \in Writers, DropKey(w) PROVE IInv'
<1>1. /\ op' \in [Writers -> [at : {"idle", "hset", "zadd", "exists", "update", "check",
                                    "del", "zrem"},
                              key : Keys, update : Updates \cup {NoUpdate}]]
      /\ op[w].at = "del" /\ op'[w].at = "zrem"
      /\ op'[w].key = op[w].key /\ op'[w].update = op[w].update
      /\ \A x \in Writers : x # w => op'[x] = op[x]
  <2>1. Step(w, "del", "zrem")
    BY DEF DropKey
  <2> QED
    BY <2>1, OpStep
<1>2. op[w].key \in known \cap condemned /\ op[w].key \in Keys
  BY <1>1 DEF IInv, TypeOK, OpsApart, Deleting
<1>3. Absent \in [tier : {None}, enabled : {None}, other : BOOLEAN]
      /\ Absent.enabled # "true"
  BY KeysAssumption DEF Absent, Flags
<1>4. /\ fields' \in [Keys -> [tier : Tiers \cup {None}, enabled : Flags \cup {None},
                               other : BOOLEAN]]
      /\ fields'[op[w].key] = Absent
      /\ \A j \in Keys : j # op[w].key => fields'[j] = fields[j]
  BY <1>2, <1>3 DEF DropKey, IInv, TypeOK
<1>5. /\ UNCHANGED <<index, minted, known, verify, boot, condemned, pardoned>>
      /\ revoked \subseteq revoked' /\ revoked' \subseteq revoked \cup {op[w].key}
      /\ revoked' # revoked =>
           \A x \in Writers : op[x].at # "idle" /\ op[x].key = op[w].key
                             => ~Enables(op[x].update)
  BY DEF DropKey, Revoke
<1>6. TypeOK'
  BY <1>1, <1>2, <1>4, <1>5 DEF IInv, TypeOK
<1>7. OpsApart'
  BY <1>1, <1>2, <1>5 DEF IInv, OpsApart, Creating, Deleting, Updating
<1>8. StoredWhole'
  <2>1. \A x \in Writers : op'[x].at = "zadd" =>
            op'[x] = op[x] /\ op[x].at = "zadd" /\ op[x].key # op[w].key /\ op[x].key \in Keys
    BY <1>1, <1>2 DEF IInv, TypeOK, OpsApart, Creating
  <2> QED
    BY <1>4, <2>1 DEF IInv, StoredWhole
<1>9. \A j \in Keys : fields'[j].enabled = "true" => fields[j].enabled = "true"
  BY <1>3, <1>4
<1>10. StaysRevoked'
  <2>1. \A j \in revoked' : fields'[j].enabled # "true"
    BY <1>3, <1>4, <1>5, <1>9 DEF IInv, TypeOK, StaysRevoked
  <2>2. ASSUME NEW x \in Writers, op'[x].at # "idle", op'[x].key \in revoked'
        PROVE  ~Enables(op'[x].update)
    <3>1. op[x].at # "idle" /\ op'[x].key = op[x].key /\ op'[x].update = op[x].update
      BY <1>1, <2>2
    <3> QED
      BY <1>5, <2>2, <3>1 DEF IInv, StaysRevoked
  <2> QED
    BY <1>2, <1>5, <2>1, <2>2 DEF IInv, StaysRevoked
<1>11. LateFindsNothing' /\ IssuedKeysWork'
  BY <1>2, <1>4, <1>5 DEF IInv, TypeOK, LateFindsNothing, IssuedKeysWork
<1> QED
  BY <1>6, <1>7, <1>8, <1>10, <1>11 DEF IInv

\* Only a key somebody asked to delete leaves the list.
LEMMA UnindexKeyStep == ASSUME IInv, NEW w \in Writers, UnindexKey(w) PROVE IInv'
<1>1. /\ op' \in [Writers -> [at : {"idle", "hset", "zadd", "exists", "update", "check",
                                    "del", "zrem"},
                              key : Keys, update : Updates \cup {NoUpdate}]]
      /\ op[w].at = "zrem" /\ op'[w].at = "idle"
      /\ \A x \in Writers : x # w => op'[x] = op[x]
  <2>1. Step(w, "zrem", "idle")
    BY DEF UnindexKey
  <2> QED
    BY <2>1, OpStep
<1>2. op[w].key \in condemned
  BY <1>1 DEF IInv, OpsApart, Deleting
<1>3. UNCHANGED <<fields, minted, known, verify, boot, revoked, condemned, pardoned>>
      /\ index' = index \ {op[w].key}
  BY DEF UnindexKey, history
<1>4. TypeOK'
  BY <1>1, <1>3 DEF IInv, TypeOK
<1>5. OpsApart' /\ StoredWhole'
  BY <1>1, <1>3 DEF IInv, OpsApart, StoredWhole, Creating, Deleting, Updating
<1>6. StaysRevoked' /\ LateFindsNothing' /\ IssuedKeysWork'
  BY <1>1, <1>2, <1>3 DEF IInv, StaysRevoked, LateFindsNothing, IssuedKeysWork
<1> QED
  BY <1>4, <1>5, <1>6 DEF IInv

\* The invariant is inductive.
LEMMA Inductive == IInv /\ [Next]_vars => IInv'
<1> SUFFICES ASSUME IInv, [Next]_vars PROVE IInv'
  OBVIOUS
<1>1. CASE UNCHANGED vars
  BY <1>1 DEF vars, history, IInv, TypeOK, OpsApart, StoredWhole, StaysRevoked, LateFindsNothing,
     IssuedKeysWork, Creating, Deleting, Updating
<1>2. ASSUME NEW v \in Verifiers, ReadKey(v) \/ TouchKey(v) \/ VerifyFails(v) PROVE IInv'
  BY <1>2, ReadKeyStep, TouchKeyStep, RequestStep
<1>3. ASSUME NEW c \in Clients, Authenticate(c) \/ EndRequest(c) PROVE IInv'
  BY <1>3, RequestStep DEF Verifiers
<1>4. ASSUME NEW w \in Writers, Write(w) PROVE IInv'
  <2>0. boot \in {"off", "verify", "create"}
    BY DEF IInv, TypeOK
  <2>1. CASE CheckUpdate(w)
    <3>1. UNCHANGED <<fields, index, minted, known, verify, history>>
          /\ boot' = boot
      BY <2>1 DEF CheckUpdate, store, history
    <3>2. \/ op' = [op EXCEPT ![w] = NoOp]
          \/ Updating(w) /\ op' = [op EXCEPT ![w] = [@ EXCEPT !.at = "update"]]
      BY <2>1 DEF CheckUpdate, Step, Updating
    <3> QED
      BY <1>4, <2>0, <3>1, <3>2, QuietStep
  <2>2. CASE CheckDelete(w)
    <3>1. UNCHANGED <<fields, index, minted, known, verify, history>>
          /\ boot' = boot
      BY <2>2 DEF CheckDelete, store, history
    <3>2. \/ op' = [op EXCEPT ![w] = NoOp]
          \/ Deleting(w) /\ op' = [op EXCEPT ![w] = [@ EXCEPT !.at = "del"]]
      BY <2>2 DEF CheckDelete, Step, Deleting
    <3> QED
      BY <1>4, <2>0, <3>1, <3>2, QuietStep
  <2>3. CASE WriteFails(w)
    <3>1. UNCHANGED <<fields, index, minted, known, verify, history>>
          /\ op' = [op EXCEPT ![w] = NoOp]
          /\ boot' \in {"off", "verify", "create"}
      BY <2>0, <2>3 DEF WriteFails, store, history
    <3> QED
      BY <1>4, <3>1, QuietStep
  <2> QED
    BY <1>4, <2>1, <2>2, <2>3, StoreKeyStep, IndexKeyStep, ApplyUpdateStep, DropKeyStep,
       UnindexKeyStep DEF Write
<1>5. ASSUME NEW w \in Admins, AdminRequest(w) PROVE IInv'
  <2>1. CASE BeginCreate(w) /\ UNCHANGED <<store, known, verify, boot, history>>
    BY <2>1, BeginCreateStep DEF Writers, store, IInv, TypeOK
  <2>2. ASSUME NEW k \in known, BeginDelete(w, k) PROVE IInv'
    <3>1. ~Enables(NoUpdate)
      BY KeysAssumption DEF Enables, NoUpdate, Flags
    <3> QED
      BY <2>2, <3>1, BeginsStep DEF Writers, BeginDelete
  <2>3. ASSUME NEW k \in known, NEW u \in Updates, BeginUpdate(w, k, u) PROVE IInv'
    BY <2>3, BeginsStep DEF Writers, BeginUpdate
  <2> QED
    BY <1>5, <2>1, <2>2, <2>3 DEF AdminRequest
<1>6. CASE BootBegins \/ BootFindsKey
  BY <1>6, RequestStep DEF Verifiers
<1>7. CASE BootCreates
  BY <1>7, BeginCreateStep DEF BootCreates, Writers, store
<1> QED
  BY <1>1, <1>2, <1>3, <1>4, <1>5, <1>6, <1>7 DEF Next
-----------------------------------------------------------------------------
\* Every reachable state satisfies the invariant.
THEOREM Invariance == Spec => []IInv
<1>1. IInv /\ [Next]_vars => IInv'
  BY Inductive
<1> QED
  BY Initial, <1>1, PTL DEF Spec

\* Every reachable state is well typed: no key is stored with a field undefined.
THEOREM TypeCorrect == Spec => []TypeOK
<1>1. Spec => []IInv
  BY Invariance
<1>2. IInv => TypeOK
  BY DEF IInv
<1> QED
  BY <1>1, <1>2, PTL

\* No request that begins after a key is disabled or deleted is authenticated
\* with it until somebody asks to enable the key (apiKeys.ts:115-128 against
\* 86-113).
THEOREM RevocationHolds == Spec => []RevocationIsFinal
<1>1. IInv => RevocationIsFinal
  BY DEF IInv, LateFindsNothing, RevocationIsFinal
<1>2. Spec => []IInv
  BY Invariance
<1> QED
  BY <1>1, <1>2, PTL

\* Every key handed out works and is listed until somebody asks to disable or
\* delete it.
THEOREM KeysWork == Spec => []IssuedKeysWork
<1>1. IInv => IssuedKeysWork
  BY DEF IInv
<1>2. Spec => []IInv
  BY Invariance
<1> QED
  BY <1>1, <1>2, PTL
-----------------------------------------------------------------------------
(***************************************************************************)
(* ApiKeys implements KeyService.                                          *)
(***************************************************************************)
\* A key that is being created, or was not yet, is not in force.
NotYetStored == \A k \in Keys : Fresh(k) => fields[k].enabled # "true"

\* Who is handed a key, changes or deletes it does so to one that was stored.
LEMMA KnownIsStored == ASSUME IInv, NEW k \in known PROVE k \in Keys /\ ~Fresh(k)
BY DEF IInv, TypeOK, OpsApart, Creating, Fresh

\* Storing a key is the end of its creation.
LEMMA StoredOnce ==
    ASSUME IInv, NEW w \in Writers, op[w].at = "hset", NEW j, j = op[w].key,
           op'[w].at # "hset", \A x \in Writers : x # w => op'[x] = op[x], UNCHANGED minted
    PROVE  /\ j \in Keys /\ Fresh(j) /\ ~Fresh(j)'
           /\ \A k \in Keys : k # j => (Fresh(k)' <=> Fresh(k))
<1>1. j \in Keys /\ j \in minted
  BY DEF IInv, TypeOK, OpsApart, Creating
<1>2. \A x \in Writers : op[x].at = "hset" /\ op[x].key = j => x = w
  BY DEF IInv, OpsApart, Creating
<1> QED
  BY <1>1, <1>2 DEF Fresh

\* An operation elsewhere neither creates nor stores a key.
LEMMA FreshStays ==
    ASSUME NEW w \in Writers, op[w].at # "hset", op'[w].at # "hset",
           \A x \in Writers : x # w => op'[x] = op[x], UNCHANGED minted
    PROVE  \A k : Fresh(k)' <=> Fresh(k)
BY DEF Fresh

\* A key does not stop being fresh when its creation begins.
LEMMA FreshBegins ==
    ASSUME IInv, NEW w \in Writers, BeginCreate(w) PROVE \A k \in Keys : Fresh(k)' <=> Fresh(k)
<1>1. PICK k \in Keys \ minted : Begin(w, k, "hset", NoUpdate) /\ minted' = minted \cup {k}
  BY DEF BeginCreate
<1>2. op[w].at = "idle" /\ op'[w].at = "hset" /\ op'[w].key = k
      /\ \A x \in Writers : x # w => op'[x] = op[x]
  BY <1>1 DEF Begin, IInv, TypeOK
<1> QED
  BY <1>1, <1>2 DEF Fresh
-----------------------------------------------------------------------------
statuses == [k \in Keys |-> Status(k)]
abouts == [v \in Verifiers |-> verify[v].key]
answers == [v \in Verifiers |-> Answer(v)]

\* The status of a key changes with its enabled flag or its creation,
LEMMA StatusStays ==
    ASSUME NEW k, fields'[k].enabled = fields[k].enabled, Fresh(k)' <=> Fresh(k)
    PROVE  Status(k)' = Status(k)
BY DEF Status

\* one key's at a time,
LEMMA OneKey ==
    ASSUME NEW j \in Keys, \A k \in Keys : k # j => Status(k)' = Status(k)
    PROVE  statuses' = [statuses EXCEPT ![j] = Status(j)']
BY DEF statuses

\* and what a checker knows with its slot.
LEMMA OneCheck ==
    ASSUME IInv, NEW v \in Verifiers, NEW r, verify' = [verify EXCEPT ![v] = r]
    PROVE  /\ answers' = [answers EXCEPT ![v] = Answer(v)']
           /\ abouts' = [abouts EXCEPT ![v] = r.key]
           /\ verify'[v] = r
<1>1. verify'[v] = r /\ \A u \in Verifiers : u # v => verify'[u] = verify[u]
  BY DEF IInv, TypeOK
<1>2. \A u \in Verifiers : u # v => Answer(u)' = Answer(u)
  BY <1>1 DEF Answer
<1>3. answers' = [answers EXCEPT ![v] = Answer(v)']
  BY <1>2 DEF answers
<1>4. abouts' = [abouts EXCEPT ![v] = r.key]
  <2>1. verify'[v].key = r.key /\ \A u \in Verifiers : u # v => verify'[u].key = verify[u].key
    BY <1>1
  <2> QED
    BY <2>1 DEF abouts
<1> QED
  BY <1>1, <1>3, <1>4

LEMMA ChecksStay == ASSUME UNCHANGED verify PROVE answers' = answers /\ abouts' = abouts
BY DEF answers, abouts, Answer
-----------------------------------------------------------------------------
\* Redis without any key is a service that has issued none.
LEMMA InitRefines == Init => Service!Init
<1> SUFFICES ASSUME Init PROVE Service!Init
  OBVIOUS
<1>1. \A k \in Keys : Status(k) = "new"
  BY KeysAssumption DEF Init, Status, Fresh, Absent, Flags
<1>2. \A v \in Verifiers : verify[v].key = AdminKey /\ verify[v].at = "idle"
  BY DEF Init, NoVerify
<1> QED
  BY <1>1, <1>2, KeysAssumption DEF Service!Init, Init, Answer

\* A step that leaves the statuses and the answers alone is not seen.
LEMMA Unseen ==
    ASSUME \A k \in Keys : Status(k)' = Status(k), UNCHANGED <<known, condemned, pardoned>>,
           answers' = answers, abouts' = abouts
    PROVE  UNCHANGED Service!serviceVars
<1>1. statuses' = statuses
  BY DEF statuses
<1> QED
  BY <1>1 DEF Service!serviceVars, statuses, answers, abouts

Simulated == [Service!Next]_(Service!serviceVars)

\* A step that leaves Redis and the operations alone changes no key's status.
LEMMA StoreStays ==
    ASSUME UNCHANGED <<fields, minted, op>>
    PROVE  /\ \A k \in Keys : Status(k)' = Status(k)
           /\ NotYetStored => NotYetStored'
BY DEF Status, Fresh, NotYetStored

\* verifyApiKey begins: the service is asked about a key.
LEMMA AsksStep ==
    ASSUME IInv, NEW v \in Verifiers, NEW k \in Keys, BeginVerify(v, k),
           UNCHANGED <<fields, minted, op, known, condemned, pardoned>>
    PROVE  Simulated
<1>1. statuses' = statuses
  BY StoreStays DEF statuses
<1> DEFINE r == [at |-> "get", key |-> k, late |-> k \in revoked]
<1>2. verify' = [verify EXCEPT ![v] = r] /\ verify[v].at = "idle"
  BY DEF BeginVerify
<1>3. r.key = k /\ r.at = "get"
  OBVIOUS
<1> HIDE DEF r
<1>4. answers' = [answers EXCEPT ![v] = Answer(v)'] /\ abouts' = [abouts EXCEPT ![v] = k]
      /\ verify'[v] = r
  BY <1>2, <1>3, OneCheck
<1>5. Answer(v)' = "asked" /\ Answer(v) = "none"
  BY <1>2, <1>3, <1>4 DEF Answer
<1>6. answers[v] = "none" /\ answers' = [answers EXCEPT ![v] = "asked"]
  BY <1>4, <1>5 DEF answers
<1>7. Service!Ask(v, k)
  BY <1>1, <1>4, <1>6 DEF Service!Ask, Service!keyVars, statuses, abouts, answers
<1> QED
  BY <1>7 DEF Simulated, Service!Next

\* A request, or its verification, is over: the service forgets the question.
LEMMA ForgetsStep ==
    ASSUME IInv, NEW v \in Verifiers, verify[v].at # "idle",
           verify' = [verify EXCEPT ![v] = NoVerify],
           \A k \in Keys : Status(k)' = Status(k), UNCHANGED <<known, condemned, pardoned>>
    PROVE  Simulated
<1>1. statuses' = statuses
  BY DEF statuses
<1>2. answers' = [answers EXCEPT ![v] = Answer(v)'] /\ abouts' = [abouts EXCEPT ![v] = NoVerify.key]
      /\ verify'[v] = NoVerify
  BY OneCheck
<1>3. Answer(v)' = "none" /\ Answer(v) # "none" /\ NoVerify.key \in Keys
  BY <1>2, KeysAssumption DEF Answer, NoVerify
<1>4. answers[v] # "none" /\ answers' = [answers EXCEPT ![v] = "none"]
  BY <1>2, <1>3 DEF answers
<1>5. Service!Forget(v)
  BY <1>1, <1>2, <1>3, <1>4 DEF Service!Forget, Service!keyVars, statuses, abouts, answers
<1> QED
  BY <1>5 DEF Simulated, Service!Next

\* hgetall decides.
LEMMA DecidesStep == ASSUME IInv, NEW v \in Verifiers, ReadKey(v) PROVE Simulated
<1>1. statuses' = statuses
  BY StoreStays DEF statuses, ReadKey, store
<1> DEFINE at == IF fields[verify[v].key].enabled = "true" THEN "touch" ELSE "null"
           r == [verify[v] EXCEPT !.at = at]
<1>2. r.key = verify[v].key /\ r.at = at /\ verify[v].at = "get" /\ verify[v].key \in Keys
  BY DEF ReadKey, IInv, TypeOK
<1>3. verify' = [verify EXCEPT ![v] = r]
  BY DEF ReadKey
<1>4. (at = "touch" /\ Status(verify[v].key) = "inForce")
      \/ (at = "null" /\ Status(verify[v].key) # "inForce")
  BY DEF Status
<1> HIDE DEF r, at
<1>5. /\ answers' = [answers EXCEPT ![v] = Answer(v)'] /\ abouts' = [abouts EXCEPT ![v] = r.key]
      /\ verify'[v] = r
  BY <1>3, OneCheck
<1>6. abouts' = abouts
  BY <1>2, <1>5 DEF abouts
<1>7. Answer(v)' = IF Status(verify[v].key) = "inForce" THEN "yes" ELSE "no"
  BY <1>2, <1>4, <1>5 DEF Answer
<1>8. answers[v] = "asked" /\ statuses[abouts[v]] = Status(verify[v].key)
  BY <1>2 DEF answers, Answer, abouts, statuses
<1>9. answers' = [answers EXCEPT ![v] = IF statuses[abouts[v]] = "inForce" THEN "yes" ELSE "no"]
  BY <1>5, <1>7, <1>8
<1>10. Service!Decide(v)
  BY <1>1, <1>6, <1>8, <1>9
     DEF Service!Decide, Service!keyVars, statuses, abouts, answers, ReadKey, history
<1> QED
  BY <1>10 DEF Simulated, Service!Next

\* The write of lastUsedAt is not seen.
LEMMA TouchUnseen ==
    ASSUME IInv, NEW v \in Verifiers, TouchKey(v)
    PROVE  Simulated /\ (NotYetStored => NotYetStored')
<1>1. verify[v].key \in Keys /\ Set(verify[v].key, None, None)
  BY DEF TouchKey, IInv, TypeOK
<1>2. \A k \in Keys : fields'[k].enabled = fields[k].enabled
  BY <1>1, SetFields DEF IInv
<1>3. \A k : Fresh(k)' <=> Fresh(k)
  BY DEF TouchKey, Fresh
<1> DEFINE r == [verify[v] EXCEPT !.at = "in"]
<1>4. r.key = verify[v].key /\ r.at = "in" /\ verify[v].at = "touch"
      /\ verify' = [verify EXCEPT ![v] = r]
  BY DEF TouchKey, IInv, TypeOK
<1> HIDE DEF r
<1>5. /\ answers' = [answers EXCEPT ![v] = Answer(v)'] /\ abouts' = [abouts EXCEPT ![v] = r.key]
      /\ verify'[v] = r
  BY <1>4, OneCheck
<1>6. answers' = answers /\ abouts' = abouts
  BY <1>4, <1>5 DEF answers, abouts, Answer
<1>7. UNCHANGED Service!serviceVars
  BY <1>2, <1>3, <1>6, StatusStays, Unseen DEF TouchKey, history
<1> QED
  BY <1>2, <1>3, <1>7 DEF Simulated, NotYetStored
-----------------------------------------------------------------------------
\* A step that changes neither what makes a key be in force nor what is asked.
LEMMA Hidden ==
    ASSUME UNCHANGED <<fields, verify, known, condemned, pardoned>>,
           \A k \in Keys : Fresh(k)' <=> Fresh(k)
    PROVE  Simulated /\ (NotYetStored => NotYetStored')
<1>1. UNCHANGED Service!serviceVars
  BY StatusStays, ChecksStay, Unseen
<1> QED
  BY <1>1 DEF Simulated, NotYetStored

\* The HSET of createApiKey issues the key.
LEMMA IssuesStep ==
    ASSUME IInv, NotYetStored, NEW w \in Writers, StoreKey(w) PROVE Simulated /\ NotYetStored'
<1>1. PICK j : j = op[w].key
  OBVIOUS
<1>2. op[w].at = "hset" /\ op'[w].at # "hset" /\ \A x \in Writers : x # w => op'[x] = op[x]
  <2>1. Step(w, "hset", "zadd")
    BY DEF StoreKey
  <2> QED
    BY <2>1, OpStep
<1>3. /\ j \in Keys /\ Fresh(j) /\ ~Fresh(j)'
      /\ \A k \in Keys : k # j => (Fresh(k)' <=> Fresh(k))
  BY <1>1, <1>2, StoredOnce DEF StoreKey
<1>4. PICK tier \in Tiers : Set(j, tier, "true")
  BY <1>1 DEF StoreKey
<1>5. fields'[j].enabled = "true" /\ \A k \in Keys : k # j => fields'[k] = fields[k]
  BY <1>3, <1>4, SetFields, KeysAssumption DEF IInv, Flags
<1>6. Status(j) = "new" /\ Status(j)' = "inForce"
  BY <1>3, <1>5 DEF Status, NotYetStored
<1>7. statuses[j] = "new" /\ statuses' = [statuses EXCEPT ![j] = "inForce"]
  BY <1>3, <1>5, <1>6, StatusStays, OneKey DEF statuses
<1>8. Service!Issue(j)
  BY <1>7, ChecksStay DEF Service!Issue, Service!checkVars, statuses, abouts, answers,
     StoreKey, history
<1> QED
  BY <1>3, <1>5, <1>8 DEF Simulated, Service!Next, NotYetStored

\* What createApiKey hands out is in force; what the master drops is not seen.
LEMMA HandsOutStep ==
    ASSUME IInv, NotYetStored, NEW w \in Writers, IndexKey(w) PROVE Simulated /\ NotYetStored'
<1>1. op[w].at = "zadd" /\ op'[w].at # "hset" /\ \A x \in Writers : x # w => op'[x] = op[x]
  <2>1. Step(w, "zadd", "idle")
    BY DEF IndexKey
  <2> QED
    BY <2>1, OpStep
<1>2. \A k : Fresh(k)' <=> Fresh(k)
  BY <1>1, FreshStays DEF IndexKey
<1>3. CASE w = Master
  BY <1>2, <1>3, Hidden DEF IndexKey, history
<1>4. CASE w # Master
  <2>1. PICK j \in Keys : j = op[w].key
    BY DEF IInv, TypeOK
  <2>2. statuses[j] = "inForce"
    BY <1>1, <2>1 DEF IInv, StoredWhole, Status, statuses
  <2>3. statuses' = statuses
    BY <1>2, StatusStays DEF IndexKey, statuses
  <2>4. known' = known \cup {j}
    BY <1>4, <2>1 DEF IndexKey
  <2>5. Service!HandOut(j)
    BY <2>2, <2>3, <2>4, ChecksStay DEF Service!HandOut, Service!checkVars, statuses, abouts,
       answers, IndexKey, history
  <2> QED
    BY <1>2, <2>5 DEF Simulated, Service!Next, NotYetStored, IndexKey
<1> QED
  BY <1>3, <1>4

\* A request to delete, disable or enable a key is one of the service's.
LEMMA AskedStep ==
    ASSUME IInv, NotYetStored, NEW w \in Writers, NEW k \in known,
           NEW at \in {"exists", "check"}, NEW u, Begin(w, k, at, u),
           \/ UNCHANGED <<condemned, pardoned>>
           \/ condemned' = condemned \cup {k} /\ pardoned' = pardoned
           \/ condemned' = condemned /\ pardoned' = pardoned \cup {k},
           UNCHANGED <<fields, minted, known>>, answers' = answers, abouts' = abouts
    PROVE  Simulated /\ NotYetStored'
<1>1. op[w].at = "idle" /\ op'[w].at # "hset" /\ \A x \in Writers : x # w => op'[x] = op[x]
  BY DEF Begin, IInv, TypeOK
<1>2. \A j : Fresh(j)' <=> Fresh(j)
  BY <1>1, FreshStays
<1>3. \A j \in Keys : Status(j)' = Status(j)
  BY <1>2, StatusStays
<1>4. statuses' = statuses
  BY <1>3 DEF statuses
<1>5. k \in Keys
  BY KnownIsStored
<1>6. CASE UNCHANGED <<condemned, pardoned>>
  <2>1. UNCHANGED Service!serviceVars
    BY <1>3, <1>6, Unseen
  <2> QED
    BY <1>2, <2>1 DEF Simulated, NotYetStored
<1>7. CASE condemned' = condemned \cup {k} /\ pardoned' = pardoned
  <2>1. Service!AskToWithdraw(k)
    BY <1>4, <1>7 DEF Service!AskToWithdraw, Service!checkVars, statuses, abouts, answers
  <2> QED
    BY <1>2, <1>5, <2>1 DEF Simulated, Service!Next, NotYetStored
<1>8. CASE condemned' = condemned /\ pardoned' = pardoned \cup {k}
  <2>1. Service!AskToRestore(k)
    BY <1>4, <1>8 DEF Service!AskToRestore, Service!checkVars, statuses, abouts, answers
  <2> QED
    BY <1>2, <1>5, <2>1 DEF Simulated, Service!Next, NotYetStored
<1> QED
  BY <1>6, <1>7, <1>8

\* A key that was handed out is disabled or its hash deleted, or it is enabled,
\* which somebody asked for; or that changes nothing.
LEMMA ChangesStep ==
    ASSUME IInv, NotYetStored, NEW j \in known,
           \A k \in Keys : Fresh(k)' <=> Fresh(k),
           \A k \in Keys : k # j => fields'[k] = fields[k],
           \/ fields'[j].enabled = fields[j].enabled
           \/ fields'[j].enabled # "true" /\ j \in condemned
           \/ fields'[j].enabled = "true" /\ j \in pardoned,
           UNCHANGED <<known, condemned, pardoned, verify>>
    PROVE  Simulated /\ NotYetStored'
<1>1. j \in Keys /\ ~Fresh(j)
  BY KnownIsStored
<1>2. \A k \in Keys : k # j => Status(k)' = Status(k)
  BY StatusStays
<1>3. CASE fields'[j].enabled = "true" <=> fields[j].enabled = "true"
  <2>1. Status(j)' = Status(j)
    BY <1>1, <1>3 DEF Status
  <2>2. UNCHANGED Service!serviceVars
    BY <1>2, <2>1, ChecksStay, Unseen
  <2> QED
    BY <1>1, <1>3, <2>2 DEF Simulated, NotYetStored
<1>4. CASE fields'[j].enabled # "true" /\ j \in condemned /\ fields[j].enabled = "true"
  <2>1. Status(j) = "inForce" /\ Status(j)' = "withdrawn"
    BY <1>1, <1>4 DEF Status
  <2>2. statuses[j] = "inForce" /\ statuses' = [statuses EXCEPT ![j] = "withdrawn"]
    BY <1>1, <1>2, <2>1, OneKey DEF statuses
  <2>3. Service!Withdraw(j)
    BY <1>4, <2>2, ChecksStay
       DEF Service!Withdraw, Service!checkVars, statuses, abouts, answers
  <2> QED
    BY <1>1, <1>4, <2>3 DEF Simulated, Service!Next, NotYetStored
<1>5. CASE fields'[j].enabled = "true" /\ j \in pardoned /\ fields[j].enabled # "true"
  <2>1. Status(j) = "withdrawn" /\ Status(j)' = "inForce"
    BY <1>1, <1>5 DEF Status
  <2>2. statuses[j] = "withdrawn" /\ statuses' = [statuses EXCEPT ![j] = "inForce"]
    BY <1>1, <1>2, <2>1, OneKey DEF statuses
  <2>3. Service!Restore(j)
    BY <1>5, <2>2, ChecksStay
       DEF Service!Restore, Service!checkVars, statuses, abouts, answers
  <2> QED
    BY <1>1, <2>3 DEF Simulated, Service!Next, NotYetStored
<1> QED
  BY <1>3, <1>4, <1>5

\* The HSET of updateApiKey,
LEMMA UpdatesStep ==
    ASSUME IInv, NotYetStored, NEW w \in Writers, ApplyUpdate(w)
    PROVE  Simulated /\ NotYetStored'
<1>1. PICK j, u : j = op[w].key /\ u = op[w].update
  OBVIOUS
<1>2. op[w].at = "update" /\ op'[w].at # "hset" /\ \A x \in Writers : x # w => op'[x] = op[x]
  <2>1. Step(w, "update", "idle")
    BY DEF ApplyUpdate
  <2> QED
    BY <2>1, OpStep
<1>3. /\ j \in known /\ j \in Keys
      /\ u.enabled = "false" => j \in condemned
      /\ u.enabled = "true" => j \in pardoned
  BY <1>1, <1>2 DEF IInv, TypeOK, OpsApart, Updating, Enables
<1>4. u.tier \in Tiers \cup {None} /\ u.enabled \in {"false", "true", None}
  <2>1. u \in Updates \cup {NoUpdate}
    BY <1>1 DEF IInv, TypeOK
  <2> QED
    BY <2>1, KeysAssumption DEF NoUpdate, Flags
<1>5. Set(j, u.tier, u.enabled) /\ u.enabled \in Flags \cup {None}
  BY <1>1, <1>4 DEF ApplyUpdate, Flags
<1>6. /\ fields'[j].enabled = IF u.enabled = None THEN fields[j].enabled ELSE u.enabled
      /\ \A k \in Keys : k # j => fields'[k] = fields[k]
  BY <1>3, <1>4, <1>5, SetFields DEF IInv
<1>7. UNCHANGED <<known, condemned, pardoned, verify, minted>>
  BY DEF ApplyUpdate
<1> QED
  BY <1>2, <1>3, <1>4, <1>6, <1>7, FreshStays, ChangesStep

\* and the DEL of deleteApiKey.
LEMMA DropsStep ==
    ASSUME IInv, NotYetStored, NEW w \in Writers, DropKey(w) PROVE Simulated /\ NotYetStored'
<1>1. PICK j : j = op[w].key
  OBVIOUS
<1>2. op[w].at = "del" /\ op'[w].at # "hset" /\ \A x \in Writers : x # w => op'[x] = op[x]
  <2>1. Step(w, "del", "zrem")
    BY DEF DropKey
  <2> QED
    BY <2>1, OpStep
<1>3. j \in known /\ j \in Keys /\ j \in condemned
  BY <1>1, <1>2 DEF IInv, TypeOK, OpsApart, Deleting
<1>4. fields'[j].enabled # "true" /\ \A k \in Keys : k # j => fields'[k] = fields[k]
  BY <1>1, <1>3, KeysAssumption DEF DropKey, IInv, TypeOK, Absent, Flags
<1>5. UNCHANGED <<known, condemned, pardoned, verify, minted>>
  BY DEF DropKey, history
<1> QED
  BY <1>2, <1>3, <1>4, <1>5, FreshStays, ChangesStep

\* An operation that fails before its key was stored discards it; later, or of
\* another kind, it is not seen.
LEMMA FailsStep ==
    ASSUME IInv, NotYetStored, NEW w \in Writers, WriteFails(w) PROVE Simulated /\ NotYetStored'
<1>1. op'[w].at = "idle" /\ \A x \in Writers : x # w => op'[x] = op[x]
  BY DEF WriteFails, IInv, TypeOK, NoOp
<1>2. UNCHANGED <<fields, minted, known, condemned, pardoned, verify>>
  BY DEF WriteFails, store, history
<1>3. CASE op[w].at = "hset"
  <2>1. PICK j : j = op[w].key
    OBVIOUS
  <2>2. /\ j \in Keys /\ Fresh(j) /\ ~Fresh(j)'
        /\ \A k \in Keys : k # j => (Fresh(k)' <=> Fresh(k))
    BY <1>1, <1>2, <1>3, <2>1, StoredOnce
  <2>3. Status(j) = "new" /\ Status(j)' = "withdrawn"
    BY <1>2, <2>2 DEF Status, NotYetStored
  <2>4. statuses[j] = "new" /\ statuses' = [statuses EXCEPT ![j] = "withdrawn"]
    BY <1>2, <2>2, <2>3, StatusStays, OneKey DEF statuses
  <2>5. Service!Discard(j)
    BY <1>2, <2>4, ChecksStay DEF Service!Discard, Service!checkVars, statuses, abouts, answers
  <2> QED
    BY <1>2, <2>2, <2>5 DEF Simulated, Service!Next, NotYetStored
<1>4. CASE op[w].at # "hset"
  BY <1>1, <1>2, <1>4, FreshStays, Hidden
<1> QED
  BY <1>3, <1>4

\* The other commands of the operations are not seen.
LEMMA CommandUnseen ==
    ASSUME IInv, NotYetStored, NEW w \in Writers,
           CheckUpdate(w) \/ CheckDelete(w) \/ UnindexKey(w)
    PROVE  Simulated /\ NotYetStored'
<1>1. op[w].at # "hset" /\ op'[w].at # "hset" /\ \A x \in Writers : x # w => op'[x] = op[x]
  <2>1. \/ \E to \in {"update", "idle"} : Step(w, "exists", to)
        \/ \E to \in {"del", "idle"} : Step(w, "check", to)
        \/ Step(w, "zrem", "idle")
    BY DEF CheckUpdate, CheckDelete, UnindexKey
  <2> QED
    BY <2>1, OpStep
<1>2. UNCHANGED <<fields, verify, minted, known, condemned, pardoned>>
  BY DEF CheckUpdate, CheckDelete, UnindexKey, store, history
<1> QED
  BY <1>1, <1>2, FreshStays, Hidden

\* Every step of the keys is a step of the service, or is not seen.
LEMMA StepRefines ==
    ASSUME IInv, NotYetStored, [Next]_vars PROVE Simulated /\ NotYetStored'
<1>1. CASE UNCHANGED vars
  BY <1>1, Hidden DEF vars, Fresh, history
<1>2. ASSUME NEW v \in Verifiers, ReadKey(v) \/ TouchKey(v) \/ VerifyFails(v)
      PROVE  Simulated /\ NotYetStored'
  <2>1. CASE ReadKey(v)
    BY <2>1, DecidesStep, StoreStays DEF ReadKey, store
  <2>2. CASE TouchKey(v)
    BY <2>2, TouchUnseen
  <2>3. CASE VerifyFails(v)
    BY <2>3, ForgetsStep, StoreStays DEF VerifyFails, store, history
  <2> QED
    BY <1>2, <2>1, <2>2, <2>3
<1>3. ASSUME NEW c \in Clients, Authenticate(c) \/ EndRequest(c) PROVE Simulated /\ NotYetStored'
  <2>1. CASE Authenticate(c)
    <3>1. PICK k \in known : BeginVerify(c, k)
      BY <2>1 DEF Authenticate
    <3> QED
      BY <2>1, <3>1, AsksStep, StoreStays DEF Authenticate, store, history, IInv, TypeOK, Verifiers
  <2>2. CASE EndRequest(c)
    BY <2>2, ForgetsStep, StoreStays DEF EndRequest, store, history, Verifiers
  <2> QED
    BY <1>3, <2>1, <2>2
<1>4. ASSUME NEW w \in Writers, Write(w) PROVE Simulated /\ NotYetStored'
  BY <1>4, IssuesStep, HandsOutStep, UpdatesStep, DropsStep, FailsStep, CommandUnseen DEF Write
<1>5. ASSUME NEW w \in Admins, AdminRequest(w) PROVE Simulated /\ NotYetStored'
  <2>1. CASE BeginCreate(w) /\ UNCHANGED <<store, known, verify, boot, history>>
    BY <2>1, FreshBegins, Hidden DEF Writers, store, history
  <2>2. ASSUME NEW k \in known, BeginDelete(w, k) PROVE Simulated /\ NotYetStored'
    BY <2>2, AskedStep, ChecksStay DEF BeginDelete, Writers, store
  <2>3. ASSUME NEW k \in known, NEW u \in Updates, BeginUpdate(w, k, u)
        PROVE  Simulated /\ NotYetStored'
    <3>1. answers' = answers /\ abouts' = abouts
      <4>1. CASE verify' = verify
        BY <4>1, ChecksStay
      <4>2. CASE verify' # verify
        <5>1. \A v \in Verifiers : verify'[v].at = verify[v].at /\ verify'[v].key = verify[v].key
          BY <2>3, <4>2 DEF BeginUpdate, IInv, TypeOK
        <5> QED
          BY <5>1 DEF answers, abouts, Answer
      <4> QED
        BY <4>1, <4>2
    <3>2. \/ UNCHANGED <<condemned, pardoned>>
          \/ condemned' = condemned \cup {k} /\ pardoned' = pardoned
          \/ condemned' = condemned /\ pardoned' = pardoned \cup {k}
      BY <2>3 DEF BeginUpdate, Enables
    <3> QED
      BY <2>3, <3>1, <3>2, AskedStep DEF BeginUpdate, Writers, store
  <2> QED
    BY <1>5, <2>1, <2>2, <2>3 DEF AdminRequest
<1>6. CASE BootBegins
  BY <1>6, AsksStep, StoreStays, KeysAssumption DEF BootBegins, store, history, Verifiers
<1>7. CASE BootCreates
  <2>1. \A k \in Keys : Fresh(k)' <=> Fresh(k)
    BY <1>7, FreshBegins DEF BootCreates, Writers
  <2>2. \A k \in Keys : Status(k)' = Status(k)
    BY <1>7, <2>1, StatusStays DEF BootCreates, store
  <2>3. Simulated
    BY <1>7, <2>2, ForgetsStep DEF BootCreates, Verifiers, store, history
  <2> QED
    BY <1>7, <2>1, <2>3 DEF BootCreates, store, NotYetStored
<1>8. CASE BootFindsKey
  BY <1>8, ForgetsStep, StoreStays DEF BootFindsKey, store, history, Verifiers
<1> QED
  BY <1>1, <1>2, <1>3, <1>4, <1>5, <1>6, <1>7, <1>8 DEF Next

\* verifyApiKey answers what was true of the key at a moment of the
\* verification, whatever other operations, failures and restarts come between
\* its commands; a key is issued once, goes out of force only when somebody
\* asked for that, and comes back only when somebody asked for that.
THEOREM Refinement == Spec => ImplementsKeyService
<1>1. Init => NotYetStored
  BY KeysAssumption DEF Init, NotYetStored, Absent, Flags
<1>2. IInv /\ NotYetStored /\ [Next]_vars => Simulated /\ NotYetStored'
  BY StepRefines
<1>3. Spec => []IInv
  BY Invariance
<1> QED
  BY InitRefines, <1>1, <1>2, <1>3, PTL DEF Spec, ImplementsKeyService, Service!Spec, Simulated
=============================================================================
