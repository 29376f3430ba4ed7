------------------------------ MODULE ApiKeys ------------------------------
(***************************************************************************)
(* The API keys in Redis (src/utils/apiKeys.ts): the hash apikey:<hash> of *)
(* each key and the sorted set apikeys, used by requests that authenticate *)
(* (verifyApiKey), by the admin and issuer endpoints of src/app.ts, and by *)
(* the master's bootstrapAdminKey (src/index.ts:18-31).                    *)
(*                                                                         *)
(* Every operation is a sequence of single Redis commands, with an await   *)
(* after each; those of other operations may come in between.              *)
(***************************************************************************)
EXTENDS Naturals

CONSTANTS Keys,     \* the keys generateApiKey may return
          Tiers,    \* ApiKeyTier
          Clients,  \* slots in which requests authenticate
          Admins,   \* slots in which admin and issuer requests run
          Master,   \* the master process, which is in neither
          AdminKey, \* ADMIN_API_KEY
          Updates,  \* the changes PATCH may ask for: [tier, enabled], None for no
                  \* change; a new name alone leaves both out
          None

\* enabled is stored as a string.
Flags == {"true", "false"}
Absent == [tier |-> None, enabled |-> None, other |-> FALSE]
NoUpdate == [tier |-> None, enabled |-> None]

\* An idle slot.
NoOp == [at |-> "idle", key |-> AdminKey, update |-> NoUpdate]
NoVerify == [at |-> "idle", key |-> AdminKey, late |-> FALSE]

ASSUME KeysAssumption ==
    /\ Master \notin Clients \cup Admins
    /\ AdminKey \in Keys
    /\ None \notin Tiers \cup Flags
    /\ Updates \subseteq [tier : Tiers \cup {None}, enabled : Flags \cup {None}]

Verifiers == Clients \cup {Master}
Writers == Admins \cup {Master}

VARIABLES fields, \* per key, its hash: tier and enabled, None when absent, and
                  \* whether it has any other field
          index,  \* the sorted set apikeys
          minted, \* the keys generated so far
          known,  \* those handed out
          verify, \* per slot, verifyApiKey: [at, key, late]
          op,     \* per slot, createApiKey, updateApiKey or deleteApiKey: [at, key, update]
          boot,   \* bootstrapAdminKey: "off" (before and after), "verify" or "create"
          revoked,\* history: keys disabled or deleted, with nothing since to enable them
          condemned, \* history: keys somebody asked to disable or delete
          pardoned \* history: keys somebody asked to enable

vars == <<fields, index, minted, known, verify, op, boot, revoked, condemned, pardoned>>
store == <<fields, index>>
history == <<revoked, condemned, pardoned>>

Exists(k) == fields[k] # Absent

\* HSET: the fields given replace or join those of the hash, which it creates.
Set(k, tier, enabled) ==
    fields' = [fields EXCEPT ![k] =
                 [tier |-> IF tier = None THEN @.tier ELSE tier,
                  enabled |-> IF enabled = None THEN @.enabled ELSE enabled,
                  other |-> TRUE]]

Init ==
    /\ fields = [k \in Keys |-> Absent] /\ index = {}
    /\ minted = {} /\ known = {}
    /\ verify = [v \in Verifiers |-> NoVerify]
    /\ op = [w \in Writers |-> NoOp]
    /\ boot = "off"
    /\ revoked = {} /\ condemned = {} /\ pardoned = {}
-----------------------------------------------------------------------------
BeginVerify(v, k) ==
    /\ verify[v].at = "idle"
    /\ verify' = [verify EXCEPT ![v] = [at |-> "get", key |-> k, late |-> k \in revoked]]

\* Mutation: any hash passes.
ReadKey_AnyHash(v) ==
    /\ verify[v].at = "get"
    /\ verify' = [verify EXCEPT ![v].at =
                    IF Exists(verify[v].key) THEN "touch" ELSE "null"]
    /\ UNCHANGED <<store, minted, known, op, boot, history>>

\* hgetall: no such key or a disabled one is null, the end of it.
ReadKey(v) ==
    /\ verify[v].at = "get"
    /\ verify' = [verify EXCEPT ![v].at =
                    IF fields[verify[v].key].enabled = "true" THEN "touch" ELSE "null"]
    /\ UNCHANGED <<store, minted, known, op, boot, history>>

\* Mutation: write all the metadata back.
TouchKey_WriteBack(v) ==
    /\ verify[v].at = "touch"
    /\ Set(verify[v].key, None, "true")
    /\ verify' = [verify EXCEPT ![v].at = "in"]
    /\ UNCHANGED <<index, minted, known, op, boot, history>>

\* hset of lastUsedAt, after which the request is authenticated.
TouchKey(v) ==
    /\ verify[v].at = "touch"
    /\ Set(verify[v].key, None, None)
    /\ verify' = [verify EXCEPT ![v].at = "in"]
    /\ UNCHANGED <<index, minted, known, op, boot, history>>

\* A request with a key that was handed out.
Authenticate(c) ==
    /\ \E k \in known : BeginVerify(c, k)
    /\ UNCHANGED <<store, minted, known, op, boot, history>>

EndRequest(c) ==
    /\ verify[c].at \in {"null", "in"}
    /\ verify' = [verify EXCEPT ![c] = NoVerify]
    /\ UNCHANGED <<store, minted, known, op, boot, history>>
-----------------------------------------------------------------------------
Begin(w, k, at, update) ==
    /\ op[w].at = "idle"
    /\ op' = [op EXCEPT ![w] = [at |-> at, key |-> k, update |-> update]]

Step(w, from, to) ==
    /\ op[w].at = from
    /\ op' = [op EXCEPT ![w] = IF to = "idle" THEN NoOp ELSE [@ EXCEPT !.at = to]]

\* createApiKey: POST /admin/keys, POST /keys or the master.
BeginCreate(w) ==
    \E k \in Keys \ minted : Begin(w, k, "hset", NoUpdate) /\ minted' = minted \cup {k}

StoreKey(w) ==
    /\ Step(w, "hset", "zadd")
    /\ \E tier \in Tiers : Set(op[w].key, tier, "true")
    /\ UNCHANGED <<index, minted, known, verify, boot, history>>

\* The caller is given the key; bootstrapAdminKey drops it.
IndexKey(w) ==
    /\ Step(w, "zadd", "idle")
    /\ index' = index \cup {op[w].key}
    /\ known' = IF w = Master THEN known ELSE known \cup {op[w].key}
    /\ boot' = IF w = Master THEN "off" ELSE boot
    /\ UNCHANGED <<fields, minted, verify, history>>

Enables(u) == u.enabled = "true"

\* PATCH /admin/keys/:hash.  The history forgets a revocation when something
\* that may undo it begins.
BeginUpdate(w, k, u) ==
    /\ Begin(w, k, "exists", u)
    /\ IF Enables(u)
       THEN /\ revoked' = revoked \ {k} /\ pardoned' = pardoned \cup {k}
            /\ verify' = [v \in Verifiers |->
                 IF verify[v].key = k THEN [verify[v] EXCEPT !.late = FALSE] ELSE verify[v]]
       ELSE UNCHANGED <<revoked, pardoned, verify>>
    /\ condemned' = IF u.enabled = "false" THEN condemned \cup {k} ELSE condemned
    /\ UNCHANGED <<store, minted, known, boot>>

\* exists: 404 for a key that does not.
CheckUpdate(w) ==
    /\ Step(w, "exists", IF Exists(op[w].key) THEN "update" ELSE "idle")
    /\ UNCHANGED <<store, minted, known, verify, boot, history>>

\* A key is revoked unless an update that may enable it again is under way.
Revoke(k) ==
    revoked' = IF \E x \in Writers : op[x].at # "idle" /\ op[x].key = k /\ Enables(op[x].update)
               THEN revoked ELSE revoked \cup {k}

\* Mutation: String(enabled) is written when enabled is undefined, too.
ApplyUpdate_Undefined(w) ==
    /\ Step(w, "update", "idle")
    /\ LET u == op[w].update IN
         /\ Set(op[w].key, u.tier, IF u.enabled = None THEN "undefined" ELSE u.enabled)
         /\ IF u.enabled = "false" THEN Revoke(op[w].key) ELSE UNCHANGED revoked
    /\ UNCHANGED <<index, minted, known, verify, boot, condemned, pardoned>>

ApplyUpdate(w) ==
    /\ Step(w, "update", "idle")
    /\ LET u == op[w].update IN
         /\ Set(op[w].key, u.tier, u.enabled)
         /\ IF u.enabled = "false" THEN Revoke(op[w].key) ELSE UNCHANGED revoked
    /\ UNCHANGED <<index, minted, known, verify, boot, condemned, pardoned>>

\* DELETE /admin/keys/:hash.
BeginDelete(w, k) ==
    /\ Begin(w, k, "check", NoUpdate)
    /\ condemned' = condemned \cup {k}
    /\ UNCHANGED <<store, minted, known, verify, boot, revoked, pardoned>>

CheckDelete(w) ==
    /\ Step(w, "check", IF Exists(op[w].key) THEN "del" ELSE "idle")
    /\ UNCHANGED <<store, minted, known, verify, boot, history>>

DropKey(w) ==
    /\ Step(w, "del", "zrem")
    /\ fields' = [fields EXCEPT ![op[w].key] = Absent]
    /\ Revoke(op[w].key)
    /\ UNCHANGED <<index, minted, known, verify, boot, condemned, pardoned>>

UnindexKey(w) ==
    /\ Step(w, "zrem", "idle")
    /\ index' = index \ {op[w].key}
    /\ UNCHANGED <<fields, minted, known, verify, boot, history>>

\* Redis rejects a command: the endpoint answers 500.
WriteFails(w) ==
    /\ op[w].at # "idle"
    /\ op' = [op EXCEPT ![w] = NoOp]
    /\ boot' = IF w = Master THEN "off" ELSE boot
    /\ UNCHANGED <<store, minted, known, verify, history>>

VerifyFails(v) ==
    /\ verify[v].at \in {"get", "touch"}
    /\ verify' = [verify EXCEPT ![v] = NoVerify]
    /\ boot' = IF v = Master THEN "off" ELSE boot
    /\ UNCHANGED <<store, minted, known, op, history>>
-----------------------------------------------------------------------------
\* bootstrapAdminKey, when the master starts: verifyApiKey(ADMIN_API_KEY), and
\* createApiKey if that is null.
BootBegins ==
    /\ boot = "off" /\ boot' = "verify"
    /\ BeginVerify(Master, AdminKey)
    /\ UNCHANGED <<store, minted, known, op, history>>

BootCreates ==
    /\ boot = "verify" /\ verify[Master].at = "null" /\ boot' = "create"
    /\ BeginCreate(Master)
    /\ verify' = [verify EXCEPT ![Master] = NoVerify]
    /\ UNCHANGED <<store, known, history>>

BootFindsKey ==
    /\ boot = "verify" /\ verify[Master].at = "in" /\ boot' = "off"
    /\ verify' = [verify EXCEPT ![Master] = NoVerify]
    /\ UNCHANGED <<store, minted, known, op, history>>

Write(w) ==
    \/ StoreKey(w) \/ IndexKey(w) \/ CheckUpdate(w) \/ ApplyUpdate(w)
    \/ CheckDelete(w) \/ DropKey(w) \/ UnindexKey(w) \/ WriteFails(w)

AdminRequest(w) ==
    \/ BeginCreate(w) /\ UNCHANGED <<store, known, verify, boot, history>>
    \/ \E k \in known : BeginDelete(w, k) \/ \E u \in Updates : BeginUpdate(w, k, u)

Next ==
    \/ \E v \in Verifiers : ReadKey(v) \/ TouchKey(v) \/ VerifyFails(v)
    \/ \E c \in Clients : Authenticate(c) \/ EndRequest(c)
    \/ \E w \in Writers : Write(w)
    \/ \E w \in Admins : AdminRequest(w)
    \/ BootBegins \/ BootCreates \/ BootFindsKey

Spec == Init /\ [][Next]_vars
-----------------------------------------------------------------------------
\* Types.
TypeOK ==
    /\ fields \in [Keys -> [tier : Tiers \cup {None}, enabled : Flags \cup {None},
                            other : BOOLEAN]]
    /\ index \subseteq Keys /\ minted \subseteq Keys /\ known \subseteq minted
    /\ verify \in [Verifiers -> [at : {"idle", "get", "touch", "null", "in"}, key : Keys,
                                 late : BOOLEAN]]
    /\ op \in [Writers -> [at : {"idle", "hset", "zadd", "exists", "update", "check", "del",
                                 "zrem"}, key : Keys, update : Updates \cup {NoUpdate}]]
    /\ boot \in {"off", "verify", "create"}
    /\ revoked \subseteq Keys /\ condemned \subseteq Keys /\ pardoned \subseteq Keys

\* Once a key is disabled or deleted, no request that begins later is
\* authenticated with it, whatever verifications and updates were going on:
\* apiKeys.ts:122, 125 writes lastUsedAt to whatever is there by then.
RevocationIsFinal ==
    \A v \in Verifiers : verify[v].late => verify[v].at \notin {"touch", "in"}

\* A key that was handed out and that nobody asked to disable or delete is
\* listed, enabled and has its tier, whatever updates and verifications of it
\* interleave (apiKeys.ts:37-38, 93-99, 125).
IssuedKeysWork ==
    \A k \in known \ condemned :
        k \in index /\ fields[k].enabled = "true" /\ fields[k].tier \in Tiers

\* ApiKeys implements KeyService: however the single commands interleave, fail
\* or are cut off, an operation takes effect at one of them.  verifyApiKey's is
\* its hgetall, before which and after which the key may change; the write of
\* lastUsedAt that follows it (apiKeys.ts:125) brings nothing back.
Fresh(k) == k \notin minted \/ \E w \in Writers : op[w].at = "hset" /\ op[w].key = k
Status(k) ==
    IF fields[k].enabled = "true" THEN "inForce" ELSE IF Fresh(k) THEN "new" ELSE "withdrawn"
Answer(v) ==
    IF verify[v].at = "idle" THEN "none"
    ELSE IF verify[v].at = "get" THEN "asked"
    ELSE IF verify[v].at = "null" THEN "no" ELSE "yes"
Service == INSTANCE KeyService WITH
               Checkers <- Verifiers,
               status   <- [k \in Keys |-> Status(k)],
               doomed   <- condemned,
               pardoned <- pardoned,
               about    <- [v \in Verifiers |-> verify[v].key],
               answer   <- [v \in Verifiers |-> Answer(v)]
ImplementsKeyService == Service!Spec
=============================================================================
