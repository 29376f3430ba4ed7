------------------------------ MODULE Lifecycle ------------------------------
(***************************************************************************)
(* The processes of one instance, from its start to its end: the master,   *)
(* which forks the workers and replaces those that die, runs CacheManager's *)
(* cycle, and shuts everything down on SIGTERM or SIGINT; and the workers, *)
(* which drain their requests first.                                       *)
(*                                                                         *)
(* A slot holds a worker, or what is left of it: "dead" until the master   *)
(* handles its exit, "respawn" while the second before the next fork       *)
(* passes, "none" if there will be no other.                               *)
(***************************************************************************)
CONSTANT Workers \* the slots, workerCount of them

VARIABLES feeds,  \* ENABLE_FEEDS
          others, \* ENABLE_WORKER: its loop never ends (the poller's timer is unref'ed)
          calm,   \* from here on no process dies of itself or is signalled alone
          master, \* "boot": before the handlers are set up; "maimed": without them
          shuttingDown,
          grace,  \* the master's ten seconds: "off", "set" or "due"
          cycle,  \* CacheManager: "off", at its tasks, at its clean-ups, waiting, hung
          isRunning,
          worker  \* each slot's process

config == <<feeds, others>>
cacheManager == <<cycle, isRunning>>
vars == <<config, calm, master, shuttingDown, grace, cacheManager, worker>>

Timers == {"off", "set", "due"}
Alive == {"starting", "up", "draining"}
\* told: a signal has been sent to it and not been handled; busy: it has a
\* request to answer; force: the ten seconds after which it exits regardless.
Proc(at) == [at |-> at, told |-> FALSE, busy |-> FALSE, force |-> "off"]

Procs == [at : Alive \cup {"dead", "respawn", "none"}, told : BOOLEAN, busy : BOOLEAN,
          force : Timers]

Become(w, at) == worker' = [worker EXCEPT ![w] = Proc(at)]
-----------------------------------------------------------------------------
\* initCluster: startMaster runs up to its first await, then the forks.
Init ==
    /\ feeds \in BOOLEAN /\ others \in BOOLEAN /\ calm = FALSE
    /\ master = "boot" /\ shuttingDown = FALSE /\ grace = "off"
    /\ cycle = "off" /\ isRunning = FALSE
    /\ worker = [w \in Workers |-> Proc("starting")]

\* bootstrapAdminKey is over: the tasks are started, the handlers registered.
Booted ==
    /\ master = "boot" /\ master' = "up"
    /\ cycle' = IF feeds THEN "tasks" ELSE "off"
    /\ isRunning' = feeds
    /\ UNCHANGED <<config, calm, shuttingDown, grace, worker>>

\* It rejects: the rest of startMaster is skipped, the process goes on.
BootRejected ==
    /\ ~calm
    /\ master = "boot" /\ master' = "maimed"
    /\ UNCHANGED <<config, calm, shuttingDown, grace, cacheManager, worker>>

\* runAll's tasks have settled, all of them, whatever the outcome.
TasksSettle ==
    /\ master # "gone" /\ cycle = "tasks" /\ cycle' = "cleanups"
    /\ UNCHANGED <<config, calm, master, shuttingDown, grace, isRunning, worker>>

\* A load waits for ever for the lines of a stream that has ended (Feeds!Hang).
TasksHang ==
    /\ master # "gone" /\ cycle = "tasks" /\ cycle' = "hung"
    /\ UNCHANGED <<config, calm, master, shuttingDown, grace, isRunning, worker>>

\* Mutation: an error before the finally leaves the flag set.
CleanupsSettle_Flagged ==
    /\ master # "gone" /\ cycle = "cleanups" /\ cycle' = "waiting"
    /\ UNCHANGED <<config, calm, master, shuttingDown, grace, isRunning, worker>>

\* The next run is scheduled, stopped or not.
CleanupsSettle ==
    /\ master # "gone" /\ cycle = "cleanups" /\ cycle' = "waiting"
    /\ isRunning' = FALSE
    /\ UNCHANGED <<config, calm, master, shuttingDown, grace, worker>>

\* The interval has passed: runAll, which does nothing if one is running.
CycleFires ==
    /\ master # "gone" /\ cycle = "waiting"
    /\ cycle' = IF isRunning THEN "waiting" ELSE "tasks"
    /\ isRunning' = TRUE
    /\ UNCHANGED <<config, calm, master, shuttingDown, grace, worker>>
-----------------------------------------------------------------------------
\* startWorker, which listens and registers its handlers in one stretch.
Listen(w) ==
    /\ worker[w].at = "starting"
    /\ Become(w, "up")
    /\ UNCHANGED <<config, calm, master, shuttingDown, grace, cacheManager>>

Request(w) ==
    /\ worker[w].at = "up" /\ ~worker[w].busy
    /\ worker' = [worker EXCEPT ![w].busy = TRUE]
    /\ UNCHANGED <<config, calm, master, shuttingDown, grace, cacheManager>>

Respond(w) ==
    /\ worker[w].busy
    /\ worker' = [worker EXCEPT ![w].busy = FALSE]
    /\ UNCHANGED <<config, calm, master, shuttingDown, grace, cacheManager>>

\* Mutation: the handler exits without closing the server.
ShutDownWorker_AtOnce(w) ==
    /\ worker[w].at = "up" /\ worker[w].told
    /\ Become(w, "dead")
    /\ UNCHANGED <<config, calm, master, shuttingDown, grace, cacheManager>>

\* gracefulShutdownWorker: no more requests, and a timer for those under way.
ShutDownWorker(w) ==
    /\ worker[w].at = "up" /\ worker[w].told
    /\ worker' = [worker EXCEPT ![w] = [Proc("draining") EXCEPT !.busy = worker[w].busy,
                                                                !.force = "set"]]
    /\ UNCHANGED <<config, calm, master, shuttingDown, grace, cacheManager>>

\* The server has closed: nothing is under way.
Drained(w) ==
    /\ worker[w].at = "draining" /\ ~worker[w].busy
    /\ Become(w, "dead")
    /\ UNCHANGED <<config, calm, master, shuttingDown, grace, cacheManager>>

TenSeconds(w) ==
    /\ worker[w].force = "set"
    /\ worker' = [worker EXCEPT ![w].force = "due"]
    /\ UNCHANGED <<config, calm, master, shuttingDown, grace, cacheManager>>

ForcedExit(w) ==
    /\ worker[w].force = "due"
    /\ Become(w, "dead")
    /\ UNCHANGED <<config, calm, master, shuttingDown, grace, cacheManager>>

\* An uncaught exception.
WorkerDies(w) ==
    /\ ~calm /\ worker[w].at \in Alive
    /\ Become(w, "dead")
    /\ UNCHANGED <<config, calm, master, shuttingDown, grace, cacheManager>>

\* A signal to this worker alone, or to the whole group of processes.
WorkerSignalled(w) ==
    /\ ~calm /\ worker[w].at \in {"starting", "up"}
    /\ IF worker[w].at = "starting" THEN Become(w, "dead")
                                    ELSE worker' = [worker EXCEPT ![w].told = TRUE]
    /\ UNCHANGED <<config, calm, master, shuttingDown, grace, cacheManager>>

\* Mutation: the handler is registered with the others, in startMaster.
NoticeExit_InStartMaster(w) ==
    /\ master # "gone" /\ worker[w].at = "dead"
    /\ Become(w, IF shuttingDown \/ master # "up" THEN "none" ELSE "respawn")
    /\ UNCHANGED <<config, calm, master, shuttingDown, grace, cacheManager>>

\* The master's handler of a worker's "exit".
NoticeExit(w) ==
    /\ master # "gone" /\ worker[w].at = "dead"
    /\ Become(w, IF shuttingDown THEN "none" ELSE "respawn")
    /\ UNCHANGED <<config, calm, master, shuttingDown, grace, cacheManager>>

\* The second has passed: a fork, during a shutdown too.
Respawn(w) ==
    /\ master # "gone" /\ worker[w].at = "respawn"
    /\ Become(w, "starting")
    /\ UNCHANGED <<config, calm, master, shuttingDown, grace, cacheManager>>

\* A worker whose master has gone exits as its channel closes.
Orphaned(w) ==
    /\ master = "gone" /\ worker[w].at # "none"
    /\ Become(w, "none")
    /\ UNCHANGED <<config, calm, master, shuttingDown, grace, cacheManager>>
-----------------------------------------------------------------------------
\* stop: the timer that is set is cleared.
Stopped == IF cycle = "waiting" THEN "off" ELSE cycle

\* A worker that has no handlers yet dies of the signal.
SignalTo(p) == IF p.at = "starting" THEN Proc("dead")
               ELSE IF p.at = "up" THEN [p EXCEPT !.told = TRUE]
               ELSE p

\* Mutation: the workers are told, and shuttingDown left as it was.
ShutDownMaster_NotNoted ==
    /\ master = "up"
    /\ shuttingDown' = FALSE
    /\ grace' = IF grace = "off" THEN "set" ELSE grace
    /\ cycle' = Stopped
    /\ worker' = [w \in Workers |-> SignalTo(worker[w])]
    /\ UNCHANGED <<config, calm, master, isRunning>>

\* gracefulShutdownMaster, also when it has run before.
ShutDownMaster ==
    /\ master = "up"
    /\ shuttingDown' = TRUE
    /\ grace' = IF grace = "off" THEN "set" ELSE grace
    /\ cycle' = Stopped
    /\ worker' = [w \in Workers |-> SignalTo(worker[w])]
    /\ UNCHANGED <<config, calm, master, isRunning>>

\* The signal finds no handler and kills the master, unless it is process 1 of
\* a container, which then never hears of it; an uncaught exception; SIGKILL.
MasterDies ==
    /\ \/ master \in {"boot", "maimed"}
       \/ ~calm /\ master = "up"
    /\ master' = "gone"
    /\ UNCHANGED <<config, calm, shuttingDown, grace, cacheManager, worker>>

GraceEnds ==
    /\ master # "gone" /\ grace = "set" /\ grace' = "due"
    /\ UNCHANGED <<config, calm, master, shuttingDown, cacheManager, worker>>

\* Mutation: the master waits until its workers have gone.
MasterExits_WhenAlone ==
    /\ master # "gone" /\ grace = "due"
    /\ \A w \in Workers : worker[w].at = "none"
    /\ master' = "gone"
    /\ UNCHANGED <<config, calm, shuttingDown, grace, cacheManager, worker>>

MasterExits ==
    /\ master # "gone" /\ grace = "due"
    /\ master' = "gone"
    /\ UNCHANGED <<config, calm, shuttingDown, grace, cacheManager, worker>>

\* Its own timer does not keep the master alive: it ends before when there is
\* no worker, no fork to come, no refresh that waits for anything and no timer.
NothingLeft ==
    /\ master = "up" /\ cycle \in {"off", "hung"} /\ ~others
    /\ \A w \in Workers : worker[w].at = "none"
    /\ master' = "gone"
    /\ UNCHANGED <<config, calm, shuttingDown, grace, cacheManager, worker>>

BecomeCalm ==
    /\ ~calm /\ calm' = TRUE
    /\ UNCHANGED <<config, master, shuttingDown, grace, cacheManager, worker>>
-----------------------------------------------------------------------------
WorkerProceeds(w) ==
    \/ Listen(w) \/ ShutDownWorker(w) \/ Drained(w) \/ TenSeconds(w) \/ ForcedExit(w)
    \/ NoticeExit(w) \/ Respawn(w) \/ Orphaned(w)
MasterProceeds == Booted \/ GraceEnds \/ MasterExits \/ NothingLeft
CycleProceeds == TasksSettle \/ CleanupsSettle \/ CycleFires

Next ==
    \/ \E w \in Workers :
          WorkerProceeds(w) \/ Request(w) \/ Respond(w) \/ WorkerDies(w) \/ WorkerSignalled(w)
    \/ MasterProceeds \/ BootRejected \/ CycleProceeds \/ TasksHang
    \/ ShutDownMaster \/ MasterDies \/ BecomeCalm

Spec == Init /\ [][Next]_vars

\* Timers fire, events are handled, forks start, and the awaits of the master
\* settle, but for a cycle that hangs.
\* Requests need not be answered.
FairSpec ==
    /\ Spec
    /\ \A w \in Workers : WF_vars(WorkerProceeds(w))
    /\ WF_vars(MasterProceeds)
    /\ WF_vars(CycleProceeds)
-----------------------------------------------------------------------------
TypeOK ==
    /\ feeds \in BOOLEAN /\ others \in BOOLEAN /\ calm \in BOOLEAN
    /\ master \in {"boot", "up", "maimed", "gone"}
    /\ shuttingDown \in BOOLEAN /\ grace \in Timers
    /\ cycle \in {"off", "tasks", "cleanups", "waiting", "hung"} /\ isRunning \in BOOLEAN
    /\ worker \in [Workers -> Procs]
    /\ \A w \in Workers :
        /\ worker[w].busy => worker[w].at \in {"up", "draining"}
        /\ worker[w].force # "off" <=> worker[w].at = "draining"
    /\ shuttingDown <=> grace # "off"

\* A shutdown without crashes cuts nothing off before its ten seconds are over:
\* neither a request (index.ts:83-94) nor a refresh of the feeds (index.ts:64-67),
\* though the master ends by itself as soon as it has nothing left to do.
NothingCutEarly ==
    [][calm /\ master = "up" =>
         /\ \A w \in Workers :
              worker[w].busy /\ worker'[w].at = "dead" => worker[w].force = "due"
         /\ master' = "gone" /\ (cycle \in {"tasks", "cleanups"} \/ \E w \in Workers : worker[w].busy)
              => grace = "due"]_vars

\* A shutdown ends with every process gone, with a worker too that was forked
\* during it and is never told (cluster.ts:34), and with a refresh that schedules
\* the next one after stop (CacheManager.ts:25).
ShutdownEnds == shuttingDown ~> master = "gone" /\ \A w \in Workers : worker[w].at = "none"

\* Until a shutdown or the end of the master every worker that dies is replaced,
\* whether or not the rest of the master was set up (cluster.ts:28-35).
CapacityComesBack ==
    calm ~> \/ shuttingDown \/ master = "gone"
            \/ \A w \in Workers : worker[w].at = "up"

\* A master that is up and is not shut down refreshes the feeds again and again,
\* whatever fails in a cycle (CacheManager.ts:30-31, 65-67), unless a cycle hangs:
\* nothing bounds the time of a load (CacheManager.ts:44).
RefreshesForever ==
    <>[](feeds /\ master = "up" /\ ~shuttingDown /\ cycle # "hung") =>
        []<>(cycle = "tasks") /\ []<>(cycle = "waiting")
=============================================================================
