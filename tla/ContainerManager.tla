-------------------------- MODULE ContainerManager --------------------------
(***************************************************************************)
(* The warm pool of disposable sandbox containers kept by the runner       *)
(* (backend/soj_runner/container_manager.py), together with the threads    *)
(* that call it and the Docker daemon it talks to.                         *)
(*                                                                         *)
(* A worker thread of the execution pool leases a container, lets one      *)
(* command run in it, destroys it and creates a replacement.  The lifespan *)
(* thread Main fills the pool at startup and empties it at shutdown.  A    *)
(* step is what a thread does while it holds self.lock, or one Docker      *)
(* call; _create_shutdown_lock and _cleanup_lock are held across steps and *)
(* are explicit.  A failing Docker call may or may not have taken effect,  *)
(* and a create whose answer was lost may take effect later.               *)
(***************************************************************************)
EXTENDS Naturals, FiniteSets

CONSTANTS
    Workers,         \* threads of ShellgeiDockerClient.executor
    Main,            \* the thread that runs the FastAPI lifespan
    Names,           \* container names (uuid4; recycled once unreferenced)
    PoolSize,        \* pool_size
    WaitForWorkers,  \* docker_client.close() precedes shutdown_pool()
    MaxFaults,       \* bound: failing Docker calls in a behaviour
    MaxRestarts,     \* bound: crashes and restarts of the runner
    None             \* no thread, no container

ASSUME PoolSizeAssumption == PoolSize \in Nat \ {0}
ASSUME WorkersAssumption == Main \notin Workers /\ None \notin Workers \cup {Main}
\* ShellgeiDockerClient() lets its executor have pool_size threads at most.
ASSUME ExecutorAssumption == IsFiniteSet(Workers) /\ Cardinality(Workers) <= PoolSize
ASSUME NamesAssumption == IsFiniteSet(Names) /\ None \notin Names
ASSUME BoundsAssumption == MaxFaults \in Nat /\ MaxRestarts \in Nat
ASSUME ModeAssumption == WaitForWorkers \in BOOLEAN

VARIABLES
    pc,           \* where each thread is
    op,           \* the manager method each thread is in
    at,           \* the container each thread has in hand
    todo,         \* Main's list of containers still to kill or remove
    createLock,   \* owner of _create_shutdown_lock
    cleanupLock,  \* owner of _cleanup_lock
    slots,        \* value of the bounded semaphore _slots
    managed,      \* _managed: containers known to exist
    pending,      \* _pending_names: names whose creation is in doubt
    pool,         \* pool: containers ready to be leased
    flags,        \* the boolean attributes that are set
    daemon,       \* what the Docker daemon has under each name
    used,         \* containers a command has been let into
    faults,       \* failing Docker calls so far
    restarts      \* crashes and restarts so far

threadVars == <<pc, op, at, todo>>
lockVars   == <<createLock, cleanupLock>>
bookVars   == <<slots, managed, pending, pool, flags>>
worldVars  == <<daemon, used, faults, restarts>>
vars       == <<threadVars, lockVars, bookVars, worldVars>>

Threads == Workers \cup {Main}

PCs == {"idle", "create", "creating", "undo", "forget_pending", "start", "add",
        "cleanup", "forget", "unslot", "degrade", "busy", "replenish",
        "boot", "reconcile", "fill", "abort", "serving", "killing", "sweep",
        "stopped"}

Methods == {"none", "get_container", "create_and_add", "release_container",
            "shutdown_pool"}

Flags == {"image_validated", "initialized", "degraded", "shutting_down"}

\* "requested": the create was sent, its answer was lost, it may still apply.
DaemonStates == {"absent", "requested", "created", "running", "exited"}

Exists(n) == daemon[n] \in {"created", "running", "exited"}
Running == {n \in Names : daemon[n] = "running"}
ShuttingDown == "shutting_down" \in flags

IsReady == /\ flags = {"image_validated", "initialized"}
           /\ Cardinality(managed) = PoolSize
           /\ pending = {}

\* Names nobody refers to: a uuid4 is new every time.
FreshNames == {n \in Names : /\ daemon[n] = "absent"
                             /\ n \notin managed \cup pending \cup todo
                             /\ \A t \in Threads : at[t] # n}

TypeOK ==
    /\ pc \in [Threads -> PCs]
    /\ op \in [Threads -> Methods]
    /\ at \in [Threads -> Names \cup {None}]
    /\ todo \subseteq Names
    /\ createLock \in Threads \cup {None}
    /\ cleanupLock \in Threads \cup {None}
    /\ slots \in Nat
    /\ managed \subseteq Names
    /\ pending \subseteq Names
    /\ pool \subseteq Names
    /\ flags \subseteq Flags
    /\ daemon \in [Names -> DaemonStates]
    /\ used \subseteq Names
    /\ faults \in Nat
    /\ restarts \in Nat

BootPC == [t \in Threads |-> IF t = Main THEN "boot" ELSE "idle"]

Init ==
    /\ pc = BootPC
    /\ op = [t \in Threads |-> "none"]
    /\ at = [t \in Threads |-> None]
    /\ createLock = None /\ cleanupLock = None
    /\ slots = PoolSize
    /\ todo = {} /\ managed = {} /\ pending = {} /\ pool = {} /\ flags = {}
    /\ used = {}
    /\ daemon = [n \in Names |-> "absent"]
    /\ faults = 0 /\ restarts = 0

-----------------------------------------------------------------------------
Goto(t, label) == pc' = [pc EXCEPT ![t] = label]

\* A Docker call that raises anything but NotFound.
Fault == faults < MaxFaults /\ faults' = faults + 1

\* What a failed forced removal may leave behind.
Leftover(n) == {daemon[n]} \cup (IF Exists(n) THEN {"absent"} ELSE {})
                           \cup (IF daemon[n] = "running" THEN {"exited"} ELSE {})

\* An exception leaves get_container and release_container through
\* _mark_degraded, initialize_pool through shutdown_pool.
Raise(t) == Goto(t, IF t = Main THEN "abort" ELSE "degrade")

UnlockForgotten(lock, t) == lock  \* mutant: a path that leaves without unlocking
Unlock(lock, t) == IF lock = t THEN None ELSE lock

SlotAssumed == TRUE               \* mutant: the semaphore is not consulted
SlotAvailable == slots > 0

\* get_container.  During shutdown it raises and the worker stays idle.
GetContainer(w) ==
    /\ pc[w] = "idle"
    /\ pc[Main] = "serving"
    /\ op' = [op EXCEPT ![w] = "get_container"]
    /\ \/ \E n \in pool : /\ pool' = pool \ {n}
                          /\ at' = [at EXCEPT ![w] = n]
                          /\ used' = used \cup {n}
                          /\ Goto(w, "busy")
       \/ /\ pool = {}
          /\ Goto(w, "create")
          /\ UNCHANGED <<pool, at, used>>
    /\ UNCHANGED <<todo, lockVars, slots, managed, pending, flags, daemon,
                   faults, restarts>>

\* _create_container up to the entry in _pending_names.
ReserveName(t) ==
    /\ pc[t] = "create"
    /\ createLock = None
    /\ \/ \* shutting down, or the image could not be validated
          /\ \/ ShuttingDown /\ UNCHANGED faults
             \/ ~ShuttingDown /\ "image_validated" \notin flags /\ Fault
          /\ Raise(t)
          /\ UNCHANGED <<at, createLock, slots, pending, flags, used>>
       \/ \* ContainerCapacityError
          /\ ~ShuttingDown
          /\ ~SlotAvailable
          /\ IF op[t] = "get_container" THEN Goto(t, "idle") ELSE Raise(t)
          /\ UNCHANGED <<at, createLock, slots, pending, flags, used, faults>>
       \/ /\ ~ShuttingDown
          /\ SlotAvailable
          /\ \E n \in FreshNames : /\ pending' = pending \cup {n}
                                   /\ at' = [at EXCEPT ![t] = n]
                                   /\ used' = used \ {n}
          /\ slots' = slots - 1
          /\ flags' = flags \cup {"image_validated"}
          /\ createLock' = t
          /\ Goto(t, "creating")
          /\ UNCHANGED faults
    /\ UNCHANGED <<op, todo, cleanupLock, managed, pool, daemon, restarts>>

\* containers.create and the inspection of its mounts.
DockerCreate(t) ==
    /\ pc[t] = "creating"
    /\ \/ /\ daemon' = [daemon EXCEPT ![at[t]] = "created"]
          /\ pending' = pending \ {at[t]}
          /\ managed' = managed \cup {at[t]}
          /\ Goto(t, "start")
          /\ UNCHANGED faults
       \/ /\ Fault
          /\ \E s \in {"absent", "requested", "created"} :
                daemon' = [daemon EXCEPT ![at[t]] = s]
          /\ Goto(t, "undo")
          /\ UNCHANGED <<pending, managed>>
    /\ UNCHANGED <<op, at, todo, lockVars, slots, pool, flags, used, restarts>>

\* _cleanup_pending_container(accept_not_found=False): a name that is not
\* found may still appear, so it stays in _pending_names.
UndoCreate(t) ==
    /\ pc[t] = "undo"
    /\ cleanupLock = None
    /\ \/ /\ Exists(at[t])
          /\ daemon' = [daemon EXCEPT ![at[t]] = "absent"]
          /\ Goto(t, "forget_pending")
          /\ UNCHANGED <<createLock, faults>>
       \/ /\ \/ ~Exists(at[t]) /\ UNCHANGED <<daemon, faults>>
             \/ Fault /\ \E s \in Leftover(at[t]) : daemon' = [daemon EXCEPT ![at[t]] = s]
          /\ Raise(t)
          /\ createLock' = None
    /\ UNCHANGED <<op, at, todo, cleanupLock, bookVars, used, restarts>>

SlotsKept(t) == slots             \* mutant: the name goes, its slot does not
SlotsWithoutName(t) == IF at[t] \in pending THEN slots + 1 ELSE slots

\* _forget_pending_name.
ForgetPendingName(t) ==
    /\ pc[t] = "forget_pending"
    /\ pending' = pending \ {at[t]}
    /\ slots' = SlotsWithoutName(t)
    /\ IF op[t] = "shutdown_pool" THEN Goto(t, "sweep") ELSE Raise(t)
    /\ createLock' = Unlock(createLock, t)
    /\ UNCHANGED <<op, at, todo, cleanupLock, managed, pool, flags, worldVars>>

\* container.start and the check of the cgroup limits.
StartContainer(t) ==
    /\ pc[t] = "start"
    /\ \/ /\ daemon' = [daemon EXCEPT ![at[t]] = "running"]
          /\ createLock' = None
          /\ IF op[t] = "get_container"
             THEN Goto(t, "busy") /\ used' = used \cup {at[t]}
             ELSE Goto(t, "add") /\ UNCHANGED used
          /\ UNCHANGED faults
       \/ /\ Fault
          /\ \E s \in {"created", "running"} : daemon' = [daemon EXCEPT ![at[t]] = s]
          /\ Goto(t, "cleanup")
          /\ UNCHANGED <<createLock, used>>
    /\ UNCHANGED <<op, at, todo, cleanupLock, bookVars, restarts>>

\* mutant: the flag is not read again.
AddRegardless(t) ==
    /\ pc[t] = "add"
    /\ pool' = pool \cup {at[t]}
    /\ at' = [at EXCEPT ![t] = None]
    /\ Goto(t, IF t = Main THEN "fill" ELSE "idle")
    /\ UNCHANGED <<op, todo, lockVars, slots, managed, pending, flags, worldVars>>

\* The end of _create_and_add: shutdown may have begun meanwhile.
AddToPool(t) ==
    /\ pc[t] = "add"
    /\ IF ShuttingDown
       THEN Goto(t, "cleanup") /\ UNCHANGED <<pool, at>>
       ELSE /\ pool' = pool \cup {at[t]}
            /\ at' = [at EXCEPT ![t] = None]
            /\ Goto(t, IF t = Main THEN "fill" ELSE "idle")
    /\ UNCHANGED <<op, todo, lockVars, slots, managed, pending, flags, worldVars>>

-----------------------------------------------------------------------------
\* Where the caller of _cleanup_container goes on.
AfterCleanup(t, removed) ==
    /\ IF op[t] = "shutdown_pool" THEN Goto(t, "sweep")
       ELSE IF op[t] = "release_container" /\ removed THEN Goto(t, "replenish")
       ELSE Raise(t)
    /\ createLock' = Unlock(createLock, t)

\* _cleanup_container: kill, then forced removal, under _cleanup_lock.  A
\* container that is already gone counts as removed.
RemoveContainer(t) ==
    /\ pc[t] = "cleanup"
    /\ cleanupLock = None
    /\ \/ /\ daemon' = [daemon EXCEPT ![at[t]] = "absent"]
          /\ cleanupLock' = t
          /\ Goto(t, "forget")
          /\ UNCHANGED <<createLock, faults>>
       \/ /\ Fault
          /\ \E s \in Leftover(at[t]) : daemon' = [daemon EXCEPT ![at[t]] = s]
          /\ AfterCleanup(t, FALSE)
          /\ UNCHANGED cleanupLock
    /\ UNCHANGED <<op, at, todo, bookVars, used, restarts>>

\* mutant: the slot is returned whether or not the entry was still there.
ForgetUnchecked(t) ==
    /\ pc[t] = "forget"
    /\ managed' = managed \ {at[t]}
    /\ Goto(t, "unslot")
    /\ UNCHANGED <<op, at, todo, lockVars, slots, pending, pool, flags, worldVars>>

\* _forget_removed_container: the entry goes under self.lock ...
ForgetRemoved(t) ==
    /\ pc[t] = "forget"
    /\ managed' = managed \ {at[t]}
    /\ IF at[t] \in managed
       THEN Goto(t, "unslot") /\ UNCHANGED lockVars
       ELSE AfterCleanup(t, TRUE) /\ cleanupLock' = Unlock(cleanupLock, t)
    /\ UNCHANGED <<op, at, todo, slots, pending, pool, flags, worldVars>>

\* ... and the slot after it, still under _cleanup_lock.
ReturnSlot(t) ==
    /\ pc[t] = "unslot"
    /\ slots' = slots + 1
    /\ AfterCleanup(t, TRUE)
    /\ cleanupLock' = Unlock(cleanupLock, t)
    /\ UNCHANGED <<op, at, todo, managed, pending, pool, flags, worldVars>>

\* mutant: the container goes back to the pool.
ReturnToPool(w) ==
    /\ pc[w] = "busy"
    /\ pool' = pool \cup {at[w]}
    /\ at' = [at EXCEPT ![w] = None]
    /\ Goto(w, "idle")
    /\ UNCHANGED <<op, todo, lockVars, slots, managed, pending, flags, worldVars>>

\* release_container.  The execution has ended; SandboxCleanup.stop may have
\* killed the container already.
ReleaseContainer(w) ==
    /\ pc[w] = "busy"
    /\ op' = [op EXCEPT ![w] = "release_container"]
    /\ Goto(w, "cleanup")
    /\ \/ UNCHANGED daemon
       \/ daemon[at[w]] = "running" /\ daemon' = [daemon EXCEPT ![at[w]] = "exited"]
    /\ UNCHANGED <<at, todo, lockVars, bookVars, used, faults, restarts>>

\* The second half of release_container, once the container is gone.
Replenish(w) ==
    /\ pc[w] = "replenish"
    /\ at' = [at EXCEPT ![w] = None]
    /\ op' = [op EXCEPT ![w] = "create_and_add"]
    /\ Goto(w, IF ShuttingDown THEN "idle" ELSE "create")
    /\ UNCHANGED <<todo, lockVars, bookVars, worldVars>>

FlagsUnmarked == flags            \* mutant: the failure is not recorded
DegradedFlags == IF ShuttingDown THEN flags ELSE flags \cup {"degraded"}

\* _mark_degraded.
MarkDegraded(w) ==
    /\ pc[w] = "degrade"
    /\ flags' = DegradedFlags
    /\ at' = [at EXCEPT ![w] = None]
    /\ Goto(w, "idle")
    /\ UNCHANGED <<op, todo, lockVars, slots, managed, pending, pool, worldVars>>

-----------------------------------------------------------------------------
NoStale == {}                     \* mutant: the list is filtered by instance
StaleContainers == {n \in Names : Exists(n)}

\* _reconcile_stale_containers lists what an earlier process left ...
ListStale ==
    /\ pc[Main] = "boot"
    /\ \/ /\ todo' = StaleContainers
          /\ Goto(Main, "reconcile")
          /\ UNCHANGED faults
       \/ Fault /\ Raise(Main) /\ UNCHANGED todo
    /\ UNCHANGED <<op, at, lockVars, bookVars, daemon, used, restarts>>

\* ... and removes each of it, or startup fails.
RemoveStale(n) ==
    /\ pc[Main] = "reconcile"
    /\ n \in todo
    /\ cleanupLock = None
    /\ \/ /\ daemon' = [daemon EXCEPT ![n] = "absent"]
          /\ todo' = todo \ {n}
          /\ UNCHANGED <<pc, faults>>
       \/ /\ Fault
          /\ \E s \in Leftover(n) : daemon' = [daemon EXCEPT ![n] = s]
          /\ Raise(Main)
          /\ UNCHANGED todo
    /\ UNCHANGED <<op, at, lockVars, bookVars, used, restarts>>

\* The loop of initialize_pool.
FillPool ==
    /\ pc[Main] \in {"reconcile", "fill"}
    /\ todo = {}
    /\ IF Cardinality(pool) < PoolSize
       THEN /\ Goto(Main, "create")
            /\ op' = [op EXCEPT ![Main] = "create_and_add"]
            /\ UNCHANGED flags
       ELSE /\ Goto(Main, "serving")
            /\ flags' = flags \cup {"initialized"}
            /\ UNCHANGED op
    /\ UNCHANGED <<at, todo, lockVars, slots, managed, pending, pool, worldVars>>

\* begin_shutdown, called when serving ends or startup has failed.
BeginShutdown ==
    /\ pc[Main] \in {"serving", "abort"}
    /\ createLock = None
    /\ flags' = flags \cup {"shutting_down"}
    /\ todo' = managed
    /\ pool' = {}
    /\ at' = [at EXCEPT ![Main] = None]
    /\ Goto(Main, "killing")
    /\ UNCHANGED <<op, lockVars, slots, managed, pending, worldVars>>

\* Its loop: kill to unblock the executions; a failure is only logged.
KillManaged(n) ==
    /\ pc[Main] = "killing"
    /\ n \in todo
    /\ cleanupLock = None
    /\ todo' = todo \ {n}
    /\ \/ /\ daemon' = [daemon EXCEPT ![n] = IF @ = "running" THEN "exited" ELSE @]
          /\ UNCHANGED faults
       \/ Fault /\ UNCHANGED daemon
    /\ UNCHANGED <<pc, op, at, lockVars, bookVars, used, restarts>>

PoolOnly == pool                  \* mutant: only idle containers are removed
Remaining == managed \cup pending

\* docker_client.close() (under WaitForWorkers), then the snapshot shutdown_pool takes.
ListRemaining ==
    /\ pc[Main] = "killing"
    /\ todo = {}
    /\ WaitForWorkers => \A w \in Workers : pc[w] = "idle"
    /\ createLock = None
    /\ todo' = Remaining
    /\ op' = [op EXCEPT ![Main] = "shutdown_pool"]
    /\ Goto(Main, "sweep")
    /\ UNCHANGED <<at, lockVars, bookVars, worldVars>>

\* One container of shutdown_pool's first loop.
SweepManaged(n) ==
    /\ pc[Main] = "sweep"
    /\ n \in todo \ pending
    /\ todo' = todo \ {n}
    /\ at' = [at EXCEPT ![Main] = n]
    /\ Goto(Main, "cleanup")
    /\ UNCHANGED <<op, lockVars, bookVars, worldVars>>

\* One name of its second loop: here a name that is not found is accepted.
SweepPending(n) ==
    /\ pc[Main] = "sweep"
    /\ todo \subseteq pending
    /\ n \in todo
    /\ cleanupLock = None
    /\ todo' = todo \ {n}
    /\ at' = [at EXCEPT ![Main] = n]
    /\ \/ /\ daemon' = [daemon EXCEPT ![n] = IF Exists(n) THEN "absent" ELSE @]
          /\ Goto(Main, "forget_pending")
          /\ UNCHANGED faults
       \/ /\ Fault
          /\ \E s \in Leftover(n) : daemon' = [daemon EXCEPT ![n] = s]
          /\ UNCHANGED pc
    /\ UNCHANGED <<op, lockVars, bookVars, used, restarts>>

Stop ==
    /\ pc[Main] = "sweep"
    /\ todo = {}
    /\ at' = [at EXCEPT ![Main] = None]
    /\ Goto(Main, "stopped")
    /\ UNCHANGED <<op, todo, lockVars, bookVars, worldVars>>

-----------------------------------------------------------------------------
\* A create whose answer was lost takes effect.
LateCreate(n) ==
    /\ daemon[n] = "requested"
    /\ daemon' = [daemon EXCEPT ![n] = "created"]
    /\ UNCHANGED <<threadVars, lockVars, bookVars, used, faults, restarts>>

\* The process dies (or has stopped) and is started again.  The daemon lives
\* on, and with it a create that was under way.
Restart ==
    /\ restarts < MaxRestarts
    /\ restarts' = restarts + 1
    /\ pc' = BootPC
    /\ op' = [t \in Threads |-> "none"]
    /\ at' = [t \in Threads |-> None]
    /\ createLock' = None /\ cleanupLock' = None
    /\ slots' = PoolSize
    /\ todo' = {} /\ managed' = {} /\ pending' = {} /\ pool' = {} /\ flags' = {}
    /\ \/ UNCHANGED daemon
       \/ \E t \in Threads : /\ pc[t] = "creating"
                             /\ daemon' = [daemon EXCEPT ![at[t]] = "requested"]
    /\ UNCHANGED <<used, faults>>

Stopped ==
    /\ pc[Main] = "stopped"
    /\ \A w \in Workers : pc[w] = "idle"
    /\ UNCHANGED vars

\* Creation and removal are shared by the workers and the lifespan thread.
ThreadStep(t) ==
    \/ ReserveName(t) \/ DockerCreate(t) \/ UndoCreate(t) \/ ForgetPendingName(t)
    \/ StartContainer(t) \/ AddToPool(t)
    \/ RemoveContainer(t) \/ ForgetRemoved(t) \/ ReturnSlot(t)

WorkerStep(w) ==
    \/ ThreadStep(w) \/ ReleaseContainer(w) \/ Replenish(w) \/ MarkDegraded(w)

ShutdownStep ==
    \/ \E n \in Names : KillManaged(n) \/ SweepManaged(n) \/ SweepPending(n)
    \/ ListRemaining \/ Stop

MainStep ==
    \/ ThreadStep(Main)
    \/ ListStale \/ FillPool \/ \E n \in Names : RemoveStale(n)
    \/ pc[Main] = "abort" /\ BeginShutdown
    \/ ShutdownStep

Next ==
    \/ \E w \in Workers : GetContainer(w) \/ WorkerStep(w)
    \/ MainStep
    \/ pc[Main] = "serving" /\ BeginShutdown
    \/ \E n \in Names : LateCreate(n)
    \/ Restart
    \/ Stopped

Spec == Init /\ [][Next]_vars

\* Threads that have work left are scheduled, every Docker call answers or
\* times out, and the watchdog ends every execution.  Stopping, restarting and
\* new requests are nobody's obligation.
Fairness ==
    /\ WF_vars(MainStep)
    /\ \A w \in Workers : WF_vars(WorkerStep(w))

FairSpec == Spec /\ Fairness

-----------------------------------------------------------------------------
(***************************************************************************)
(* Safety.                                                                 *)
(***************************************************************************)
InTransit == {t \in Threads : pc[t] = "unslot"}

\* A slot is free, or stands for one managed container or one name in doubt,
\* or is about to be returned: none is lost by an error path and none is
\* returned twice when release_container and shutdown_pool remove the same
\* container (_forget_removed_container, _forget_pending_name).
SlotLedger ==
    slots + Cardinality(managed) + Cardinality(pending) + Cardinality(InTransit)
        = PoolSize

\* The daemon never runs more sandboxes than pool_size, whatever calls fail,
\* take effect late or are cut off by a crash.
RunningBound == Cardinality(Running) <= PoolSize

\* Once startup has cleared what an earlier process left, and until shutdown
\* begins, every running sandbox is one this process keeps account of.
RunningIsManaged ==
    (~ShuttingDown /\ pc[Main] \notin {"boot", "reconcile", "abort"})
        => Running \subseteq managed

\* A container in the pool has never served a command, and a container in a
\* thread's hands is in nobody else's and not in the pool.
LeasesAreFresh ==
    /\ pool \cap used = {}
    /\ \A w \in Workers : pc[w] = "busy" =>
          /\ at[w] \notin pool
          /\ \A t \in Threads \ {w} : at[t] # at[w] \/ t = Main

\* is_ready counts containers without looking at them; when it says yes, each
\* of them is in the pool or in the hands of a worker.  And while the pool is
\* serving and not degraded every idle worker finds a container in it:
\* get_container creates one itself only when degraded.
HealthyPoolServesEveryWorker ==
    /\ IsReady => managed \subseteq pool \cup {at[w] : w \in Workers}
    /\ (pc[Main] = "serving" /\ "degraded" \notin flags)
          => pool # {} \/ \A w \in Workers : pc[w] # "idle"

\* When no Docker call failed, shutdown leaves nothing behind in the books,
\* and in the daemon at most the unstarted container of a create that a crash
\* cut off, even if release_container was under way (or startup failed).
CleanStop ==
    (pc[Main] = "stopped" /\ faults = 0)
        => /\ managed = {} /\ pending = {}
           /\ \A n \in Names : daemon[n] \notin {"running", "exited"}
           /\ restarts = 0 => \A n \in Names : daemon[n] = "absent"

\* After begin_shutdown the process starts nothing, and what it manages only
\* shrinks: a creation in progress ends before the flag is set, a later one
\* sees it.
QuietShutdown ==
    [][(ShuttingDown /\ ShuttingDown') =>
          /\ managed' \subseteq managed
          /\ pending' \subseteq pending
          /\ pool' = {}
          /\ Running' \subseteq Running]_vars

(***************************************************************************)
(* Refinement.                                                             *)
(***************************************************************************)
\* The manager as its callers see it.
leasePhase == IF ShuttingDown THEN "closed"
              ELSE IF "initialized" \in flags THEN "open" ELSE "starting"
leaseOf == [w \in Workers |-> IF pc[w] = "busy" THEN at[w] ELSE None]
leaseSpent == {n \in used : Exists(n) /\ \A w \in Workers : leaseOf[w] # n}

Lease == INSTANCE SandboxLease
            WITH phase <- leasePhase, ready <- pool, leased <- leaseOf, spent <- leaseSpent

\* Through failing calls, crashes and shutdown the manager keeps its promise:
\* fresh, exclusive sandboxes, used once, bounded, and none after closing
\* (get_container, release_container, begin_shutdown).
ImplementsLease == Lease!Spec

(***************************************************************************)
(* Liveness.                                                               *)
(***************************************************************************)
\* Startup comes to serving or gives up, and a shutdown comes to its end,
\* whatever the workers create, remove or mark meanwhile: nobody waits for ever
\* for one of the three locks (initialize_pool, begin_shutdown, shutdown_pool).
\* A shutdown counts from where begin_shutdown has its lock and sets the flag;
\* that it cannot wait for that lock in a deadlock is what TLC's check for
\* deadlocks says.
LifespanSettles ==
    /\ pc[Main] = "boot" ~> pc[Main] \in {"serving", "stopped"}
    /\ ShuttingDown ~> pc[Main] \in {"stopped", "boot"}
=============================================================================
