---------------------------- MODULE ExecutionLog ----------------------------
(***************************************************************************)
(* How the backend stores execution logs: the bounded save executor        *)
(* (_ExecutionLogExecutor and save_execution_log_async in                  *)
(* backend/soj_backend/execution_log_repository.py), the transaction of    *)
(* ExecutionLogRepo.save, and retention by age and id window               *)
(* (execution_log_retention.py), against PostgreSQL at READ COMMITTED.     *)
(*                                                                         *)
(* A request's coroutine submits without a break; the save runs in a       *)
(* worker thread, one step per SQL statement.  A statement sees the        *)
(* committed rows and its own; ids come from a sequence that a rollback    *)
(* does not turn back.  A DELETE picks its rows when it starts, waits for  *)
(* the transactions that deleted some of them first, and then deletes what *)
(* is left.                                                                *)
(***************************************************************************)
EXTENDS Integers, FiniteSets

CONSTANTS
    Requests,     \* submissions, one save each, in order of arrival
    Capacity,     \* EXECUTION_LOG_WORKER_CAPACITY
    MaxRows,      \* EXECUTION_LOG_MAX_ROWS
    MaxFaults,    \* bound: failing database calls and thread starts
    MaxRestarts,  \* bound: process starts after the first
    MaxExpired    \* bound: rows that reach the retention age

ASSUME CapacityAssumption == Capacity \in Nat \ {0} /\ MaxRows \in Nat \ {0}
ASSUME RequestsAssumption == Requests \subseteq Nat /\ IsFiniteSet(Requests)
ASSUME BoundsAssumption == MaxFaults \in Nat /\ MaxRestarts \in Nat /\ MaxExpired \in Nat

VARIABLES
    phase,     \* of the backend process
    request,   \* state of each request's coroutine
    save,      \* state of each request's work item in the executor
    tx,        \* id, newest visible id and rows to delete of each transaction
    slots,     \* value of _slots
    holders,   \* requests whose done callback has yet to release a slot
    closing,   \* _closing
    threads,   \* worker threads started
    rows,      \* committed ids in the table
    nextId,    \* the id sequence
    expired,   \* ids of rows older than the retention age
    stored,    \* history: ids whose transaction committed
    faults, restarts

executorVars == <<slots, holders, closing, threads>>
tableVars    == <<rows, nextId, expired, stored>>
vars == <<phase, request, save, tx, executorVars, tableVars, faults, restarts>>

InThread   == {"insert", "select", "delete", "lock", "commit", "rollback"}
Unfinished == {"queued"} \cup InThread

Busy == {r \in Requests : save[r] \in InThread}
\* What a thread still does after its save is done: the callback.
Returning == {r \in holders : save[r] \in {"saved", "failed"}}

NoTx == [id |-> 0, newest |-> 0, victims |-> {}]
\* A transaction that is over; its id is what a save that commits returns.
Over(r) == [NoTx EXCEPT !.id = tx[r].id]

\* Requests are numbered in the order they arrive.
Arrives(r) == request[r] = "new" /\ \A q \in Requests : q < r => request[q] # "new"

Init ==
    /\ phase = "starting"
    /\ request = [r \in Requests |-> "new"]
    /\ save = [r \in Requests |-> "none"]
    /\ tx = [r \in Requests |-> NoTx]
    /\ slots = Capacity /\ holders = {} /\ closing = FALSE /\ threads = 0
    /\ rows = {} /\ nextId = 1 /\ expired = {} /\ stored = {}
    /\ faults = 0 /\ restarts = 0

Fault == faults < MaxFaults /\ faults' = faults + 1

Newest(ids) == CHOOSE n \in ids \cup {0} : \A m \in ids : m <= n
\* mutant: one row more is kept.
OneMoreKept(ids, newest) == {n \in ids : n \in expired \/ n < newest - MaxRows}
\* The delete conditions of prune_execution_logs.
Outside(ids, newest) == {n \in ids : n \in expired \/ n < newest - MaxRows + 1}

-----------------------------------------------------------------------------
(***************************************************************************)
(* The coroutine (event loop thread).                                      *)
(***************************************************************************)
\* _ExecutionLogExecutor.submit refuses.
Refuse(r) ==
    /\ phase \in {"serving", "stopping"} /\ Arrives(r)
    /\ closing \/ slots = 0
    /\ request' = [request EXCEPT ![r] = "unavailable"]
    /\ UNCHANGED <<phase, save, tx, executorVars, tableVars, faults, restarts>>

\* Accepted: the executor uses an idle thread, or starts one.
Submit(r) ==
    /\ phase = "serving" /\ Arrives(r)
    /\ ~closing /\ slots > 0
    /\ slots' = slots - 1
    /\ holders' = holders \cup {r}
    /\ threads' \in {threads, threads + 1} \cap 1..Capacity
    /\ save' = [save EXCEPT ![r] = "queued"]
    /\ request' = [request EXCEPT ![r] = "waiting"]
    /\ UNCHANGED <<phase, tx, closing, tableVars, faults, restarts>>

\* mutant: the executor keeps accepting.
StaysOpen == closing
ClosingAfterFailure == TRUE
\* The thread cannot be started; the work item is in the queue.
SubmitRaises(r) ==
    /\ phase = "serving" /\ Arrives(r)
    /\ ~closing /\ slots > 0 /\ threads < Capacity
    /\ Fault
    /\ closing' = ClosingAfterFailure
    /\ save' = [save EXCEPT ![r] = "queued"]
    /\ request' = [request EXCEPT ![r] = "unavailable"]
    /\ UNCHANGED <<phase, tx, slots, holders, threads, tableVars, restarts>>

\* wait_for_thread_future returns or raises what the save did.
Answer(r) ==
    /\ phase \in {"serving", "stopping"} /\ request[r] = "waiting"
    /\ \/ save[r] = "saved" /\ request' = [request EXCEPT ![r] = "saved"]
       \/ save[r] = "failed" /\ request' = [request EXCEPT ![r] = "unavailable"]
    /\ UNCHANGED <<phase, save, tx, executorVars, tableVars, faults, restarts>>

\* mutant: the slot is returned with the request.
CancelReleases(r) ==
    /\ phase = "serving" /\ request[r] = "waiting"
    /\ request' = [request EXCEPT ![r] = "cancelled"]
    /\ slots' = slots + 1
    /\ UNCHANGED <<phase, save, tx, holders, closing, threads, tableVars, faults, restarts>>

\* The client has gone.  The accepted save goes on.
Cancel(r) ==
    /\ phase = "serving" /\ request[r] = "waiting"
    /\ request' = [request EXCEPT ![r] = "cancelled"]
    /\ UNCHANGED <<phase, save, tx, executorVars, tableVars, faults, restarts>>

-----------------------------------------------------------------------------
(***************************************************************************)
(* The worker thread: ExecutionLogRepo.save.                               *)
(***************************************************************************)
\* A thread takes the work item.
Take(r) ==
    /\ save[r] = "queued"
    /\ Cardinality(Busy \cup Returning) < threads
    /\ save' = [save EXCEPT ![r] = "insert"]
    /\ UNCHANGED <<phase, request, tx, executorVars, tableVars, faults, restarts>>

\* A statement, or the wait for a lock, ends in an error or a timeout.
StatementFails(r) ==
    /\ save[r] \in InThread \ {"rollback", "commit"}
    /\ Fault
    /\ tx' = [tx EXCEPT ![r].victims = {}]
    /\ save' = [save EXCEPT ![r] = "rollback"]
    /\ UNCHANGED <<phase, request, executorVars, tableVars, restarts>>

\* db.add and the flush of prune_execution_logs.
Insert(r) ==
    /\ save[r] = "insert"
    /\ tx' = [tx EXCEPT ![r].id = nextId]
    /\ nextId' = nextId + 1
    /\ save' = [save EXCEPT ![r] = "select"]
    /\ UNCHANGED <<phase, request, executorVars, rows, expired, stored, faults, restarts>>

Visible(r) == rows \cup {tx[r].id}

\* select max(id).
SelectNewest(r) ==
    /\ save[r] = "select"
    /\ tx' = [tx EXCEPT ![r].newest = Newest(Visible(r))]
    /\ save' = [save EXCEPT ![r] = "delete"]
    /\ UNCHANGED <<phase, request, executorVars, tableVars, faults, restarts>>

\* The DELETE starts: its snapshot.
StartDelete(r) ==
    /\ save[r] = "delete"
    /\ tx' = [tx EXCEPT ![r].victims = Outside(Visible(r), tx[r].newest)]
    /\ save' = [save EXCEPT ![r] = "lock"]
    /\ UNCHANGED <<phase, request, executorVars, tableVars, faults, restarts>>

\* mutant: the deletion is committed on its own.
DeleteAtOnce(r) ==
    /\ save[r] = "lock"
    /\ rows' = rows \ tx[r].victims
    /\ save' = [save EXCEPT ![r] = "commit"]
    /\ UNCHANGED <<phase, request, tx, executorVars, nextId, expired, stored, faults, restarts>>

\* Rows deleted by transactions that have not ended.
LockedByOthers(r) ==
    UNION {tx[s].victims : s \in {q \in Requests \ {r} : save[q] \in {"commit", "rollback"}}}

\* It has got the locks; rows deleted meanwhile are skipped.
DeleteRows(r) ==
    /\ save[r] = "lock"
    /\ tx[r].victims \cap LockedByOthers(r) = {}
    /\ tx' = [tx EXCEPT ![r].victims = @ \cap Visible(r)]
    /\ save' = [save EXCEPT ![r] = "commit"]
    /\ UNCHANGED <<phase, request, executorVars, tableVars, faults, restarts>>

\* Together, or not at all.
Apply(R) ==
    /\ rows' = (rows \cup {tx[r].id : r \in R}) \ UNION {tx[r].victims : r \in R}
    /\ stored' = stored \cup {tx[r].id : r \in R}
    /\ UNCHANGED <<nextId, expired>>

Commit(r) ==
    /\ save[r] = "commit"
    /\ Apply({r})
    /\ save' = [save EXCEPT ![r] = "saved"]
    /\ tx' = [tx EXCEPT ![r] = Over(r)]
    /\ UNCHANGED <<phase, request, executorVars, faults, restarts>>

\* mutant: the id is returned though commit raised.
ReportedSaved == "saved"
AfterLostCommit == "rollback"

\* commit raises, with or without effect.
CommitFails(r) ==
    /\ save[r] = "commit"
    /\ Fault
    /\ \/ Apply({r})
       \/ UNCHANGED tableVars
    /\ save' = [save EXCEPT ![r] = AfterLostCommit]
    /\ UNCHANGED <<phase, request, tx, executorVars, restarts>>

\* mutant: a save whose commit raised is tried again.
Retry(r) ==
    /\ save[r] = "rollback"
    /\ save' = [save EXCEPT ![r] = "insert"]
    /\ UNCHANGED <<phase, request, tx, executorVars, tableVars, faults, restarts>>

\* rollback and close; errors in them are logged only.
Rollback(r) ==
    /\ save[r] = "rollback"
    /\ save' = [save EXCEPT ![r] = "failed"]
    /\ tx' = [tx EXCEPT ![r] = Over(r)]
    /\ UNCHANGED <<phase, request, executorVars, tableVars, faults, restarts>>

\* mutant: the callback never ends.
CallbackStuck(r) == FALSE

\* The future's done callback, after the future is done.  A save whose
\* submit raised has none.
ReleaseSlot(r) ==
    /\ r \in Returning
    /\ slots' = slots + 1
    /\ holders' = holders \ {r}
    /\ UNCHANGED <<phase, request, save, tx, closing, threads, tableVars, faults, restarts>>

-----------------------------------------------------------------------------
(***************************************************************************)
(* The process (lifespan in backend/soj_backend/main.py).                  *)
(***************************************************************************)
\* execution_log_repo.prune before the first request.
StartupPrune ==
    /\ phase = "starting"
    /\ rows' = rows \ Outside(rows, Newest(rows))
    /\ phase' = "serving"
    /\ UNCHANGED <<request, save, tx, executorVars, nextId, expired, stored, faults, restarts>>

\* It fails: the process does not serve.
StartupFails ==
    /\ phase = "starting"
    /\ Fault
    /\ phase' = "down"
    /\ UNCHANGED <<request, save, tx, executorVars, tableVars, restarts>>

Queued == {r \in Requests : save[r] = "queued"}

\* shutdown: admission closes, then cancel_futures empties the queue.
Shutdown ==
    /\ phase = "serving"
    /\ phase' = "stopping"
    /\ closing' = TRUE
    /\ save' = [r \in Requests |-> IF r \in Queued THEN "failed" ELSE save[r]]
    /\ slots' = slots + Cardinality(Queued \cap holders)
    /\ holders' = holders \ Queued
    /\ UNCHANGED <<request, tx, threads, tableVars, faults, restarts>>

\* shutdown(wait=True) has joined the threads.
Joined ==
    /\ phase = "stopping"
    /\ Busy \cup Returning = {}
    /\ phase' = "down"
    /\ UNCHANGED <<request, save, tx, executorVars, tableVars, faults, restarts>>

\* The process dies.  Its transactions roll back; a commit that was sent may
\* take effect.
Crash ==
    /\ phase \in {"serving", "stopping"} /\ restarts < MaxRestarts
    /\ \E sent \in SUBSET {r \in Requests : save[r] = "commit"} : Apply(sent)
    /\ phase' = "down"
    /\ save' = [r \in Requests |-> IF save[r] \in Unfinished THEN "lost" ELSE save[r]]
    /\ tx' = [r \in Requests |-> Over(r)]
    /\ slots' = Capacity /\ holders' = {} /\ closing' = FALSE /\ threads' = 0
    /\ request' = [r \in Requests |-> IF request[r] = "waiting" THEN "cancelled" ELSE request[r]]
    /\ UNCHANGED <<faults, restarts>>

\* The container is started again: a new executor.
Restart ==
    /\ phase = "down" /\ restarts < MaxRestarts
    /\ restarts' = restarts + 1
    /\ phase' = "starting"
    /\ slots' = Capacity /\ holders' = {} /\ closing' = FALSE /\ threads' = 0
    /\ request' = [r \in Requests |-> IF request[r] = "waiting" THEN "cancelled" ELSE request[r]]
    /\ UNCHANGED <<save, tx, tableVars, faults>>

\* A row reaches the retention age.
Expire(n) ==
    /\ n \in rows \ expired
    /\ Cardinality(expired) < MaxExpired
    /\ expired' = expired \cup {n}
    /\ UNCHANGED <<phase, request, save, tx, executorVars, rows, nextId, stored, faults, restarts>>

\* The process stays down, or waits in shutdown: that it does not wait for
\* ever is SavesEnd.
AtRest ==
    /\ phase \in {"stopping", "down"}
    /\ UNCHANGED vars

-----------------------------------------------------------------------------
Work(r) ==
    \/ Take(r) \/ Insert(r) \/ SelectNewest(r) \/ StartDelete(r) \/ DeleteRows(r)
    \/ Commit(r) \/ Rollback(r) \/ ReleaseSlot(r)

Next ==
    \/ \E r \in Requests :
          \/ Submit(r) \/ Refuse(r) \/ SubmitRaises(r) \/ Answer(r) \/ Cancel(r)
          \/ Work(r) \/ StatementFails(r) \/ CommitFails(r)
    \/ StartupPrune \/ StartupFails \/ Shutdown \/ Joined \/ Crash \/ Restart
    \/ \E n \in rows : Expire(n)
    \/ AtRest

Spec == Init /\ [][Next]_vars

\* Some thread or coroutine that can run does; that each one does is more than
\* the finitely many saves need.  Joined is the main thread.
FairSpec ==
    /\ Spec
    /\ WF_vars(\E r \in Requests : Work(r) \/ Answer(r))
    /\ WF_vars(Joined)

-----------------------------------------------------------------------------
TypeOK ==
    /\ phase \in {"starting", "serving", "stopping", "down"}
    /\ request \in [Requests -> {"new", "waiting", "saved", "unavailable", "cancelled"}]
    /\ save \in [Requests -> {"none", "saved", "failed", "lost"} \cup Unfinished]
    /\ tx \in [Requests -> [id : Nat, newest : Nat, victims : SUBSET Nat]]
    /\ slots \in 0..Capacity
    /\ holders \subseteq Requests
    /\ closing \in BOOLEAN
    /\ threads \in 0..Capacity
    /\ rows \subseteq 1..nextId - 1
    /\ nextId \in Nat \ {0}
    /\ expired \subseteq stored /\ rows \subseteq stored
    /\ stored \subseteq 1..nextId - 1
    /\ faults \in 0..MaxFaults /\ restarts \in 0..MaxRestarts

\* At most Capacity accepted saves are unfinished, whether their requests were
\* cancelled or a thread could not be started (_ExecutionLogExecutor.submit).
UnfinishedBounded == Cardinality({r \in Requests : save[r] \in Unfinished}) <= Capacity

\* A request that is told an id has its row committed (ExecutionLogRepo.save).
SavedIsStored ==
    \A r \in Requests : request[r] = "saved" => tx[r].id \in stored

\* Retention loses nothing inside the window: a committed row is gone only if
\* it reached the age or a row was committed under an id at least MaxRows
\* higher.  (The window counts ids: one that a save drew and rolled back counts
\* too, so fewer than MaxRows rows may be left.)  And saves that overlap leave
\* at most one row too many for each other worker (prune_execution_logs within
\* save's transaction).
WindowKept ==
    /\ \A n \in stored \ rows : n \in expired \/ n + MaxRows <= Newest(stored)
    /\ Cardinality(rows) <= MaxRows + Capacity - 1

\* The table holds at most EXECUTION_LOG_MAX_ROWS rows, as SECURITY.md says.
RowsBounded == Cardinality(rows) <= MaxRows

\* Every accepted save ends and returns its slot, and a shutdown comes to its
\* end, though transactions wait for each other's rows when it begins, unless
\* the process ends before (_release_slot, _ExecutionLogExecutor.shutdown).
SavesEnd ==
    (holders # {} \/ phase = "stopping")
        ~> (phase = "down" \/ (phase = "serving" /\ holders = {}))

(***************************************************************************)
(* Refinement.                                                             *)
(***************************************************************************)
\* The store as a submission sees it: a save is pending until it has an answer,
\* and its row counts once the save is over.
reported ==
    [r \in Requests |->
        IF save[r] \in Unfinished THEN "pending"
        ELSE IF save[r] \in {"failed", "lost"} THEN "failed"
        ELSE save[r]]
rowsOfSaves == {r \in Requests : tx[r].id \in stored /\ save[r] # "rollback"}

Service == INSTANCE SaveService WITH save <- reported, logged <- rowsOfSaves

\* Through failing statements, lost commits, a closing executor and crashes the
\* store keeps its promise: a save ends once, a reported one has its row, and no
\* row appears of a save that failed or was never accepted
\* (save_execution_log_async, ExecutionLogRepo.save).
ImplementsSaveService == Service!Spec
=============================================================================
