------------------------- MODULE ExecutionAdmission -------------------------
(***************************************************************************)
(* How the runner admits executions: the start rate limiter                *)
(* (backend/soj_runner/admission_control.py), the execution slots and the  *)
(* hand-over to worker threads (ShellgeiDockerClient.run_with_timeout and  *)
(* close in run_shellgei.py, wait_for_thread_future in async_thread.py).   *)
(*                                                                         *)
(* Requests are coroutines of one event loop: each runs without a break up *)
(* to its first await.  The executor is concurrent.futures' ThreadPool-    *)
(* Executor: submit first puts the command in the queue and then starts a  *)
(* thread if no idle one is known, so it can raise with the command        *)
(* queued.                                                                 *)
(***************************************************************************)
EXTENDS Naturals, FiniteSets, Sequences

CONSTANTS
    Requests,          \* execution requests, one command each
    Capacity,          \* capacity of the slots and of the executor
    Burst,             \* token bucket size of the rate limiter
    MaxRefills,        \* bound: tokens added in a behaviour
    MaxStartFailures   \* bound: failing Thread.start calls in a behaviour

ASSUME CapacityAssumption == Capacity \in Nat \ {0} /\ Burst \in Nat \ {0}
ASSUME RequestsAssumption == IsFiniteSet(Requests)
ASSUME BoundsAssumption == MaxRefills \in Nat /\ MaxStartFailures \in Nat

VARIABLES
    request,    \* state of each request's coroutine
    future,     \* state of each request's future
    callbacks,  \* futures that release the slot when they are done
    slots,      \* value of _execution_slots
    tokens,     \* whole tokens in the bucket
    queue,      \* the executor's _work_queue
    threads,    \* threads started
    idle,       \* value of the executor's _idle_semaphore
    finishing,  \* threads between a command's end and the idle count
    closing,    \* close() was called
    refills, startFailures

bucketVars   == <<tokens, refills>>
executorVars == <<queue, threads, idle, finishing, closing, startFailures>>
vars == <<request, future, callbacks, slots, bucketVars, executorVars>>

Queued      == {r \in Requests : future[r] = "pending"}
InExecution == {r \in Requests : future[r] = "running"}
IsDone(r)   == future[r] \in {"done", "cancelled"}

TypeOK ==
    /\ request \in [Requests -> {"new", "waiting", "answered", "rejected", "gone"}]
    /\ future \in [Requests -> {"none", "pending", "running", "done", "cancelled"}]
    /\ callbacks \subseteq Requests
    /\ slots \in 0..Capacity
    /\ tokens \in 0..Burst
    /\ queue \in Seq(Requests)
    /\ threads \in 0..Capacity
    /\ idle \in Nat
    /\ finishing \in 0..Capacity
    /\ closing \in BOOLEAN
    /\ refills \in 0..MaxRefills
    /\ startFailures \in 0..MaxStartFailures

Init ==
    /\ request = [r \in Requests |-> "new"]
    /\ future = [r \in Requests |-> "none"]
    /\ callbacks = {}
    /\ slots = Capacity
    /\ tokens = Burst
    /\ queue = <<>>
    /\ threads = 0 /\ idle = 0 /\ finishing = 0 /\ closing = FALSE
    /\ refills = 0 /\ startFailures = 0

-----------------------------------------------------------------------------
Answer(r, state) == request' = [request EXCEPT ![r] = state]

\* Time passes: one more token, up to the burst.
Refill ==
    /\ refills < MaxRefills
    /\ tokens < Burst
    /\ tokens' = tokens + 1
    /\ refills' = refills + 1
    /\ UNCHANGED <<request, future, callbacks, slots, executorVars>>

TokenTaken == tokens > 0 /\ tokens' = tokens - 1

\* A revision or problem that is not served, or no token.
Reject(r) ==
    /\ request[r] = "new"
    /\ Answer(r, "rejected")
    /\ UNCHANGED <<future, callbacks, slots, bucketVars, executorVars>>

\* mutant: the command is in the queue before the slots are looked at.
BusyTooLate(r) ==
    /\ request[r] = "new"
    /\ TokenTaken
    /\ slots = 0
    /\ queue' = Append(queue, r)
    /\ future' = [future EXCEPT ![r] = "pending"]
    /\ Answer(r, "rejected")
    /\ UNCHANGED <<callbacks, slots, refills, threads, idle, finishing, closing, startFailures>>

\* The token is spent, but no slot is free: SandboxBusyError.
Busy(r) ==
    /\ request[r] = "new"
    /\ TokenTaken
    /\ slots = 0
    /\ Answer(r, "rejected")
    /\ UNCHANGED <<future, callbacks, slots, refills, executorVars>>

OneWorker == 1                   \* mutant: fewer threads than slots
MaxWorkers == Capacity

\* executor.submit, once the command is in the queue: an idle thread is
\* counted on, or a thread is started, or all are started.
ThreadForCommand ==
    \/ idle > 0 /\ idle' = idle - 1 /\ UNCHANGED threads
    \/ idle = 0 /\ threads < MaxWorkers /\ threads' = threads + 1 /\ UNCHANGED idle
    \/ idle = 0 /\ threads >= MaxWorkers /\ UNCHANGED <<threads, idle>>

\* A slot is taken and the command submitted, up to the first await.
Submit(r) ==
    /\ request[r] = "new"
    /\ ~closing
    /\ TokenTaken
    /\ slots > 0
    /\ slots' = slots - 1
    /\ queue' = Append(queue, r)
    /\ future' = [future EXCEPT ![r] = "pending"]
    /\ ThreadForCommand
    /\ Answer(r, "waiting")
    /\ UNCHANGED <<callbacks, refills, finishing, closing, startFailures>>

\* Thread.start raises inside submit: the slot is returned and the request is
\* answered with an error, while the command stays in the queue.
SubmitRaises(r) ==
    /\ request[r] = "new"
    /\ ~closing
    /\ TokenTaken
    /\ slots > 0
    /\ idle = 0 /\ threads < MaxWorkers
    /\ startFailures < MaxStartFailures
    /\ startFailures' = startFailures + 1
    /\ queue' = Append(queue, r)
    /\ future' = [future EXCEPT ![r] = "pending"]
    /\ Answer(r, "answered")
    /\ UNCHANGED <<callbacks, slots, refills, threads, idle, finishing, closing>>

\* wait_for_thread_future sees the future done, whatever its outcome; the
\* finally returns the slot.
WaitEnds(r) ==
    /\ request[r] = "waiting"
    /\ IsDone(r)
    /\ slots' = slots + 1
    /\ Answer(r, "answered")
    /\ UNCHANGED <<future, callbacks, bucketVars, executorVars>>

\* mutant: the callback is registered and the finally releases as well.
ReleaseTwice(r) == slots' = slots + 1 /\ callbacks' = callbacks \cup {r}
\* mutant: the request is over and nobody returns its slot.
ReleaseNever(r) == UNCHANGED <<slots, callbacks>>

\* add_done_callback: called at once when the future is already done.
ReleaseWhenDone(r) ==
    IF IsDone(r) THEN slots' = slots + 1 /\ UNCHANGED callbacks
                 ELSE callbacks' = callbacks \cup {r} /\ UNCHANGED slots

\* The outer timeout, or the cancellation of the request: the command goes on.
WaitAbandoned(r) ==
    /\ request[r] = "waiting"
    /\ ReleaseWhenDone(r)
    /\ \E state \in {"answered", "gone"} : Answer(r, state)
    /\ UNCHANGED <<future, bucketVars, executorVars>>

-----------------------------------------------------------------------------
\* A thread takes the next command.
TakeCommand ==
    /\ queue # <<>>
    /\ Cardinality(InExecution) + finishing < threads
    /\ future' = [future EXCEPT ![Head(queue)] = "running"]
    /\ queue' = Tail(queue)
    /\ UNCHANGED <<request, callbacks, slots, bucketVars, threads, idle,
                   finishing, closing, startFailures>>

\* exec_shellgei returns or raises; the future's callback returns the slot.
CommandEnds(r) ==
    /\ future[r] = "running"
    /\ future' = [future EXCEPT ![r] = "done"]
    /\ slots' = IF r \in callbacks THEN slots + 1 ELSE slots
    /\ callbacks' = callbacks \ {r}
    /\ finishing' = finishing + 1
    /\ UNCHANGED <<request, bucketVars, queue, threads, idle, closing, startFailures>>

\* The thread counts itself idle before it looks at the queue again.
CountIdle ==
    /\ finishing > 0
    /\ finishing' = finishing - 1
    /\ idle' = idle + 1
    /\ UNCHANGED <<request, future, callbacks, slots, bucketVars, queue, threads,
                   closing, startFailures>>

\* close: executor.shutdown(wait=True, cancel_futures=True).
Close ==
    /\ ~closing
    /\ closing' = TRUE
    /\ future' = [r \in Requests |-> IF r \in Queued THEN "cancelled" ELSE future[r]]
    /\ slots' = slots + Cardinality(Queued \cap callbacks)
    /\ callbacks' = callbacks \ Queued
    /\ queue' = <<>>
    /\ UNCHANGED <<request, bucketVars, threads, idle, finishing, startFailures>>

Idle == InExecution = {} /\ queue = <<>> /\ finishing = 0 /\ UNCHANGED vars

Next ==
    \/ Refill
    \/ \E r \in Requests : \/ Reject(r) \/ Busy(r) \/ Submit(r) \/ SubmitRaises(r)
                           \/ WaitEnds(r) \/ WaitAbandoned(r) \/ CommandEnds(r)
    \/ TakeCommand \/ CountIdle \/ Close
    \/ Idle

\* Threads run, every execution ends (SandboxExecution) and the event loop
\* polls; no request has to come, time out or be cancelled.
Fairness ==
    /\ WF_vars(TakeCommand) /\ WF_vars(CountIdle)
    /\ \A r \in Requests : WF_vars(WaitEnds(r)) /\ WF_vars(CommandEnds(r))

Spec == Init /\ [][Next]_vars
FairSpec == Spec /\ Fairness

-----------------------------------------------------------------------------
\* Who a taken slot belongs to: a request that waits, or a future that will
\* release it.
Holders == {r \in Requests : request[r] = "waiting"} \cup callbacks

\* Every slot is free or has exactly one holder, however a timeout, a
\* cancellation, the end of the command and close() fall together.
SlotsAccounted == slots + Cardinality(Holders) = Capacity

\* SECURITY.md "Runner resource": the slot is released after the worker thread
\* has ended, so a command that is queued or running has its slot
\* (run_with_timeout).  A failing Thread.start breaks it.
CommandsHoldSlots == Cardinality(Queued \cup InExecution) <= Capacity - slots

\* Nothing waits behind a running command: each queued command has a thread
\* that is free or just about to be (max_workers is the number of slots),
\* except for one command per thread that could not be started.
NoQueueing == Len(queue) <= threads - Cardinality(InExecution) + startFailures

\* Once requests stop coming, all slots are free again: none leaks through an
\* abandoned wait, a cancelled future or a failing submit (run_with_timeout).
SlotsComeBack == slots < Capacity ~> slots = Capacity

(***************************************************************************)
(* Refinement.                                                             *)
(***************************************************************************)
\* The runner as the backend sees it.  A command that was refused and is in the
\* executor all the same has no counterpart there.
StateOf == [none |-> "arrived", pending |-> "arrived", running |-> "running",
            done |-> "ended", cancelled |-> "killed"]
commandOf ==
    [r \in Requests |->
        IF request[r] # "rejected" THEN StateOf[future[r]]
        ELSE IF future[r] = "none" THEN "rejected" ELSE "refused, yet queued"]

Service == INSTANCE CommandService WITH job <- commandOf

\* Whatever becomes of the requests that wait, the commands are executed as the
\* backend may expect: each at most once, at most Capacity at a time, and none
\* that was refused or cancelled (run_with_timeout, close).
ImplementsCommandService == Service!Spec
=============================================================================
