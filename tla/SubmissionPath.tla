--------------------------- MODULE SubmissionPath ---------------------------
(***************************************************************************)
(* A submission's way through the backend: the use case                    *)
(* (SubmitSolutionService in backend/soj_backend/submit_solution.py), the  *)
(* HTTP client with its slots and worker threads (RunnerClient in          *)
(* runner_client.py) and, across the network, the runner's endpoint        *)
(* (execute_shellgei in backend/soj_runner/main.py), which is restarted    *)
(* apart from the backend and may then serve other problems.               *)
(*                                                                         *)
(* A request's coroutine runs without a break between two awaits.  What it *)
(* waits for goes on in a thread when the request is cancelled.            *)
(***************************************************************************)
EXTENDS Naturals, FiniteSets

CONSTANTS
    Requests,          \* submissions in order of arrival
    Revisions,         \* problem revisions a runner may be started with
    Revision,          \* the one the backend has loaded
    None,
    Capacity,          \* RUNNER_CLIENT_CAPACITY
    RunnerCapacity,    \* execution slots of the runner
    MaxStartFailures,  \* bound: failing Thread.start calls
    MaxRunnerStarts    \* bound: starts of the runner

ASSUME CapacityAssumption == Capacity \in Nat \ {0} /\ RunnerCapacity \in Nat \ {0}
ASSUME RevisionAssumption == Revision \in Revisions /\ None \notin Revisions
ASSUME RequestsAssumption == Requests \subseteq Nat /\ IsFiniteSet(Requests)
ASSUME BoundsAssumption == MaxStartFailures \in Nat /\ MaxRunnerStarts \in Nat

VARIABLES
    request,   \* where each coroutine is
    answer,    \* what each request was answered
    call,      \* state of each request's HTTP call and its outcome
    callbacks, \* calls whose done callback releases the slot
    slots,     \* value of RunnerClient._slots
    save,      \* state of each request's save and what it reports
    logged,    \* requests with a committed log row
    job,       \* state of each request in the runner
    ranUnder,  \* history: revision each command was run with
    runner,    \* revision of the running runner, or None
    startFailures, runnerStarts

coroutineVars == <<request, answer>>
callVars      == <<call, callbacks, slots>>
saveVars      == <<save, logged>>
runnerVars    == <<job, ranUnder, runner>>
boundVars     == <<startFailures, runnerStarts>>
vars == <<coroutineVars, callVars, saveVars, runnerVars, boundVars>>

\* The store and the runner as ExecutionLog and ExecutionAdmission implement
\* them.
Saves  == INSTANCE SaveService
Runner == INSTANCE CommandService WITH Capacity <- RunnerCapacity

Pending  == {"queued", "sending", "waiting"}
\* "result" is the ExecutionResult of the command, "error" the one
\* run_with_timeout makes up in its stead.
Outcomes == {"result", "error", "busy", "unavailable"}
Rejected == {"not_found", "busy", "unavailable"}

Init ==
    /\ request = [r \in Requests |-> "new"]
    /\ answer = [r \in Requests |-> "none"]
    /\ call = [r \in Requests |-> "none"]
    /\ callbacks = {} /\ slots = Capacity
    /\ save = [r \in Requests |-> "none"] /\ logged = {}
    /\ job = [r \in Requests |-> "none"]
    /\ ranUnder = [r \in Requests |-> None]
    /\ runner \in Revisions \cup {None}
    /\ startFailures = 0 /\ runnerStarts = 0

\* Requests are numbered in the order they arrive.
Arrives(r) == request[r] = "new" /\ \A q \in Requests : q < r => request[q] # "new"

Respond(r, status) ==
    /\ request' = [request EXCEPT ![r] = "done"]
    /\ answer' = [answer EXCEPT ![r] = status]

-----------------------------------------------------------------------------
(***************************************************************************)
(* The coroutine up to its first await.                                    *)
(***************************************************************************)
NotFound(r) ==
    /\ Arrives(r)
    /\ Respond(r, "not_found")
    /\ UNCHANGED <<callVars, saveVars, runnerVars, boundVars>>

ClientBusy(r) ==
    /\ Arrives(r) /\ slots = 0
    /\ Respond(r, "busy")
    /\ UNCHANGED <<callVars, saveVars, runnerVars, boundVars>>

Execute(r) ==
    /\ Arrives(r) /\ slots > 0
    /\ slots' = slots - 1
    /\ call' = [call EXCEPT ![r] = "queued"]
    /\ request' = [request EXCEPT ![r] = "executing"]
    /\ UNCHANGED <<answer, callbacks, saveVars, runnerVars, boundVars>>

\* executor.submit raises with the call in its queue; finally returns the slot.
ExecuteRaises(r) ==
    /\ Arrives(r) /\ slots > 0
    /\ startFailures < MaxStartFailures
    /\ startFailures' = startFailures + 1
    /\ call' = [call EXCEPT ![r] = "queued"]
    /\ Respond(r, "unavailable")
    /\ UNCHANGED <<callbacks, slots, saveVars, runnerVars, runnerStarts>>

-----------------------------------------------------------------------------
(***************************************************************************)
(* The HTTP worker thread: _execute_sync.                                  *)
(***************************************************************************)
\* The future of r's call is done; its callback, if any, releases the slot.
CallDone(r, outcome) ==
    /\ call' = [call EXCEPT ![r] = outcome]
    /\ slots' = IF r \in callbacks THEN slots + 1 ELSE slots
    /\ callbacks' = callbacks \ {r}

TakeCall(r) ==
    /\ call[r] = "queued"
    /\ Cardinality({q \in Requests : call[q] \in {"sending", "waiting"}}) < Capacity
    /\ call' = [call EXCEPT ![r] = "sending"]
    /\ UNCHANGED <<coroutineVars, callbacks, slots, saveVars, runnerVars, boundVars>>

Send(r) ==
    /\ call[r] = "sending" /\ runner # None
    /\ call' = [call EXCEPT ![r] = "waiting"]
    /\ Runner!Arrive(r)
    /\ UNCHANGED <<coroutineVars, callbacks, slots, saveVars, ranUnder, runner, boundVars>>

\* No connection, or it breaks before the request is read.
SendFails(r) ==
    /\ call[r] = "sending"
    /\ CallDone(r, "unavailable")
    /\ UNCHANGED <<coroutineVars, saveVars, runnerVars, boundVars>>

\* mutant: a timeout is reported as a busy runner.
TimeoutAsBusy(r) ==
    /\ call[r] = "waiting"
    /\ CallDone(r, "busy")
    /\ UNCHANGED <<coroutineVars, saveVars, runnerVars, boundVars>>

\* mutant: the call has no timeout.
NoTimeout(r) == FALSE

\* RUNNER_REQUEST_TIMEOUT_SECONDS, or the connection breaks.  The runner is
\* not told.
HttpTimeout(r) ==
    /\ call[r] = "waiting"
    /\ CallDone(r, "unavailable")
    /\ UNCHANGED <<coroutineVars, saveVars, runnerVars, boundVars>>

-----------------------------------------------------------------------------
(***************************************************************************)
(* The runner's endpoint: execute_shellgei.                                *)
(***************************************************************************)
\* The response reaches the call if that is still waiting.
Reply(r, outcome) ==
    IF call[r] = "waiting" THEN CallDone(r, outcome) ELSE UNCHANGED callVars

RevisionMatches == runner = Revision

\* Response 409.
RejectRevision(r) ==
    /\ ~RevisionMatches /\ call[r] # "error"
    /\ Runner!Reject(r)
    /\ Reply(r, "unavailable")
    /\ UNCHANGED <<coroutineVars, saveVars, ranUnder, runner, boundVars>>

\* Response 429: no token, or no slot.
RejectBusy(r) ==
    /\ RevisionMatches /\ call[r] # "error"
    /\ Runner!Reject(r)
    /\ Reply(r, "busy")
    /\ UNCHANGED <<coroutineVars, saveVars, ranUnder, runner, boundVars>>

Run(r) ==
    /\ RevisionMatches
    /\ Runner!Run(r)
    /\ ranUnder' = [ranUnder EXCEPT ![r] = runner]
    /\ UNCHANGED <<coroutineVars, callVars, saveVars, runner, boundVars>>

\* run_with_timeout answers 200 with an error result while the command runs, or
\* is in the executor's queue and may still run: after the outer timeout, or
\* when executor.submit raised or close() has cancelled the future.  (If the
\* call no longer waits, or the response is lost, nobody sees a difference.)
GiveUp(r) ==
    /\ RevisionMatches
    /\ job[r] \in {"arrived", "running"}
    /\ call[r] = "waiting"
    /\ CallDone(r, "error")
    /\ UNCHANGED <<coroutineVars, saveVars, runnerVars, boundVars>>

\* exec_shellgei returns in its thread, and the endpoint answers with its result
\* unless it has given up.  The client accepts a valid response of its revision;
\* anything else, a status 500 included, is "unavailable".
Finish(r) ==
    /\ Runner!End(r)
    /\ \/ RevisionMatches /\ Reply(r, "result")
       \/ Reply(r, "unavailable")
    /\ UNCHANGED <<coroutineVars, saveVars, ranUnder, runner, boundVars>>

\* The runner stops; its connections break.
RunnerStops ==
    /\ runner # None
    /\ runner' = None
    /\ Runner!Kill({r \in Requests : job[r] \in {"arrived", "running"}})
    /\ UNCHANGED <<coroutineVars, callVars, saveVars, ranUnder, boundVars>>

RunnerStarts(revision) ==
    /\ runner = None /\ runnerStarts < MaxRunnerStarts
    /\ runnerStarts' = runnerStarts + 1
    /\ runner' = revision
    /\ UNCHANGED <<coroutineVars, callVars, saveVars, job, ranUnder, startFailures>>

-----------------------------------------------------------------------------
(***************************************************************************)
(* The coroutine after the call, and the save.                             *)
(***************************************************************************)
\* The runner refused or failed.
ResumeRejected(r) ==
    /\ request[r] = "executing" /\ call[r] \in {"busy", "unavailable"}
    /\ slots' = slots + 1
    /\ Respond(r, call[r])
    /\ UNCHANGED <<call, callbacks, saveVars, runnerVars, boundVars>>

\* mutant: a failed call is judged and logged as a failed execution.
AnyOutcome(r) == call[r] \in {"result", "error", "unavailable"}
HasResult(r) == call[r] \in {"result", "error"}

\* There is a result, be it an error's: judge it, then hand the entry to the
\* save executor, which may refuse, or raise and save it all the same.  The
\* judge may raise.
Resume(r) ==
    /\ request[r] = "executing" /\ HasResult(r)
    /\ slots' = slots + 1
    /\ \/ Respond(r, "failed") /\ UNCHANGED saveVars
       \/ Respond(r, "unsaved") /\ (UNCHANGED saveVars \/ Saves!Accept(r))
       \/ /\ request' = [request EXCEPT ![r] = "saving"]
          /\ UNCHANGED answer
          /\ Saves!Accept(r)
    /\ UNCHANGED <<call, callbacks, runnerVars, boundVars>>

\* The save ends in its thread; a commit may take effect and report failure.
SaveEnds(r) ==
    /\ Saves!Save(r) \/ \E kept \in SUBSET {r} : Saves!Fail({r}, kept)
    /\ UNCHANGED <<coroutineVars, callVars, runnerVars, boundVars>>

ResumeSaved(r) ==
    /\ request[r] = "saving"
    /\ \/ save[r] = "saved" /\ Respond(r, "saved")
       \/ save[r] = "failed" /\ Respond(r, "unsaved")
    /\ UNCHANGED <<callVars, saveVars, runnerVars, boundVars>>

\* mutant: the callback and finally both release the slot.
ReleaseTwice(r) ==
    /\ slots' = slots + 1
    /\ callbacks' = callbacks \cup {r}
    /\ UNCHANGED call

\* The callback releases the slot when the call is done, or at once.
ReleaseWhenDone(r) ==
    /\ slots' = IF call[r] \in Outcomes THEN slots + 1 ELSE slots
    /\ callbacks' = IF call[r] \in Outcomes THEN callbacks ELSE callbacks \cup {r}
    /\ UNCHANGED call

\* The request is cancelled while it waits; nothing else is.
Cancel(r) ==
    /\ \/ request[r] = "executing" /\ ReleaseWhenDone(r)
       \/ request[r] = "saving" /\ UNCHANGED callVars
    /\ Respond(r, "cancelled")
    /\ UNCHANGED <<saveVars, runnerVars, boundVars>>

AtRest ==
    /\ \A r \in Requests : request[r] = "done"
    /\ UNCHANGED vars

-----------------------------------------------------------------------------
Coroutine(r) == ResumeRejected(r) \/ Resume(r) \/ ResumeSaved(r)
Worker(r) == TakeCall(r) \/ Send(r) \/ SendFails(r) \/ HttpTimeout(r)

Next ==
    \/ \E r \in Requests :
          \/ NotFound(r) \/ ClientBusy(r) \/ Execute(r) \/ ExecuteRaises(r)
          \/ Coroutine(r) \/ Worker(r) \/ SaveEnds(r) \/ Cancel(r)
          \/ RejectRevision(r) \/ RejectBusy(r) \/ Run(r) \/ GiveUp(r) \/ Finish(r)
    \/ RunnerStops \/ \E revision \in Revisions : RunnerStarts(revision)
    \/ AtRest

Spec == Init /\ [][Next]_vars

\* Some thread or coroutine that can run does (that each one does is more than
\* finitely many requests need), an HTTP call has a timeout and a save ends.
\* Nothing is assumed of the runner.
FairSpec ==
    Spec /\ WF_vars(\E r \in Requests : Coroutine(r) \/ Worker(r) \/ SaveEnds(r))

-----------------------------------------------------------------------------
TypeOK ==
    /\ request \in [Requests -> {"new", "executing", "saving", "done"}]
    /\ answer \in [Requests -> Rejected \cup {"none", "failed", "saved", "unsaved", "cancelled"}]
    /\ call \in [Requests -> {"none"} \cup Pending \cup Outcomes]
    /\ callbacks \subseteq Requests
    /\ slots \in 0..Capacity
    /\ save \in [Requests -> {"none", "pending", "saved", "failed"}]
    /\ logged \subseteq Requests
    /\ job \in [Requests -> {"none", "arrived", "running", "ended", "rejected", "killed"}]
    /\ ranUnder \in [Requests -> Revisions \cup {None}]
    /\ runner \in Revisions \cup {None}
    /\ startFailures \in 0..MaxStartFailures /\ runnerStarts \in 0..MaxRunnerStarts

\* Who is told "busy" may submit again: the command has not run and will not
\* (status 429 of execute_shellgei, RunnerBusyError of RunnerClient).
BusyNeverRan ==
    \A r \in Requests : answer[r] = "busy" => ranUnder[r] = None /\ job[r] # "arrived"

\* What a command wrote is judged and logged only after its execution ended,
\* with the backend's problems, however often the runner is restarted with
\* others; a submission whose command has not ended, or never ran, is judged
\* and logged only with the error result of an endpoint that gave it up, which
\* the judge calls an execution failure (ExecutionFailed in Judge); and a
\* reported id has its row (SubmitSolutionService._submit, the revision check of
\* execute_shellgei, run_with_timeout).
LogFollowsExecution ==
    \A r \in Requests :
        /\ r \in logged \/ answer[r] \in {"saved", "unsaved"} =>
              \/ call[r] = "result" /\ job[r] = "ended" /\ ranUnder[r] = Revision
              \/ call[r] = "error" /\ job[r] # "rejected" /\ ranUnder[r] \in {None, Revision}
        /\ answer[r] = "saved" => r \in logged

\* Requests whose clients stay are answered, be it that the runner hangs or is
\* down (the timeout of _execute_sync) or that the commit of the save fails.
RequestsAreAnswered ==
    (\E r \in Requests : request[r] \in {"executing", "saving"})
        ~> (\A r \in Requests : request[r] \notin {"executing", "saving"})
=============================================================================
