-------------------------- MODULE SandboxExecution --------------------------
(***************************************************************************)
(* One execution in a leased container                                     *)
(* (backend/soj_runner/sandbox_executor.py and the conversion of its       *)
(* outcome in run_shellgei.py): the worker thread that prepares, runs,     *)
(* captures and stops, the timeout timer's thread, which races it through  *)
(* ExecutionWatchdog, the command in the container, and the manager's      *)
(* shutdown, which may kill the container at any moment.  Every Docker     *)
(* call may fail.                                                          *)
(***************************************************************************)
EXTENDS Integers

CONSTANTS
    ArtifactChars,     \* MAX_RUNNER_IMAGE_BASE64_CHARS
    MaxArtifactBytes,  \* the problem's judge.artifact.max_bytes
    NoReason           \* the watchdog has no reason, the exception no text

Base64Length(bytes) == 4 * ((bytes + 2) \div 3)

\* MAX_ARTIFACT_BYTES fits.
ASSUME ArtifactAssumption ==
    /\ ArtifactChars \in Nat /\ MaxArtifactBytes \in Nat \ {0}
    /\ Base64Length(MaxArtifactBytes) <= ArtifactChars

VARIABLES
    judgeType,   \* of the problem: on text or on an image
    worker,      \* where the worker is
    timer,       \* where the timer's thread is
    finished,    \* ExecutionWatchdog._finished
    reason,      \* ExecutionWatchdog._reason
    killFailed,  \* ExecutionWatchdog.termination_error is set
    killedBy,    \* who killed the container, "nobody" while it runs
    command,     \* the user's command
    output,      \* CapturedCommandOutput: truncated, exit code known, error
    artifacts,   \* bytes capture_artifact, capture_display_artifact returned
    seen,        \* what watchdog.finish() returned
    cleanup,     \* SandboxCleanupResult: error, container_stopped
    result       \* the ExecutionResult, or NoResult

watchdogVars == <<finished, reason, killFailed>>
localVars    == <<output, artifacts, seen, cleanup, result>>
vars == <<judgeType, worker, timer, watchdogVars, killedBy, command, localVars>>

Reasons   == {"timeout", "output_limit"}
ASSUME NoReasonAssumption == NoReason \notin Reasons

Statuses  == {"COMPLETED", "TIMED_OUT", "OUTPUT_LIMIT", "ERROR"}
Artifacts == [judge : 0..MaxArtifactBytes, display : 0..ArtifactChars]
NoArtifacts == [judge |-> 0, display |-> 0]
Errors    == {"none", "empty", "text"}  \* no error, str(exc) = "", a message

NoResult == [status |-> "none"]
Results == [status : Statuses, timed_out : BOOLEAN, truncated : BOOLEAN,
            exit_code : BOOLEAN, error : Errors, artifacts : Artifacts,
            stopped : BOOLEAN]

TypeOK ==
    /\ judgeType \in {"text", "image"}
    /\ worker \in {"prepare", "arm", "check", "start", "stream", "limit", "limit_kill",
                   "inspect", "artifact", "display", "cancel", "finish", "kill",
                   "join", "done"}
    /\ timer \in {"unarmed", "armed", "fired", "killing", "done", "cancelled"}
    /\ finished \in BOOLEAN
    /\ reason \in Reasons \cup {NoReason}
    /\ killFailed \in BOOLEAN
    /\ killedBy \in {"nobody", "watchdog", "stop", "shutdown"}
    /\ command \in {"none", "running", "exited", "cut"}
    /\ output \in [truncated : BOOLEAN, exit_code : BOOLEAN, error : Errors]
    /\ artifacts \in Artifacts
    /\ seen \in Reasons \cup {NoReason}
    /\ cleanup \in [error : Errors, stopped : BOOLEAN]
    /\ result \in Results \cup {NoResult}

Init ==
    /\ judgeType \in {"text", "image"}
    /\ worker = "prepare" /\ timer = "unarmed"
    /\ finished = FALSE /\ reason = NoReason /\ killFailed = FALSE
    /\ killedBy = "nobody" /\ command = "none"
    /\ output = [truncated |-> FALSE, exit_code |-> FALSE, error |-> "none"]
    /\ artifacts = NoArtifacts
    /\ seen = NoReason
    /\ cleanup = [error |-> "none", stopped |-> FALSE]
    /\ result = NoResult

SomeError == Errors \ {"none"}
FirstError(e, f) == IF e # "none" THEN e ELSE f

-----------------------------------------------------------------------------
\* container.kill() succeeds.
Killed(by) ==
    /\ killedBy' = IF killedBy = "nobody" THEN by ELSE killedBy
    /\ command' = IF command = "running" THEN "cut" ELSE command

ContainerUntouched == UNCHANGED <<killedBy, command>>

\* ExecutionWatchdog.terminate: the part under its lock ...
Claim(why, claimed, refused) ==
    IF finished \/ reason # NoReason
    THEN refused /\ UNCHANGED reason
    ELSE claimed /\ reason' = why

\* mutant: the reason is recorded, the container is not killed.
WatchdogKillSkipped == ContainerUntouched /\ UNCHANGED killFailed

\* ... and the kill outside it, whose failure is kept.
WatchdogKill ==
    \/ Killed("watchdog") /\ UNCHANGED killFailed
    \/ killFailed' = TRUE /\ ContainerUntouched

\* The timer's thread.
TimerFire ==
    /\ timer = "armed"
    /\ timer' = "fired"
    /\ UNCHANGED <<worker, watchdogVars, killedBy, command, localVars>>

TimerClaim ==
    /\ timer = "fired"
    /\ Claim("timeout", timer' = "killing", timer' = "done")
    /\ UNCHANGED <<worker, finished, killFailed, killedBy, command, localVars>>

TimerKill ==
    /\ timer = "killing"
    /\ WatchdogKill
    /\ timer' = "done"
    /\ UNCHANGED <<worker, finished, reason, localVars>>

-----------------------------------------------------------------------------
ErrorAsIs(e) == e                \* mutant: an exception without text stays empty
ErrorText(e) == "text"

\* _to_execution_result, with the ends of text a decoded outcome can have:
\* the characters may exceed the limit though the bytes did not.
ToExecutionResult(outcome, cut) ==
    LET truncated == outcome.truncated \/ cut
        status == IF truncated /\ outcome.status = "COMPLETED" THEN "OUTPUT_LIMIT"
                  ELSE outcome.status
    IN [outcome EXCEPT
          !.status = status,
          !.truncated = truncated,
          !.artifacts = IF status = "COMPLETED" THEN @ ELSE NoArtifacts,
          !.error = IF status = "ERROR" THEN ErrorText(@) ELSE @]

\* _error_outcome: the container is released as not stopped.
ErrorOutcome(e) ==
    [status |-> "ERROR", timed_out |-> FALSE, truncated |-> FALSE,
     exit_code |-> FALSE, error |-> e, artifacts |-> NoArtifacts, stopped |-> FALSE]

\* prepare and the start of the timer's thread, before the try.
Prepare ==
    /\ worker \in {"prepare", "arm"}
    /\ \/ worker = "prepare" /\ killedBy = "nobody" /\ worker' = "arm" /\ UNCHANGED <<timer, result>>
       \/ worker = "arm" /\ timer' = "armed" /\ worker' = "check" /\ UNCHANGED result
       \/ /\ \E e \in SomeError : result' = ToExecutionResult(ErrorOutcome(e), FALSE)
          /\ worker' = "done"
          /\ UNCHANGED timer
    /\ UNCHANGED <<watchdogVars, killedBy, command, output, artifacts, seen, cleanup>>

\* capture_command_output does not start the command after a timeout.
CheckReason ==
    /\ worker = "check"
    /\ worker' = IF reason # NoReason THEN "artifact" ELSE "start"
    /\ UNCHANGED <<timer, watchdogVars, killedBy, command, localVars>>

StartExec ==
    /\ worker = "start"
    /\ \/ /\ killedBy = "nobody"
          /\ command' = "running"
          /\ worker' = "stream"
          /\ UNCHANGED output
       \/ /\ \E e \in SomeError : output' = [output EXCEPT !.error = e]
          /\ worker' = "artifact"
          /\ \/ UNCHANGED command
             \/ killedBy = "nobody" /\ command' = "running"
    /\ UNCHANGED <<timer, watchdogVars, killedBy, artifacts, seen, cleanup, result>>

\* The loop over the stream ends with the command ...
StreamEnds ==
    /\ worker = "stream"
    /\ command # "running"
    /\ worker' = "inspect"
    /\ UNCHANGED <<timer, watchdogVars, killedBy, command, localVars>>

\* ... at the byte limit, or with an exception.
StreamBreaks ==
    /\ worker = "stream"
    /\ \/ output' = [output EXCEPT !.truncated = TRUE] /\ worker' = "limit"
       \/ /\ \E e \in SomeError : output' = [output EXCEPT !.error = e]
          /\ worker' = "inspect"
    /\ UNCHANGED <<timer, watchdogVars, killedBy, command, artifacts, seen, cleanup, result>>

LimitClaim ==
    /\ worker = "limit"
    /\ Claim("output_limit", worker' = "limit_kill", worker' = "inspect")
    /\ UNCHANGED <<timer, finished, killFailed, killedBy, command, localVars>>

LimitKill ==
    /\ worker = "limit_kill"
    /\ WatchdogKill
    /\ worker' = "inspect"
    /\ UNCHANGED <<timer, finished, reason, localVars>>

\* stream.close() and exec_inspect: either may fail, and the exit code of a
\* command that was cut off may not be known yet.
InspectExitCode ==
    /\ worker = "inspect"
    /\ worker' = "artifact"
    /\ \E e \in Errors, known \in BOOLEAN :
          /\ known => command \in {"exited", "cut"}
          /\ command = "exited" /\ e = "none" => known
          /\ output' = [output EXCEPT !.error = FirstError(@, e), !.exit_code = known]
    /\ UNCHANGED <<timer, watchdogVars, killedBy, command, artifacts, seen, cleanup, result>>

\* mutant: the judged image is counted before it is encoded.
BeforeEncoding(judged) == ((ArtifactChars - judged) \div 4) * 3
\* What is left for the GIF beside the judged image.
RemainingBytes(judged) == ((ArtifactChars - Base64Length(judged)) \div 4) * 3

\* The two captures: each looks at the watchdog again, and may find nothing.
CaptureArtifact(from, to, kind, sizes) ==
    /\ worker = from
    /\ worker' = to
    /\ \/ /\ reason = NoReason /\ output.error = "none"
          /\ \E n \in sizes : artifacts' = [artifacts EXCEPT ![kind] = n]
       \/ UNCHANGED artifacts
    /\ UNCHANGED <<timer, watchdogVars, killedBy, command, output, seen, cleanup, result>>

CaptureJudgeArtifact ==
    CaptureArtifact("artifact", "display", "judge",
                    IF judgeType = "image" THEN 1..MaxArtifactBytes ELSE {})

\* The largest GIF that is accepted stands for the smaller ones.
CaptureDisplayArtifact ==
    CaptureArtifact("display", "cancel", "display", {RemainingBytes(artifacts.judge)})

\* head on a FIFO waits for a writer as long as the container lives.
ReadMayBlock == worker = "artifact" /\ judgeType = "image" /\ killedBy = "nobody"

-----------------------------------------------------------------------------
\* SandboxCleanup.stop: cancel reaches the timer only before it fires ...
CancelTimer ==
    /\ worker = "cancel"
    /\ worker' = "finish"
    /\ timer' = IF timer = "armed" THEN "cancelled" ELSE timer
    /\ UNCHANGED <<watchdogVars, killedBy, command, localVars>>

\* ... finish closes the watchdog and takes its reason ...
FinishWatchdog ==
    /\ worker = "finish"
    /\ finished' = TRUE
    /\ seen' = reason
    /\ worker' = IF reason = NoReason THEN "kill" ELSE "join"
    /\ UNCHANGED <<timer, reason, killFailed, killedBy, command, output,
                   artifacts, cleanup, result>>

\* ... without a reason the container is killed here ...
StopContainer ==
    /\ worker = "kill"
    /\ worker' = "join"
    /\ \/ Killed("stop") /\ cleanup' = [cleanup EXCEPT !.stopped = TRUE]
       \/ /\ \E e \in SomeError : cleanup' = [cleanup EXCEPT !.error = e]
          /\ ContainerUntouched
    /\ UNCHANGED <<timer, watchdogVars, output, artifacts, seen, result>>

NotJoined == TRUE                \* mutant: termination_error is read at once
TimerJoined == timer \in {"cancelled", "done"}

\* mutant: the exit code is looked at before the reason.
ExitCodeFirst(why, e, exitKnown) ==
    IF exitKnown /\ e = "none" THEN "COMPLETED"
    ELSE IF why = "timeout" THEN "TIMED_OUT"
    ELSE IF why = "output_limit" THEN "OUTPUT_LIMIT" ELSE "ERROR"

StatusOf(why, e, exitKnown) ==
    IF why = "timeout" THEN "TIMED_OUT"
    ELSE IF why = "output_limit" THEN "OUTPUT_LIMIT"
    ELSE IF e # "none" \/ ~exitKnown THEN "ERROR"
    ELSE "COMPLETED"

\* ... and after the join the outcome is classified and converted.
JoinAndClassify ==
    /\ worker = "join"
    /\ TimerJoined
    /\ worker' = "done"
    /\ LET watchdogEnded == seen # NoReason
           stopped == IF watchdogEnded THEN ~killFailed ELSE cleanup.stopped
           cleanupError == IF watchdogEnded /\ killFailed THEN "text" ELSE cleanup.error
           e == FirstError(output.error, cleanupError)
           status == StatusOf(seen, e, output.exit_code)
           outcome == [status |-> status,
                       timed_out |-> status = "TIMED_OUT",
                       truncated |-> output.truncated,
                       exit_code |-> output.exit_code,
                       error |-> IF status = "ERROR" THEN FirstError(e, "text") ELSE e,
                       artifacts |-> IF status = "COMPLETED" THEN artifacts ELSE NoArtifacts,
                       stopped |-> stopped]
       IN \E cut \in BOOLEAN : result' = ToExecutionResult(outcome, cut)
    /\ UNCHANGED <<timer, watchdogVars, killedBy, command, output, artifacts, seen, cleanup>>

-----------------------------------------------------------------------------
CommandExits ==
    /\ command = "running"
    /\ command' = "exited"
    /\ UNCHANGED <<worker, timer, watchdogVars, killedBy, localVars>>

\* begin_shutdown, from the lifespan thread.
ShutdownKill ==
    /\ killedBy = "nobody"
    /\ worker # "done"
    /\ Killed("shutdown")
    /\ UNCHANGED <<worker, timer, watchdogVars, localVars>>

Done == worker = "done" /\ UNCHANGED vars

TimerStep == TimerFire \/ TimerClaim \/ TimerKill

WorkerStep ==
    \/ Prepare \/ CheckReason \/ StartExec \/ StreamEnds \/ LimitClaim \/ LimitKill
    \/ InspectExitCode \/ CaptureJudgeArtifact \/ CaptureDisplayArtifact
    \/ CancelTimer \/ FinishWatchdog \/ StopContainer \/ JoinAndClassify

Execute ==
    /\ WorkerStep \/ StreamBreaks \/ TimerStep \/ CommandExits \/ ShutdownKill
    /\ UNCHANGED judgeType

Next == Execute \/ Done

\* Both threads run and their Docker calls return, the read of a FIFO excepted;
\* the command owes nothing, neither an end nor output, and nobody has to shut
\* down.
Fairness ==
    /\ WF_vars(~ReadMayBlock /\ WorkerStep /\ UNCHANGED judgeType)
    /\ WF_vars(TimerStep /\ UNCHANGED judgeType)

Spec == Init /\ [][Next]_vars /\ Fairness

-----------------------------------------------------------------------------
\* When release_container is told that the container is stopped, and skips the
\* kill, it is: the result waits for the watchdog's kill, in whichever thread
\* it runs, and for its failure (SandboxCleanup.stop).
StopConfirmed ==
    (result # NoResult /\ result.stopped)
        => /\ killedBy # "nobody"
           /\ command # "running"
           /\ timer \notin {"armed", "fired", "killing"}

\* begin_shutdown's kill ended the command: to the worker it is a command that
\* ended by itself, with exit code 137.
CutByShutdown == command = "cut" /\ killedBy = "shutdown"

\* The status is what happened, however close the timer, the byte limit and
\* the end of the command come (ExecutionWatchdog, SandboxExecutor.execute): the
\* watchdog did not touch a COMPLETED command, which came to its own end or, the
\* one exception, was killed by begin_shutdown; and the timeout or the limit is
\* blamed if and, for the limit, unless the text was cut, only if the watchdog
\* claimed the container for it.
StatusIsTrue ==
    result # NoResult =>
        /\ result.status = "COMPLETED" =>
              reason = NoReason /\ (command = "exited" \/ CutByShutdown)
        /\ result.status = "TIMED_OUT" <=> reason = "timeout"
        /\ reason = "output_limit" => result.status = "OUTPUT_LIMIT"

\* validate_consistent_outcome of ExecutionResult: it never rejects what the
\* runner builds, so no outcome turns into a validation error.
Consistent(r) ==
    /\ r.status = "COMPLETED" =>
          r.exit_code /\ ~r.timed_out /\ ~r.truncated /\ r.error = "none"
    /\ r.status = "TIMED_OUT" => r.timed_out
    /\ r.status = "OUTPUT_LIMIT" => ~r.timed_out /\ r.truncated
    /\ r.status = "ERROR" => ~r.timed_out /\ r.error = "text"
    /\ r.status # "COMPLETED" => r.artifacts = NoArtifacts
    /\ Base64Length(r.artifacts.judge) + Base64Length(r.artifacts.display) <= ArtifactChars

ResultIsValid == result # NoResult => Consistent(result)

\* Every execution comes to a result within its timeout, silent or endless
\* commands and an image path that is a FIFO included, unless Docker refuses
\* the watchdog's kill.
ExecutionEnds == (worker \in {"stream", "artifact"}) ~> (worker = "done" \/ killFailed)
=============================================================================
