--------------------------- MODULE JudgedExecution ---------------------------
(***************************************************************************)
(* An execution and what the backend makes of its result: the judgment     *)
(* (Judge), the log entry (models/execution_log.py), and the image in the  *)
(* response (artifact_display.py, models/public_api.py).                   *)
(*                                                                         *)
(* SandboxExecution leaves the contents of a result open.  They, and the   *)
(* problem's policies, matter from the judgment on and are chosen there.   *)
(***************************************************************************)
EXTENDS SandboxExecution, Judge

VARIABLES
    spec,       \* the problem's judge and execution specification
    execution,  \* the ExecutionResult with its contents
    judgment,   \* the JudgeResult
    shown       \* the artifact in the response

judgedVars == <<spec, execution, judgment, shown>>

Path == "work/out.gif"
Whole(pixels) == [outer |-> "gif", format |-> "gif", small |-> TRUE, pixels |-> pixels]
\* The bytes of an answer, of another image, of no GIF, of a broken one and of
\* one that is too large.
SomeFiles == {Whole("same"), Whole("different"), [Whole("same") EXCEPT !.outer = "other"],
              [Whole("same") EXCEPT !.format = "other"], [Whole("same") EXCEPT !.small = FALSE]}

Expected == <<"a", "SP", "b", "LF">>
Stdouts  == {<<>>, <<"a", "SP", "b">>, <<"a", "SP", "b", "CR", "LF", "SP", "LF">>,
             <<"SP", "a", "SP", "b">>, <<"a", "b">>}
Stderrs  == {<<>>, <<"LF">>, <<"b">>}

\* Problems of the judge's type the execution was started for.
Specs(type) ==
    [type : {type}, exit_code : {"ignore", "zero"}, stderr : {"merge", "ignore", "must_be_empty"},
     path : {Path}, media : {"gif"}, expected : {IF type = "text" THEN Expected ELSE Whole("same")}]

Artifact(path, file) == [path |-> path, media |-> "gif", file |-> file]

\* None is no problem, no artifact and no image either.
ASSUME ContentsAssumption ==
    /\ \A type \in {"text", "image"} : None \notin Specs(type)
    /\ \A file \in SomeFiles : None # Artifact(Path, file)
    /\ None \notin {"same", "different"}

\* What a stored artifact of this many bytes may be; 0 bytes are none.
Stored(path, bytes, files) ==
    IF bytes = 0 THEN {None} ELSE {Artifact(path, file) : file \in files}

\* The results r stands for: nothing is written without a command, and one that
\* was killed has not ended with 0.
Executions(r) ==
    [status : {r.status}, timed_out : {r.timed_out}, truncated : {r.truncated},
     stdout : IF command = "none" THEN {<<>>} ELSE Stdouts,
     stderr : IF command = "none" THEN {<<>>} ELSE Stderrs,
     exit_code : IF ~r.exit_code THEN {None} ELSE IF command = "cut" THEN {137} ELSE {0, 1},
     artifact : Stored(Path, r.artifacts.judge, SomeFiles),
     display : Stored("media/output.gif", r.artifacts.display,
                         {Whole("different"), [Whole("same") EXCEPT !.format = "other"]})]

JudgedInit ==
    /\ Init
    /\ spec = None /\ execution = None /\ judgment = None /\ shown = None

\* SubmitSolutionService._submit after the runner's answer.
JudgeResult ==
    /\ worker = "done" /\ judgment = None
    /\ \E s \in Specs(judgeType), e \in Executions(result) :
          /\ spec' = s /\ execution' = e
          /\ judgment' = JudgeExecution(s, e)
          /\ shown' = SelectDisplayArtifact(e)
    /\ UNCHANGED vars

Judged == judgment # None /\ UNCHANGED <<vars, judgedVars>>

JudgedNext ==
    \/ Execute /\ UNCHANGED judgedVars
    \/ JudgeResult
    \/ Judged

JudgedSpec == JudgedInit /\ [][JudgedNext]_<<vars, judgedVars>> /\ Fairness

-----------------------------------------------------------------------------
JudgedTypeOK ==
    /\ TypeOK
    /\ judgment = None => spec = None /\ execution = None /\ shown = None
    /\ judgment # None =>
          /\ spec \in Specs(judgeType) /\ execution \in Executions(result)
          /\ judgment.verdict \in {"accepted", "wrong_answer", "wrong_image", "execution_failure"}

\* The two texts agree up to carriage returns and blanks at their ends.
SameText(a, b) ==
    LET x == WithoutCR(a)
        y == WithoutCR(b)
        At(t, i) == IF i <= Len(t) THEN t[i] ELSE "LF"
        Positions == 1..(Len(x) + Len(y))
    IN \A i \in Positions :
          \/ At(x, i) = At(y, i)
          \/ \A j \in Positions : j >= i => At(x, j) \in Blanks /\ At(y, j) \in Blanks

Answered ==
    IF judgeType = "text"
    THEN SameText(execution.stdout \o (IF spec.stderr = "merge" THEN execution.stderr ELSE <<>>),
                  spec.expected)
    ELSE execution.artifact = Artifact(Path, spec.expected)

Allowed ==
    /\ spec.exit_code = "zero" => execution.exit_code = 0
    /\ spec.stderr = "must_be_empty" => execution.stderr = <<>>

\* The answer is judged only if the watchdog left the command alone, nothing of
\* its output was cut off, and it ended by itself within the problem's policies,
\* and then it is judged right; every other submission is an execution failure,
\* whose reason blames the timeout only after the watchdog claimed it
\* (ShellgeiJudge.judge on what the racing threads of SandboxExecutor.execute
\* have produced).  The one exception is a command that begin_shutdown killed:
\* its output is what it had written by then, and it is judged all the same if
\* the problem ignores the exit code, and never if the problem asks for 0.
VerdictIsDeserved ==
    judgment # None =>
        LET complete == /\ reason = NoReason /\ ~execution.truncated
                        /\ command = "exited" \/ CutByShutdown
        IN /\ CutByShutdown /\ spec.exit_code = "zero"
                 => judgment.verdict = "execution_failure"
           /\ judgment.verdict = "accepted" => complete /\ Allowed /\ Answered
           /\ judgment.verdict \in {"wrong_answer", "wrong_image"}
                 => complete /\ Allowed /\ ~Answered
           /\ judgment.reason = "timed_out" <=> reason = "timeout"
           /\ judgment.reason \in {"non_zero_exit", "stderr_not_empty"} => complete /\ ~Allowed

\* ExecutionLogEntry.from_results and its validate_execution_fields.
LogEntryAccepts(e) ==
    /\ e.status = "COMPLETED" => e.exit_code # None /\ ~e.timed_out /\ ~e.truncated
    /\ e.status = "TIMED_OUT" => e.timed_out
    /\ e.status = "OUTPUT_LIMIT" => ~e.timed_out /\ e.truncated
    /\ e.status = "ERROR" => ~e.timed_out

\* No model on the way to the user rejects a result, whatever failed while it
\* came about, and an image that is shown is the judged one or can be decoded
\* (ExecutionResult, ExecutionLogEntry, select_display_artifact).
RecordsAreAccepted ==
    /\ ResultIsValid
    /\ judgment # None =>
          /\ LogEntryAccepts(execution)
          /\ shown \in {None, execution.artifact} \/ shown.file = Whole("different")
=============================================================================
