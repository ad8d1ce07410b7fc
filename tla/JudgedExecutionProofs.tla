------------------------ MODULE JudgedExecutionProofs ------------------------
(***************************************************************************)
(* Proofs about SandboxExecution and JudgedExecution, for every limit on   *)
(* artifacts: the worker, the timeout timer, the command and the shutdown  *)
(* in every order, with every Docker call that may fail.                   *)
(***************************************************************************)
EXTENDS JudgedExecution, FiniteSetTheorems, SequenceTheorems, NaturalsInduction,
        WellFoundedInduction, TLAPS

\* Where the two threads can be, and what the closed watchdog has told.
ThreadInv ==
    /\ result # NoResult => worker = "done"
    /\ worker \in {"prepare", "arm"} => timer = "unarmed"
    /\ timer = "unarmed" => reason = NoReason /\ worker \in {"prepare", "arm", "done"}
    /\ finished => worker \in {"kill", "join", "done"} /\ seen = reason
    /\ worker \in {"kill", "join"} => finished
    /\ worker = "done" => (finished \/ timer = "unarmed") /\ timer \in {"unarmed", "cancelled", "done"}

\* Who has killed the container, who is about to, and who could not.
KillInv ==
    /\ killedBy # "nobody" => command # "running"
    /\ command = "cut" => killedBy # "nobody"
    /\ killedBy = "watchdog" \/ timer = "killing" \/ worker = "limit_kill" => reason # NoReason
    /\ reason # NoReason =>
          timer = "killing" \/ worker = "limit_kill" \/ killFailed \/ killedBy # "nobody"
    /\ killedBy = "stop" => worker \in {"join", "done"}
    /\ cleanup.stopped => killedBy # "nobody"

\* An exit code is known only of a command that has ended, before the stop.
OutputInv ==
    /\ output.exit_code =>
          /\ worker \in {"artifact", "display", "cancel", "finish", "kill", "join", "done"}
          /\ command \in {"exited", "cut"}
          /\ command = "cut" => killedBy \in {"watchdog", "shutdown"}
    /\ worker \in {"limit", "limit_kill"} \/ reason = "output_limit" => output.truncated

\* Both artifacts, encoded, fit.
ArtifactInv ==
    /\ artifacts.display # 0 => worker \in {"cancel", "finish", "kill", "join", "done"}
    /\ Base64Length(artifacts.judge) + Base64Length(artifacts.display) <= ArtifactChars

\* A worker that has ended has a result, and it is true, valid, and final.
ResultInv ==
    /\ worker = "done" => result # NoResult
    /\ StopConfirmed
    /\ StatusIsTrue
    /\ ResultIsValid

\* The inductive invariant.
IInv == TypeOK /\ ThreadInv /\ KillInv /\ OutputInv /\ ArtifactInv /\ ResultInv

-----------------------------------------------------------------------------
(***************************************************************************)
(* Operators.                                                              *)
(***************************************************************************)
\* The steps, one disjunct for each.
LEMMA NextCases ==
    ASSUME [Next]_vars
    PROVE  \/ Prepare \/ CheckReason \/ StartExec \/ StreamEnds \/ LimitClaim \/ LimitKill
           \/ InspectExitCode \/ CaptureJudgeArtifact \/ CaptureDisplayArtifact
           \/ CancelTimer \/ FinishWatchdog \/ StopContainer \/ JoinAndClassify
           \/ StreamBreaks \/ TimerFire \/ TimerClaim \/ TimerKill \/ CommandExits \/ ShutdownKill
           \/ UNCHANGED vars
BY DEF Next, Execute, WorkerStep, TimerStep, Done

\* Base64 makes four characters of three bytes, and what RemainingBytes leaves
\* for the GIF fits beside the judged image.
LEMMA Encoding ==
    ASSUME NEW n \in 0..MaxArtifactBytes
    PROVE  /\ Base64Length(0) = 0 /\ Base64Length(n) \in 0..ArtifactChars
           /\ RemainingBytes(n) \in 0..ArtifactChars
           /\ Base64Length(n) + Base64Length(RemainingBytes(n)) <= ArtifactChars
<1> DEFINE B == Base64Length(n)
           k == (ArtifactChars - B) \div 4
<1>1. n \in Nat /\ n <= MaxArtifactBytes /\ MaxArtifactBytes \in Nat /\ ArtifactChars \in Nat
  BY ArtifactAssumption
<1>2. Base64Length(0) = 0
  BY DEF Base64Length
<1>3. B \in Nat /\ B <= Base64Length(MaxArtifactBytes)
  BY <1>1 DEF Base64Length
<1>4. B \in 0..ArtifactChars
  <2>1. Base64Length(MaxArtifactBytes) <= ArtifactChars /\ Base64Length(MaxArtifactBytes) \in Nat
    BY <1>1, ArtifactAssumption DEF Base64Length
  <2> QED
    BY <1>1, <1>3, <2>1
<1> HIDE DEF B
<1>5. k \in Nat /\ 4 * k <= ArtifactChars - B
  BY <1>1, <1>4
<1> HIDE DEF k
<1>6. RemainingBytes(n) = k * 3
  BY DEF RemainingBytes, k, B
<1>7. Base64Length(k * 3) = 4 * k
  <2>1. (k * 3 + 2) \div 3 = k
    BY <1>5
  <2> QED
    BY <2>1 DEF Base64Length
<1>8. RemainingBytes(n) \in 0..ArtifactChars
  BY <1>1, <1>4, <1>5, <1>6
<1>9. B + Base64Length(RemainingBytes(n)) <= ArtifactChars
  BY <1>1, <1>4, <1>5, <1>6, <1>7
<1> QED
  BY <1>2, <1>4, <1>8, <1>9 DEF B

\* What the conversion makes of an outcome.
LEMMA Conversion ==
    ASSUME NEW o \in Results, NEW cut \in BOOLEAN
    PROVE  LET r == ToExecutionResult(o, cut)
               limited == (o.truncated \/ cut) /\ o.status = "COMPLETED"
           IN /\ r \in Results
              /\ r.status = IF limited THEN "OUTPUT_LIMIT" ELSE o.status
              /\ r.truncated = (o.truncated \/ cut)
              /\ r.artifacts = IF r.status = "COMPLETED" THEN o.artifacts ELSE NoArtifacts
              /\ r.error = IF r.status = "ERROR" THEN "text" ELSE o.error
              /\ r.timed_out = o.timed_out /\ r.exit_code = o.exit_code /\ r.stopped = o.stopped
<1> DEFINE r == ToExecutionResult(o, cut)
           truncated == o.truncated \/ cut
           status == IF truncated /\ o.status = "COMPLETED" THEN "OUTPUT_LIMIT" ELSE o.status
           art == IF status = "COMPLETED" THEN o.artifacts ELSE NoArtifacts
           err == IF status = "ERROR" THEN "text" ELSE o.error
<1>1. /\ status \in Statuses /\ truncated \in BOOLEAN /\ err \in Errors
      /\ o.artifacts \in Artifacts
  BY DEF Results, Statuses, Errors
<1>2. NoArtifacts \in Artifacts
  BY ArtifactAssumption DEF NoArtifacts, Artifacts
<1>3. art \in Artifacts
  BY <1>1, <1>2
<1>4. r = [o EXCEPT !.status = status, !.truncated = truncated, !.artifacts = art, !.error = err]
  BY DEF ToExecutionResult, ErrorText
<1> HIDE DEF r, truncated, status, art, err
<1>5. /\ r.status = status /\ r.truncated = truncated /\ r.artifacts = art /\ r.error = err
      /\ r.timed_out = o.timed_out /\ r.exit_code = o.exit_code /\ r.stopped = o.stopped
  BY <1>4 DEF Results
<1>6. r \in Results
  BY <1>1, <1>3, <1>4 DEF Results
<1> QED
  BY <1>5, <1>6 DEF r, truncated, status, art, err

\* The runner's two ways to a result: a failed preparation ...
LEMMA PreparationFails ==
    ASSUME Prepare, worker' = "done"
    PROVE  /\ result' \in Results /\ result'.status = "ERROR" /\ result'.error = "text"
           /\ result'.timed_out = FALSE /\ result'.stopped = FALSE /\ result'.artifacts = NoArtifacts
           /\ UNCHANGED <<timer, reason, killedBy, command>> /\ worker \in {"prepare", "arm"}
<1>1. PICK e \in SomeError : result' = ToExecutionResult(ErrorOutcome(e), FALSE)
  BY DEF Prepare
<1>2. NoArtifacts \in Artifacts
  BY ArtifactAssumption DEF NoArtifacts, Artifacts
<1>3. ErrorOutcome(e) \in Results
  BY <1>2 DEF ErrorOutcome, Results, Statuses, SomeError, Errors
<1>4. /\ ErrorOutcome(e).status = "ERROR" /\ ErrorOutcome(e).truncated = FALSE
      /\ ErrorOutcome(e).timed_out = FALSE /\ ErrorOutcome(e).stopped = FALSE
  BY DEF ErrorOutcome
<1>5. UNCHANGED <<timer, reason, killedBy, command>> /\ worker \in {"prepare", "arm"}
  BY DEF Prepare, watchdogVars
<1> DEFINE o == ErrorOutcome(e)
<1> HIDE DEF o
<1>6. /\ ToExecutionResult(o, FALSE) \in Results
      /\ ToExecutionResult(o, FALSE).status = o.status
      /\ ToExecutionResult(o, FALSE).timed_out = o.timed_out
      /\ ToExecutionResult(o, FALSE).stopped = o.stopped
  BY <1>3, <1>4, Conversion DEF o
<1>7. ToExecutionResult(o, FALSE).error
        = IF ToExecutionResult(o, FALSE).status = "ERROR" THEN "text" ELSE o.error
  BY <1>3, Conversion DEF o
<1>8. ToExecutionResult(o, FALSE).artifacts
        = IF ToExecutionResult(o, FALSE).status = "COMPLETED" THEN o.artifacts ELSE NoArtifacts
  BY <1>3, Conversion DEF o
<1> QED
  BY <1>1, <1>4, <1>5, <1>6, <1>7, <1>8 DEF o

\* ... and the classification after the join.
LEMMA Classified ==
    ASSUME IInv, JoinAndClassify
    PROVE  \E cut \in BOOLEAN, cleanupError \in Errors :
              LET e == FirstError(output.error, cleanupError)
                  status == StatusOf(seen, e, output.exit_code)
                  truncated == output.truncated \/ cut
              IN /\ result' \in Results
                 /\ result'.status = IF truncated /\ status = "COMPLETED" THEN "OUTPUT_LIMIT" ELSE status
                 /\ result'.truncated = truncated
                 /\ result'.timed_out = (status = "TIMED_OUT")
                 /\ result'.exit_code = output.exit_code
                 /\ result'.artifacts = IF result'.status = "COMPLETED" THEN artifacts ELSE NoArtifacts
                 /\ result'.error = IF result'.status = "ERROR" THEN "text" ELSE e
                 /\ result'.stopped = (IF seen # NoReason THEN ~killFailed ELSE cleanup.stopped)
<1> DEFINE cleanupError == IF seen # NoReason /\ killFailed THEN "text" ELSE cleanup.error
           stopped == IF seen # NoReason THEN ~killFailed ELSE cleanup.stopped
           e == FirstError(output.error, cleanupError)
           status == StatusOf(seen, e, output.exit_code)
           outcome == [status |-> status,
                       timed_out |-> status = "TIMED_OUT",
                       truncated |-> output.truncated,
                       exit_code |-> output.exit_code,
                       error |-> IF status = "ERROR" THEN FirstError(e, "text") ELSE e,
                       artifacts |-> IF status = "COMPLETED" THEN artifacts ELSE NoArtifacts,
                       stopped |-> stopped]
<1>1. PICK cut \in BOOLEAN : result' = ToExecutionResult(outcome, cut)
  BY DEF JoinAndClassify
<1>2. /\ cleanupError \in Errors /\ e \in Errors /\ stopped \in BOOLEAN /\ status \in Statuses
      /\ output.truncated \in BOOLEAN /\ output.exit_code \in BOOLEAN
      /\ (IF status = "ERROR" THEN FirstError(e, "text") ELSE e) \in Errors
  BY DEF IInv, TypeOK, FirstError, Errors, StatusOf, Statuses
<1>3. (IF status = "COMPLETED" THEN artifacts ELSE NoArtifacts) \in Artifacts
  <2>1. NoArtifacts \in Artifacts
    BY ArtifactAssumption DEF NoArtifacts, Artifacts
  <2> QED
    BY <2>1 DEF IInv, TypeOK
<1> HIDE DEF cleanupError, stopped, e, status
<1>4. outcome \in Results
  BY <1>2, <1>3 DEF Results
<1>5. /\ outcome.status = status /\ outcome.timed_out = (status = "TIMED_OUT")
      /\ outcome.truncated = output.truncated /\ outcome.exit_code = output.exit_code
      /\ outcome.stopped = stopped
      /\ outcome.artifacts = IF status = "COMPLETED" THEN artifacts ELSE NoArtifacts
      /\ status # "ERROR" => outcome.error = e
  OBVIOUS
<1> HIDE DEF outcome
<1>6. /\ result' \in Results
      /\ result'.status = IF (output.truncated \/ cut) /\ status = "COMPLETED" THEN "OUTPUT_LIMIT" ELSE status
      /\ result'.truncated = (output.truncated \/ cut)
      /\ result'.artifacts = IF result'.status = "COMPLETED" THEN outcome.artifacts ELSE NoArtifacts
      /\ result'.error = IF result'.status = "ERROR" THEN "text" ELSE outcome.error
      /\ result'.timed_out = (status = "TIMED_OUT") /\ result'.exit_code = output.exit_code
      /\ result'.stopped = stopped
  BY <1>1, <1>4, <1>5, Conversion
<1>7. /\ result'.artifacts = IF result'.status = "COMPLETED" THEN artifacts ELSE NoArtifacts
      /\ result'.error = IF result'.status = "ERROR" THEN "text" ELSE e
  BY <1>5, <1>6
<1> QED
  BY <1>2, <1>6, <1>7 DEF e, status, stopped

-----------------------------------------------------------------------------
(***************************************************************************)
(* The threads and the container.                                          *)
(***************************************************************************)
\* Where the threads are through every step.
LEMMA ThreadNext ==
    ASSUME IInv, [Next]_vars
    PROVE  ThreadInv'
<1> USE DEF watchdogVars, localVars
<1>0. ThreadInv /\ TypeOK
  BY DEF IInv
<1>1. CASE Prepare
  BY <1>0, <1>1 DEF Prepare, ThreadInv
<1>2. CASE CheckReason \/ StartExec \/ StreamEnds
  BY <1>0, <1>2 DEF CheckReason, StartExec, StreamEnds, ThreadInv
<1>3. CASE StreamBreaks \/ LimitClaim \/ LimitKill \/ InspectExitCode
  <2>1. CASE StreamBreaks
    BY <1>0, <2>1 DEF StreamBreaks, ThreadInv
  <2>4. CASE InspectExitCode
    <3>1. /\ worker = "inspect" /\ worker' = "artifact" /\ timer' = timer /\ reason' = reason
          /\ finished' = finished /\ result' = result
      BY <2>4 DEF InspectExitCode
    <3>2. timer # "unarmed" /\ ~finished /\ result = NoResult
      BY <1>0, <3>1 DEF ThreadInv
    <3>3. ~finished'
      BY <3>1, <3>2
    <3> QED
      BY <3>1, <3>2, <3>3 DEF ThreadInv
  <2>2. CASE LimitClaim
    <3>1. /\ worker = "limit" /\ worker' \in {"limit_kill", "inspect"}
          /\ timer' = timer /\ finished' = finished /\ result' = result
      BY <2>2 DEF LimitClaim, Claim
    <3>2. timer # "unarmed" /\ ~finished /\ result = NoResult
      BY <1>0, <3>1 DEF ThreadInv
    <3>3. ~finished'
      BY <3>1, <3>2
    <3> QED
      BY <3>1, <3>2, <3>3 DEF ThreadInv
  <2>3. CASE LimitKill
    BY <1>0, <2>3 DEF LimitKill, ThreadInv
  <2> QED
    BY <1>3, <2>1, <2>2, <2>3, <2>4
<1>4. CASE CaptureJudgeArtifact \/ CaptureDisplayArtifact
  BY <1>0, <1>4 DEF CaptureJudgeArtifact, CaptureDisplayArtifact, CaptureArtifact, ThreadInv
<1>5. CASE CancelTimer
  BY <1>0, <1>5 DEF CancelTimer, ThreadInv
<1>6. CASE FinishWatchdog
  BY <1>0, <1>6 DEF FinishWatchdog, ThreadInv
<1>7. CASE StopContainer
  BY <1>0, <1>7 DEF StopContainer, ThreadInv
<1>8. CASE JoinAndClassify
  BY <1>0, <1>8 DEF JoinAndClassify, TimerJoined, ThreadInv
<1>9. CASE TimerFire
  BY <1>0, <1>9 DEF TimerFire, ThreadInv
<1>10. CASE TimerClaim
  BY <1>0, <1>10 DEF TimerClaim, Claim, ThreadInv
<1>11. CASE TimerKill
  BY <1>0, <1>11 DEF TimerKill, ThreadInv
<1>12. CASE CommandExits \/ ShutdownKill \/ UNCHANGED vars
  BY <1>0, <1>12 DEF CommandExits, ShutdownKill, vars, ThreadInv
<1> QED
  BY <1>1, <1>2, <1>3, <1>4, <1>5, <1>6, <1>7, <1>8, <1>9, <1>10, <1>11, <1>12, NextCases

\* Who kills the container, through every step.
LEMMA KillNext ==
    ASSUME IInv, [Next]_vars
    PROVE  KillInv'
<1> USE DEF watchdogVars, localVars
<1>0. KillInv /\ ThreadInv /\ TypeOK
  BY DEF IInv
<1>1. CASE Prepare
  <2>1. /\ reason' = reason /\ killedBy' = killedBy /\ command' = command /\ cleanup' = cleanup
        /\ worker \in {"prepare", "arm"} /\ worker' \in {"arm", "check", "done"}
        /\ timer' \in {timer, "armed"}
    BY <1>1 DEF Prepare
  <2>2. timer = "unarmed" /\ reason = NoReason
    BY <1>0, <2>1 DEF ThreadInv
  <2> QED
    BY <1>0, <2>1, <2>2 DEF KillInv
<1>2. CASE CheckReason \/ StreamEnds
  BY <1>0, <1>2 DEF CheckReason, StreamEnds, KillInv
<1>3. CASE StartExec
  BY <1>0, <1>3 DEF StartExec, KillInv
<1>4. CASE StreamBreaks \/ InspectExitCode
  BY <1>0, <1>4 DEF StreamBreaks, InspectExitCode, KillInv
<1>5. CASE LimitClaim
  BY <1>0, <1>5, NoReasonAssumption DEF LimitClaim, Claim, KillInv, Reasons
<1>6. CASE LimitKill
  BY <1>0, <1>6 DEF LimitKill, WatchdogKill, Killed, ContainerUntouched, KillInv
<1>7. CASE CaptureJudgeArtifact \/ CaptureDisplayArtifact
  BY <1>0, <1>7 DEF CaptureJudgeArtifact, CaptureDisplayArtifact, CaptureArtifact, KillInv
<1>8. CASE CancelTimer
  BY <1>0, <1>8 DEF CancelTimer, KillInv
<1>9. CASE FinishWatchdog
  BY <1>0, <1>9 DEF FinishWatchdog, KillInv
<1>10. CASE StopContainer
  BY <1>0, <1>10 DEF StopContainer, Killed, ContainerUntouched, KillInv, TypeOK
<1>11. CASE JoinAndClassify
  BY <1>0, <1>11 DEF JoinAndClassify, KillInv
<1>12. CASE TimerFire
  BY <1>0, <1>12 DEF TimerFire, KillInv
<1>13. CASE TimerClaim
  BY <1>0, <1>13, NoReasonAssumption DEF TimerClaim, Claim, KillInv, Reasons
<1>14. CASE TimerKill
  BY <1>0, <1>14 DEF TimerKill, WatchdogKill, Killed, ContainerUntouched, KillInv
<1>15. CASE CommandExits
  BY <1>0, <1>15 DEF CommandExits, KillInv
<1>16. CASE ShutdownKill
  BY <1>0, <1>16 DEF ShutdownKill, Killed, KillInv
<1>17. CASE UNCHANGED vars
  BY <1>0, <1>17 DEF vars, KillInv
<1> QED
  BY <1>1, <1>2, <1>3, <1>4, <1>5, <1>6, <1>7, <1>8, <1>9, <1>10, <1>11, <1>12, <1>13, <1>14, <1>15,
     <1>16, <1>17, NextCases

\* What is known of the command's end, through every step.
LEMMA OutputNext ==
    ASSUME IInv, [Next]_vars
    PROVE  OutputInv'
<1> USE DEF watchdogVars, localVars
<1>0. OutputInv /\ KillInv /\ ThreadInv /\ TypeOK
  BY DEF IInv
<1>1. CASE Prepare \/ CheckReason \/ StreamEnds
  BY <1>0, <1>1 DEF Prepare, CheckReason, StreamEnds, OutputInv
<1>2. CASE StartExec
  BY <1>0, <1>2 DEF StartExec, OutputInv, TypeOK
<1>3. CASE StreamBreaks
  BY <1>0, <1>3 DEF StreamBreaks, OutputInv, TypeOK
<1>4. CASE LimitClaim
  BY <1>0, <1>4 DEF LimitClaim, Claim, OutputInv
<1>5. CASE LimitKill
  BY <1>0, <1>5 DEF LimitKill, OutputInv
<1>6. CASE InspectExitCode
  BY <1>0, <1>6 DEF InspectExitCode, OutputInv, KillInv, ThreadInv, TypeOK
<1>7. CASE CaptureJudgeArtifact \/ CaptureDisplayArtifact
  BY <1>0, <1>7 DEF CaptureJudgeArtifact, CaptureDisplayArtifact, CaptureArtifact, OutputInv
<1>8. CASE CancelTimer \/ FinishWatchdog
  BY <1>0, <1>8 DEF CancelTimer, FinishWatchdog, OutputInv
<1>9. CASE StopContainer
  BY <1>0, <1>9 DEF StopContainer, Killed, ContainerUntouched, OutputInv
<1>10. CASE JoinAndClassify
  BY <1>0, <1>10 DEF JoinAndClassify, OutputInv
<1>11. CASE TimerFire
  BY <1>0, <1>11 DEF TimerFire, OutputInv
<1>12. CASE TimerClaim
  BY <1>0, <1>12 DEF TimerClaim, Claim, OutputInv
<1>13. CASE TimerKill
  BY <1>0, <1>13 DEF TimerKill, WatchdogKill, Killed, ContainerUntouched, OutputInv
<1>14. CASE CommandExits
  BY <1>0, <1>14 DEF CommandExits, OutputInv
<1>15. CASE ShutdownKill
  BY <1>0, <1>15 DEF ShutdownKill, Killed, OutputInv
<1>16. CASE UNCHANGED vars
  BY <1>0, <1>16 DEF vars, OutputInv
<1> QED
  BY <1>1, <1>2, <1>3, <1>4, <1>5, <1>6, <1>7, <1>8, <1>9, <1>10, <1>11, <1>12, <1>13, <1>14, <1>15,
     <1>16, NextCases

\* The GIF is captured last, and into what the judged image has left.
LEMMA ArtifactNext ==
    ASSUME IInv, [Next]_vars
    PROVE  ArtifactInv'
<1> USE DEF watchdogVars, localVars
<1>0. ArtifactInv /\ TypeOK
  BY DEF IInv
<1>1. CASE CaptureJudgeArtifact
  <2>1. worker = "artifact" /\ worker' = "display" /\ artifacts.display = 0
    BY <1>0, <1>1 DEF CaptureJudgeArtifact, CaptureArtifact, ArtifactInv
  <2>2. CASE artifacts' = artifacts
    BY <1>0, <2>1, <2>2 DEF ArtifactInv
  <2>3. CASE \E n \in 1..MaxArtifactBytes : artifacts' = [artifacts EXCEPT !["judge"] = n]
    <3>1. PICK n \in 1..MaxArtifactBytes : artifacts' = [artifacts EXCEPT !["judge"] = n]
      BY <2>3
    <3>2. artifacts'.judge = n /\ artifacts'.display = 0 /\ n \in 0..MaxArtifactBytes
      BY <1>0, <2>1, <3>1, ArtifactAssumption DEF TypeOK, Artifacts
    <3>3. Base64Length(n) \in 0..ArtifactChars /\ Base64Length(0) = 0
      BY <3>2, Encoding
    <3>4. Base64Length(artifacts'.judge) + Base64Length(artifacts'.display) <= ArtifactChars
      BY <3>2, <3>3, ArtifactAssumption
    <3> QED
      BY <3>2, <3>4 DEF ArtifactInv, Base64Length
  <2> QED
    BY <1>1, <2>2, <2>3 DEF CaptureJudgeArtifact, CaptureArtifact
<1>2. CASE CaptureDisplayArtifact
  <2>1. worker' = "cancel"
    BY <1>2 DEF CaptureDisplayArtifact, CaptureArtifact
  <2>2. CASE artifacts' = artifacts
    BY <1>0, <2>1, <2>2 DEF ArtifactInv
  <2>3. CASE artifacts' = [artifacts EXCEPT !["display"] = RemainingBytes(artifacts.judge)]
    <3>1. /\ artifacts'.judge = artifacts.judge /\ artifacts.judge \in 0..MaxArtifactBytes
          /\ artifacts'.display = RemainingBytes(artifacts.judge)
      BY <1>0, <2>3 DEF TypeOK, Artifacts
    <3>2. Base64Length(artifacts.judge) + Base64Length(RemainingBytes(artifacts.judge))
             <= ArtifactChars
      BY <3>1, Encoding
    <3> QED
      BY <2>1, <3>1, <3>2 DEF ArtifactInv, Base64Length
  <2> QED
    BY <1>2, <2>2, <2>3 DEF CaptureDisplayArtifact, CaptureArtifact
<1>3. CASE Prepare \/ CheckReason \/ StartExec \/ StreamEnds \/ StreamBreaks
  BY <1>0, <1>3 DEF Prepare, CheckReason, StartExec, StreamEnds, StreamBreaks, ArtifactInv
<1>4. CASE LimitClaim \/ LimitKill \/ InspectExitCode
  BY <1>0, <1>4 DEF LimitClaim, Claim, LimitKill, InspectExitCode, ArtifactInv
<1>5. CASE CancelTimer \/ FinishWatchdog \/ StopContainer \/ JoinAndClassify
  BY <1>0, <1>5 DEF CancelTimer, FinishWatchdog, StopContainer, JoinAndClassify, ArtifactInv
<1>6. CASE TimerFire \/ TimerClaim \/ TimerKill \/ CommandExits \/ ShutdownKill
  BY <1>0, <1>6 DEF TimerFire, TimerClaim, TimerKill, CommandExits, ShutdownKill, ArtifactInv
<1>7. CASE UNCHANGED vars
  BY <1>0, <1>7 DEF vars, ArtifactInv
<1> QED
  BY <1>1, <1>2, <1>3, <1>4, <1>5, <1>6, <1>7, NextCases

-----------------------------------------------------------------------------
(***************************************************************************)
(* The result.                                                             *)
(***************************************************************************)
\* A result is written once, at the end, and what it tells of does not change
\* after it.
LEMMA ResultIsFinal ==
    ASSUME IInv, [Next]_vars, ~Prepare, ~JoinAndClassify
    PROVE  /\ result' = result
           /\ worker' = "done" <=> worker = "done"
           /\ worker = "done" => /\ timer' = timer /\ reason' = reason /\ killedBy' = killedBy
                                 /\ command' = command \/ (command = "running" /\ command' = "exited")
<1> USE DEF watchdogVars, localVars
<1>0. ThreadInv
  BY DEF IInv
<1>1. CASE CheckReason \/ StartExec \/ StreamEnds \/ StreamBreaks
  BY <1>1 DEF CheckReason, StartExec, StreamEnds, StreamBreaks
<1>2. CASE LimitClaim \/ LimitKill \/ InspectExitCode
  BY <1>2 DEF LimitClaim, Claim, LimitKill, InspectExitCode
<1>3. CASE CaptureJudgeArtifact \/ CaptureDisplayArtifact
  BY <1>3 DEF CaptureJudgeArtifact, CaptureDisplayArtifact, CaptureArtifact
<1>4. CASE CancelTimer \/ FinishWatchdog \/ StopContainer
  BY <1>4 DEF CancelTimer, FinishWatchdog, StopContainer
<1>5. CASE TimerFire \/ TimerClaim \/ TimerKill
  BY <1>0, <1>5 DEF TimerFire, TimerClaim, TimerKill, ThreadInv
<1>6. CASE CommandExits \/ ShutdownKill
  BY <1>6 DEF CommandExits, ShutdownKill
<1>7. CASE UNCHANGED vars
  <2>1. /\ worker' = worker /\ result' = result /\ timer' = timer /\ reason' = reason
        /\ killedBy' = killedBy /\ command' = command
    BY <1>7 DEF vars
  <2> QED
    BY <2>1
<1> QED
  BY <1>1, <1>2, <1>3, <1>4, <1>5, <1>6, <1>7, NextCases

\* NoResult is none.
LEMMA ResultsAreResults ==
    ASSUME NEW r \in Results
    PROVE  r # NoResult
<1>1. r.status \in Statuses /\ NoResult.status = "none"
  BY DEF Results, NoResult
<1> QED
  BY <1>1 DEF Statuses

\* The result, when it is written and after.
LEMMA ResultNext ==
    ASSUME IInv, [Next]_vars
    PROVE  ResultInv'
<1>0. ResultInv /\ ThreadInv /\ KillInv /\ OutputInv /\ ArtifactInv /\ TypeOK
  BY DEF IInv
<1>1. CASE Prepare /\ worker' = "done"
  <2>1. /\ result'.status = "ERROR" /\ result'.error = "text" /\ result'.stopped = FALSE
        /\ result'.timed_out = FALSE /\ result'.artifacts = NoArtifacts /\ reason' = reason
        /\ worker \in {"prepare", "arm"} /\ result' # NoResult
    BY <1>1, PreparationFails, ResultsAreResults
  <2>2. reason' = NoReason
    BY <1>0, <2>1 DEF ThreadInv
  <2>3. StopConfirmed'
    BY <2>1 DEF StopConfirmed
  <2>4. StatusIsTrue'
    BY <2>1, <2>2, NoReasonAssumption DEF StatusIsTrue, Reasons
  <2>5. Consistent(result')
    <3>1. Base64Length(result'.artifacts.judge) + Base64Length(result'.artifacts.display) <= ArtifactChars
      BY <2>1, ArtifactAssumption DEF NoArtifacts, Base64Length
    <3> QED
      BY <2>1, <3>1 DEF Consistent
  <2> QED
    BY <2>1, <2>3, <2>4, <2>5 DEF ResultInv, ResultIsValid
<1>2. CASE Prepare /\ worker' # "done"
  <2>1. result' = result /\ worker \in {"prepare", "arm"}
    BY <1>2 DEF Prepare
  <2>2. result' = NoResult
    BY <1>0, <2>1 DEF ThreadInv
  <2> QED
    BY <1>2, <2>2 DEF ResultInv, StopConfirmed, StatusIsTrue, ResultIsValid
<1>3. CASE JoinAndClassify
  <2>1. /\ worker = "join" /\ worker' = "done" /\ timer \in {"cancelled", "done"}
        /\ timer' = timer /\ reason' = reason /\ killedBy' = killedBy /\ command' = command
    BY <1>3 DEF JoinAndClassify, TimerJoined, watchdogVars
  <2>2. finished /\ seen = reason /\ seen \in Reasons \cup {NoReason}
    BY <1>0, <2>1 DEF ThreadInv, TypeOK
  <2>3. PICK cut \in BOOLEAN, cleanupError \in Errors :
              LET e == FirstError(output.error, cleanupError)
                  status == StatusOf(seen, e, output.exit_code)
                  truncated == output.truncated \/ cut
              IN /\ result' \in Results
                 /\ result'.status = IF truncated /\ status = "COMPLETED" THEN "OUTPUT_LIMIT" ELSE status
                 /\ result'.truncated = truncated
                 /\ result'.timed_out = (status = "TIMED_OUT")
                 /\ result'.exit_code = output.exit_code
                 /\ result'.artifacts = IF result'.status = "COMPLETED" THEN artifacts ELSE NoArtifacts
                 /\ result'.error = IF result'.status = "ERROR" THEN "text" ELSE e
                 /\ result'.stopped = (IF seen # NoReason THEN ~killFailed ELSE cleanup.stopped)
    BY <1>3, Classified
  <2> DEFINE e == FirstError(output.error, cleanupError)
             status == StatusOf(seen, e, output.exit_code)
             truncated == output.truncated \/ cut
  <2>4. /\ status = "TIMED_OUT" <=> reason = "timeout"
        /\ reason = "output_limit" => status = "OUTPUT_LIMIT"
        /\ status = "OUTPUT_LIMIT" => reason = "output_limit"
        /\ status = "COMPLETED" => reason = NoReason /\ e = "none" /\ output.exit_code
        /\ status \in Statuses
    BY <2>2 DEF StatusOf, Reasons, Statuses
  <2>5. status = "OUTPUT_LIMIT" => output.truncated
    BY <1>0, <2>4 DEF OutputInv
  <2>6. result' # NoResult
    BY <2>3, ResultsAreResults
  <2> HIDE DEF status, e
  <2>7. StopConfirmed'
    <3>1. result'.stopped => killedBy # "nobody"
      BY <1>0, <2>1, <2>2, <2>3 DEF KillInv
    <3>2. result'.stopped => command # "running"
      BY <1>0, <3>1 DEF KillInv
    <3> QED
      BY <2>1, <3>1, <3>2 DEF StopConfirmed
  <2>8. StatusIsTrue'
    <3>1. result'.status = "COMPLETED" => reason = NoReason /\ (command = "exited" \/ CutByShutdown)
      <4>1. result'.status = "COMPLETED" => status = "COMPLETED"
        BY <2>3 DEF status, e
      <4> QED
        BY <1>0, <2>4, <4>1 DEF OutputInv, KillInv, CutByShutdown
    <3>2. result'.status = "TIMED_OUT" <=> reason = "timeout"
      BY <2>3, <2>4 DEF status, e
    <3>3. reason = "output_limit" => result'.status = "OUTPUT_LIMIT"
      BY <2>3, <2>4 DEF status, e
    <3> QED
      BY <2>1, <3>1, <3>2, <3>3 DEF StatusIsTrue, CutByShutdown
  <2>9. Consistent(result')
    <3>1. /\ result'.status = IF truncated /\ status = "COMPLETED" THEN "OUTPUT_LIMIT" ELSE status
          /\ result'.truncated = truncated
          /\ result'.timed_out = (status = "TIMED_OUT")
          /\ result'.exit_code = output.exit_code
          /\ result'.artifacts = IF result'.status = "COMPLETED" THEN artifacts ELSE NoArtifacts
          /\ result'.error = IF result'.status = "ERROR" THEN "text" ELSE e
      BY <2>3 DEF status, e
    <3>2. result'.status = "COMPLETED" =>
             result'.exit_code /\ ~result'.timed_out /\ ~result'.truncated /\ result'.error = "none"
      BY <2>4, <3>1
    <3>3. result'.status = "TIMED_OUT" => result'.timed_out
      BY <3>1
    <3>4. result'.status = "OUTPUT_LIMIT" => ~result'.timed_out /\ result'.truncated
      BY <2>5, <3>1
    <3>5. result'.status = "ERROR" => ~result'.timed_out /\ result'.error = "text"
      BY <3>1
    <3>6. Base64Length(result'.artifacts.judge) + Base64Length(result'.artifacts.display) <= ArtifactChars
      <4>1. CASE result'.artifacts = artifacts
        BY <1>0, <4>1 DEF ArtifactInv
      <4>2. CASE result'.artifacts = NoArtifacts
        BY <4>2, ArtifactAssumption DEF NoArtifacts, Base64Length
      <4> QED
        BY <3>1, <4>1, <4>2
    <3> QED
      BY <3>1, <3>2, <3>3, <3>4, <3>5, <3>6 DEF Consistent
  <2> QED
    BY <2>6, <2>7, <2>8, <2>9 DEF ResultInv, ResultIsValid
<1>4. CASE ~Prepare /\ ~JoinAndClassify
  <2>1. /\ result' = result
        /\ worker' = "done" <=> worker = "done"
        /\ worker = "done" => /\ timer' = timer /\ reason' = reason /\ killedBy' = killedBy
                              /\ command' = command \/ (command = "running" /\ command' = "exited")
    BY <1>4, ResultIsFinal
  <2>2. result # NoResult => worker = "done"
    BY <1>0 DEF ThreadInv
  <2>3. StopConfirmed'
    BY <1>0, <2>1, <2>2 DEF ResultInv, StopConfirmed
  <2>4. StatusIsTrue'
    BY <1>0, <2>1, <2>2 DEF ResultInv, StatusIsTrue, CutByShutdown
  <2>5. ResultIsValid'
    BY <1>0, <2>1 DEF ResultInv, ResultIsValid, Consistent, Base64Length
  <2> QED
    BY <1>0, <2>1, <2>3, <2>4, <2>5 DEF ResultInv
<1> QED
  BY <1>1, <1>2, <1>3, <1>4

-----------------------------------------------------------------------------
(***************************************************************************)
(* The types.                                                              *)
(***************************************************************************)
\* What is captured stays within the bounds.
LEMMA ArtifactTypeNext ==
    ASSUME IInv, [Next]_vars
    PROVE  artifacts' \in Artifacts
<1> USE DEF watchdogVars, localVars
<1>0. TypeOK
  BY DEF IInv
<1>1. CASE CaptureJudgeArtifact
  <2>1. 1..MaxArtifactBytes \subseteq 0..MaxArtifactBytes
    BY ArtifactAssumption
  <2> QED
    BY <1>0, <1>1, <2>1 DEF CaptureJudgeArtifact, CaptureArtifact, TypeOK, Artifacts
<1>2. CASE CaptureDisplayArtifact
  <2>1. artifacts.judge \in 0..MaxArtifactBytes
    BY <1>0 DEF TypeOK, Artifacts
  <2>2. RemainingBytes(artifacts.judge) \in 0..ArtifactChars
    BY <2>1, Encoding
  <2> QED
    BY <1>0, <1>2, <2>2 DEF CaptureDisplayArtifact, CaptureArtifact, TypeOK, Artifacts
<1>3. CASE ~CaptureJudgeArtifact /\ ~CaptureDisplayArtifact
  <2>1. artifacts' = artifacts
    BY <1>3, NextCases DEF Prepare, CheckReason, StartExec, StreamEnds, StreamBreaks, LimitClaim,
       LimitKill, InspectExitCode, CancelTimer, FinishWatchdog, StopContainer, JoinAndClassify,
       TimerFire, TimerClaim, TimerKill, CommandExits, ShutdownKill, vars
  <2> QED
    BY <1>0, <2>1 DEF TypeOK
<1> QED
  BY <1>1, <1>2, <1>3

\* What is written as the result is one.
LEMMA ResultTypeNext ==
    ASSUME IInv, [Next]_vars
    PROVE  result' \in Results \cup {NoResult}
<1>0. TypeOK
  BY DEF IInv
<1>1. CASE Prepare
  <2>1. worker' = "done" \/ result' = result
    BY <1>1 DEF Prepare
  <2> QED
    BY <1>0, <1>1, <2>1, PreparationFails DEF TypeOK
<1>2. CASE JoinAndClassify
  BY <1>2, Classified
<1>3. CASE ~Prepare /\ ~JoinAndClassify
  <2>1. result' = result
    BY <1>3, ResultIsFinal
  <2> QED
    BY <1>0, <2>1 DEF TypeOK
<1> QED
  BY <1>1, <1>2, <1>3

\* Every step keeps the types.
LEMMA TypeNext ==
    ASSUME IInv, [Next]_vars
    PROVE  TypeOK'
<1> USE DEF watchdogVars, localVars
<1>0. TypeOK
  BY DEF IInv
<1>1. artifacts' \in Artifacts /\ result' \in Results \cup {NoResult}
  BY ArtifactTypeNext, ResultTypeNext
<1>2. judgeType' = judgeType
  BY DEF Next, Execute, Done, vars
<1> DEFINE ThreadTypes ==
             /\ worker \in {"prepare", "arm", "check", "start", "stream", "limit", "limit_kill",
                            "inspect", "artifact", "display", "cancel", "finish", "kill",
                            "join", "done"}
             /\ timer \in {"unarmed", "armed", "fired", "killing", "done", "cancelled"}
             /\ finished \in BOOLEAN
             /\ reason \in Reasons \cup {NoReason}
             /\ killFailed \in BOOLEAN
             /\ killedBy \in {"nobody", "watchdog", "stop", "shutdown"}
             /\ command \in {"none", "running", "exited", "cut"}
             /\ seen \in Reasons \cup {NoReason}
           RecordTypes ==
             /\ output \in [truncated : BOOLEAN, exit_code : BOOLEAN, error : Errors]
             /\ cleanup \in [error : Errors, stopped : BOOLEAN]
<1>3. ThreadTypes /\ RecordTypes
  BY <1>0 DEF TypeOK
<1>4. ThreadTypes'
  <2>1. CASE Prepare
    BY <1>3, <2>1 DEF Prepare
  <2>2. CASE CheckReason
    BY <1>3, <2>2 DEF CheckReason
  <2>3. CASE StartExec
    BY <1>3, <2>3 DEF StartExec
  <2>4. CASE StreamEnds
    BY <1>3, <2>4 DEF StreamEnds
  <2>5. CASE StreamBreaks
    BY <1>3, <2>5 DEF StreamBreaks
  <2>6. CASE LimitClaim
    BY <1>3, <2>6 DEF LimitClaim, Claim, Reasons
  <2>7. CASE LimitKill
    BY <1>3, <2>7 DEF LimitKill, WatchdogKill, Killed, ContainerUntouched
  <2>8. CASE InspectExitCode
    BY <1>3, <2>8 DEF InspectExitCode
  <2>9. CASE CaptureJudgeArtifact \/ CaptureDisplayArtifact
    BY <1>3, <2>9 DEF CaptureJudgeArtifact, CaptureDisplayArtifact, CaptureArtifact
  <2>10. CASE CancelTimer
    BY <1>3, <2>10 DEF CancelTimer
  <2>11. CASE FinishWatchdog
    BY <1>3, <2>11 DEF FinishWatchdog
  <2>12. CASE StopContainer
    BY <1>3, <2>12 DEF StopContainer, Killed, ContainerUntouched
  <2>13. CASE JoinAndClassify
    BY <1>3, <2>13 DEF JoinAndClassify
  <2>14. CASE TimerFire
    BY <1>3, <2>14 DEF TimerFire
  <2>15. CASE TimerClaim
    BY <1>3, <2>15 DEF TimerClaim, Claim, Reasons
  <2>16. CASE TimerKill
    BY <1>3, <2>16 DEF TimerKill, WatchdogKill, Killed, ContainerUntouched
  <2>17. CASE CommandExits
    BY <1>3, <2>17 DEF CommandExits
  <2>18. CASE ShutdownKill
    BY <1>3, <2>18 DEF ShutdownKill, Killed
  <2>19. CASE UNCHANGED vars
    BY <1>3, <2>19 DEF vars
  <2> QED
    BY <2>1, <2>2, <2>3, <2>4, <2>5, <2>6, <2>7, <2>8, <2>9, <2>10, <2>11, <2>12, <2>13, <2>14,
       <2>15, <2>16, <2>17, <2>18, <2>19, NextCases
<1>5. RecordTypes'
  <2>1. CASE StartExec \/ StreamBreaks
    BY <1>3, <2>1 DEF StartExec, StreamBreaks, SomeError
  <2>2. CASE InspectExitCode
    BY <1>3, <2>2 DEF InspectExitCode, FirstError
  <2>3. CASE StopContainer
    BY <1>3, <2>3 DEF StopContainer, SomeError
  <2>4. CASE UNCHANGED <<output, cleanup>>
    BY <1>3, <2>4
  <2> QED
    BY <2>1, <2>2, <2>3, <2>4, NextCases
       DEF Prepare, CheckReason, StreamEnds, LimitClaim, LimitKill, CaptureJudgeArtifact,
           CaptureDisplayArtifact, CaptureArtifact, CancelTimer, FinishWatchdog, JoinAndClassify,
           TimerFire, TimerClaim, TimerKill, CommandExits, ShutdownKill, vars
<1> QED
  BY <1>0, <1>1, <1>2, <1>4, <1>5 DEF TypeOK

-----------------------------------------------------------------------------
(***************************************************************************)
(* The execution's theorems.                                               *)
(***************************************************************************)
\* The start satisfies the invariant.
LEMMA ExecutionInit == Init => IInv
<1> SUFFICES ASSUME Init PROVE IInv
  OBVIOUS
<1>1. NoArtifacts \in Artifacts /\ Base64Length(0) = 0
  BY ArtifactAssumption DEF NoArtifacts, Artifacts, Base64Length
<1>2. TypeOK
  BY <1>1 DEF Init, TypeOK, Errors
<1>3. ThreadInv
  BY DEF Init, ThreadInv
<1>4. KillInv
  BY DEF Init, KillInv
<1>5. OutputInv
  BY NoReasonAssumption DEF Init, OutputInv, Reasons
<1>6. ArtifactInv
  BY <1>1, ArtifactAssumption DEF Init, ArtifactInv, NoArtifacts
<1>7. ResultInv
  BY DEF Init, ResultInv, StopConfirmed, StatusIsTrue, ResultIsValid
<1> QED
  BY <1>2, <1>3, <1>4, <1>5, <1>6, <1>7 DEF IInv

\* Every step keeps it.
LEMMA ExecutionNext == IInv /\ [Next]_vars => IInv'
BY ThreadNext, KillNext, OutputNext, ArtifactNext, ResultNext, TypeNext DEF IInv

\* The inductive invariant: where the two threads of ExecutionWatchdog are, who
\* has killed the container or could not, what is known of the command's end,
\* and what a written result says of all three.
THEOREM ExecutionInvariant == Spec => []IInv
<1>1. Init => IInv
  BY ExecutionInit
<1>2. IInv /\ [Next]_vars => IInv'
  BY ExecutionNext
<1> QED
  BY <1>1, <1>2, PTL DEF Spec

\* A judged execution is an execution: what the backend makes of the result
\* (SubmitSolutionService._submit) changes nothing of how it came about.
THEOREM JudgedExecutes == JudgedSpec => Spec
<1>1. JudgedInit => Init
  BY DEF JudgedInit
<1>2. [JudgedNext]_<<vars, judgedVars>> => [Next]_vars
  BY DEF JudgedNext, JudgeResult, Judged, Next
<1> QED
  BY <1>1, <1>2, PTL DEF JudgedSpec, Spec

-----------------------------------------------------------------------------
(***************************************************************************)
(* Texts.                                                                  *)
(***************************************************************************)
\* A set of positions that is not empty has a last one.
LEMMA LastOfPositions ==
    ASSUME NEW n \in Nat, NEW P \in SUBSET (1..n)
    PROVE  \E l \in P \cup {0} : \A i \in P : i <= l
<1> DEFINE B == {b \in Nat : \A i \in P : i <= b}
           Less == OpToRel(<, Nat)
<1>1. Less = {ss \in Nat \X Nat : ss[1] < ss[2]}
  BY DEF OpToRel
<1>2. IsWellFoundedOn(Less, Nat)
  BY NatLessThanWellFounded
<1> HIDE DEF Less
<1>3. n \in B
  OBVIOUS
<1>4. PICK l \in B : \A y \in B : <<y, l>> \notin Less
  <2>1. B \subseteq Nat /\ B # {}
    BY <1>3
  <2> HIDE DEF B
  <2> QED
    BY <1>2, <2>1, WFMin
<1>5. CASE l \in P \cup {0}
  BY <1>4, <1>5
<1>6. CASE l \notin P \cup {0}
  <2>1. l \in Nat /\ l - 1 \in Nat /\ l - 1 \in B
    BY <1>4, <1>6
  <2>2. <<l - 1, l>> \in Less
    BY <1>1, <2>1
  <2> QED
    BY <1>4, <2>1, <2>2
<1> QED
  BY <1>5, <1>6

\* The characters that stay are numbered without gaps, in their order.
LEMMA RankIsPlace ==
    ASSUME NEW text, Len(text) \in Nat
    PROVE  LET n == Cardinality(Kept(text))
           IN  /\ n \in Nat
               /\ \A i \in Kept(text) : Rank(text, i) \in 1..n
               /\ \A i, j \in Kept(text) : i < j => Rank(text, i) < Rank(text, j)
               /\ \A k \in 1..n : \E i \in Kept(text) : Rank(text, i) = k
<1> DEFINE K == Kept(text)
           n == Cardinality(K)
           Up(i) == {j \in K : j <= i}
           f == [i \in K |-> Cardinality(Up(i))]
<1>1. K \subseteq 1..Len(text) /\ IsFiniteSet(K)
  <2>1. IsFiniteSet(1..Len(text))
    BY FS_Interval
  <2> QED
    BY <2>1, FS_Subset DEF Kept
<1>2. n \in Nat
  BY <1>1, FS_CardinalityType
<1> HIDE DEF K, n
<1>3. \A i \in K : IsFiniteSet(Up(i)) /\ Cardinality(Up(i)) \in 1..n
  <2> TAKE i \in K
  <2>1. Up(i) \subseteq K
    OBVIOUS
  <2>2. IsFiniteSet(Up(i)) /\ Cardinality(Up(i)) <= n /\ Cardinality(Up(i)) \in Nat
    BY <1>1, <2>1, FS_Subset, FS_CardinalityType DEF n
  <2>3. i \in Up(i)
    BY <1>1
  <2>4. Cardinality(Up(i)) # 0
    BY <2>2, <2>3, FS_EmptySet
  <2> QED
    BY <1>2, <2>2, <2>4
<1>4. \A i, j \in K : i < j => Cardinality(Up(i)) < Cardinality(Up(j))
  <2> SUFFICES ASSUME NEW i \in K, NEW j \in K, i < j
               PROVE  Cardinality(Up(i)) < Cardinality(Up(j))
    OBVIOUS
  <2>1. \A k \in K : k \in Int
    BY <1>1
  <2>2. Up(i) \subseteq Up(j)
    BY <2>1
  <2>3. j \in Up(j) /\ j \notin Up(i)
    BY <2>1
  <2>4. Cardinality(Up(i)) <= Cardinality(Up(j)) /\ Cardinality(Up(i)) # Cardinality(Up(j))
    BY <1>3, <2>2, <2>3, FS_Subset
  <2>5. Cardinality(Up(i)) \in Nat /\ Cardinality(Up(j)) \in Nat
    <3>1. Cardinality(Up(i)) \in 1..n /\ Cardinality(Up(j)) \in 1..n
      BY <1>3
    <3> HIDE DEF Up
    <3> QED
      BY <1>2, <3>1
  <2> QED
    BY <2>4, <2>5
<1>5. f \in [K -> 1..n] /\ \A i, j \in K : f[i] = f[j] => i = j
  <2>1. \A i, j \in K : i < j \/ j < i \/ i = j
    BY <1>1
  <2>2. \A i \in K : f[i] = Cardinality(Up(i)) /\ f[i] \in 1..n
    BY <1>3
  <2>3. f \in [K -> 1..n]
    BY <1>3
  <2>4. \A i, j \in K : i < j => f[i] < f[j]
    BY <1>4, <2>2
  <2> HIDE DEF f
  <2> QED
    BY <1>2, <2>1, <2>2, <2>3, <2>4
<1>6. \A k \in 1..n : \E i \in K : f[i] = k
  <2>1. IsFiniteSet(1..n) /\ Cardinality(1..n) = n
    BY <1>2, FS_Interval
  <2>2. f \in Injection(K, 1..n)
    BY <1>5 DEF Injection, IsInjective
  <2>3. f \in Surjection(K, 1..n)
    BY <1>1, <2>1, <2>2, FS_Injection DEF n
  <2> QED
    BY <2>3 DEF Surjection
<1>7. \A i \in K : Rank(text, i) = f[i]
  BY DEF Rank, K
<1> QED
  BY <1>2, <1>3, <1>4, <1>6, <1>7 DEF K, n

\* What value.replace leaves: the characters that are no carriage return, each
\* once, in their order.
LEMMA CRRemoved ==
    ASSUME NEW text, Len(text) \in Nat
    PROVE  LET t == WithoutCR(text)
               n == Len(t)
           IN  /\ n \in Nat /\ t = [k \in 1..n |-> t[k]]
               /\ \E from \in [1..n -> Kept(text)] :
                     /\ \A k \in 1..n : t[k] = text[from[k]]
                     /\ \A k, l \in 1..n : k < l => from[k] < from[l]
                     /\ \A i \in Kept(text) : \E k \in 1..n : from[k] = i
<1> DEFINE K == Kept(text)
           n == Cardinality(K)
           from == [k \in 1..n |-> CHOOSE i \in K : Rank(text, i) = k]
           t == WithoutCR(text)
<1>1. /\ n \in Nat /\ \A i \in K : Rank(text, i) \in 1..n
      /\ \A i, j \in K : i < j => Rank(text, i) < Rank(text, j)
      /\ \A k \in 1..n : \E i \in K : Rank(text, i) = k
  BY RankIsPlace
<1>2. K \subseteq 1..Len(text)
  BY DEF Kept
<1>3. t = [k \in 1..n |-> text[from[k]]]
  BY DEF WithoutCR
<1> HIDE DEF t, n, K
<1>4. \A k \in 1..n : from[k] \in K /\ Rank(text, from[k]) = k
  BY <1>1
<1>5. from \in [1..n -> K]
  BY <1>4
<1>6. Len(t) = n
  <2> DEFINE S == {text[from[k]] : k \in 1..n}
  <2>1. t \in [1..n -> S]
    BY <1>3
  <2>2. t \in Seq(S)
    BY <1>1, <2>1
  <2>3. DOMAIN t = 1..n /\ DOMAIN t = 1..Len(t) /\ Len(t) \in Nat
    BY <2>1, <2>2, LenProperties
  <2> QED
    BY <1>1, <2>3
<1> HIDE DEF from
<1>7. \A k, l \in 1..n : k < l => from[k] < from[l]
  <2> SUFFICES ASSUME NEW k \in 1..n, NEW l \in 1..n, k < l, ~(from[k] < from[l]) PROVE FALSE
    OBVIOUS
  <2>1. from[k] \in Int /\ from[l] \in Int
    <3>1. \A i \in K : i \in Int
      BY <1>2
    <3> QED
      BY <1>4, <3>1
  <2>2. from[k] = from[l] \/ from[l] < from[k]
    BY <2>1
  <2>3. Rank(text, from[k]) = k /\ Rank(text, from[l]) = l /\ k \in Int /\ l \in Int
    BY <1>1, <1>4
  <2> QED
    BY <1>1, <1>4, <2>2, <2>3
<1>8. ASSUME NEW i \in K PROVE \E k \in 1..n : from[k] = i
  <2> DEFINE k == Rank(text, i)
  <2>1. k \in 1..n /\ from[k] \in K /\ Rank(text, from[k]) = k
    BY <1>1, <1>4
  <2>2. \A j \in K : j \in Int
    BY <1>2
  <2>3. from[k] < i \/ i < from[k] \/ from[k] = i
    BY <2>1, <2>2
  <2>4. k \in Int
    BY <1>1, <2>1
  <2> QED
    BY <1>1, <2>1, <2>3, <2>4
<1>9. \A k \in 1..n : t[k] = text[from[k]]
  BY <1>3
<1>10. t = [k \in 1..n |-> t[k]]
  BY <1>3
<1> QED
  BY <1>1, <1>5, <1>6, <1>7, <1>8, <1>9, <1>10 DEF t, K

\* What rstrip leaves: everything up to the last character that is not blank.
LEMMA NormalizedBody ==
    ASSUME NEW n \in Nat, NEW body, body = [k \in 1..n |-> body[k]], Len(body) = n
    PROVE  LET l == LastKept(body)
           IN  /\ l \in 0..n
               /\ l # 0 => body[l] \notin Blanks
               /\ \A i \in l + 1..n : body[i] \in Blanks
               /\ SubSeq(body, 1, l) = [i \in 1..l |-> body[i]]
<1> DEFINE dark == {i \in 1..n : body[i] \notin Blanks}
           l == LastKept(body)
<1>1. l \in dark \cup {0} /\ \A i \in dark : i <= l
  <2>1. \E m \in dark \cup {0} : \A i \in dark : i <= m
    BY LastOfPositions
  <2>2. l = CHOOSE m \in dark \cup {0} : \A i \in dark : i <= m
    BY DEF LastKept
  <2> HIDE DEF dark, l
  <2> QED
    BY <2>1, <2>2
<1> HIDE DEF l
<1>2. l \in 0..n /\ l \in Nat
  BY <1>1
<1>3. l # 0 => body[l] \notin Blanks
  BY <1>1
<1>4. \A i \in l + 1..n : body[i] \in Blanks
  BY <1>1, <1>2
<1>5. SubSeq(body, 1, l) = [i \in 1..l |-> body[i]]
  <2> DEFINE S == {body[k] : k \in 1..n}
  <2>1. 1 \in Int /\ l \in Int /\ \A i \in 1..l : body[i] \in S
    BY <1>2
  <2> DEFINE s == SubSeq(body, 1, l)
  <2> HIDE DEF S
  <2>2. /\ s \in Seq(S) /\ Len(s) = (IF 1 <= l THEN l - 1 + 1 ELSE 0)
        /\ \A i \in 1..l - 1 + 1 : s[i] = body[1 + i - 1]
    BY ONLY <2>1, SubSeqProperties
  <2> HIDE DEF s
  <2>3. Len(s) = l
    BY <1>2, <2>2
  <2>4. \A i \in 1..l : s[i] = body[i]
    <3> TAKE i \in 1..l
    <3>1. i \in 1..l - 1 + 1 /\ 1 + i - 1 = i
      BY <1>2
    <3>2. s[i] = body[1 + i - 1]
      BY <2>2, <3>1
    <3> QED
      BY <3>1, <3>2
  <2>5. s \in [1..l -> S]
    BY <2>2, <2>3, LenProperties
  <2> QED
    BY <2>4, <2>5 DEF s
<1> QED
  BY <1>2, <1>3, <1>4, <1>5 DEF l

\* Comparing normalised texts, of any length, is comparing them up to carriage
\* returns and the blanks at their ends (normalize_text_output, judge_text).
THEOREM NormalizedTexts ==
    ASSUME NEW a, NEW b, Len(a) \in Nat, Len(b) \in Nat
    PROVE  NormalizeText(a) = NormalizeText(b) <=> SameText(a, b)
<1> DEFINE x == WithoutCR(a)
           y == WithoutCR(b)
           m == Len(x)
           n == Len(y)
           p == LastKept(x)
           q == LastKept(y)
           At(t, i) == IF i <= Len(t) THEN t[i] ELSE "LF"
           Positions == 1..(m + n)
           Same == \A i \in Positions :
                      \/ At(x, i) = At(y, i)
                      \/ \A j \in Positions : j >= i => At(x, j) \in Blanks /\ At(y, j) \in Blanks
<1>1. m \in Nat /\ n \in Nat /\ x = [k \in 1..m |-> x[k]] /\ y = [k \in 1..n |-> y[k]]
  BY CRRemoved
<1> HIDE DEF x, y
<1>2. /\ p \in 0..m /\ (p # 0 => x[p] \notin Blanks) /\ \A i \in p + 1..m : x[i] \in Blanks
      /\ SubSeq(x, 1, p) = [i \in 1..p |-> x[i]]
  BY <1>1, NormalizedBody
<1>3. /\ q \in 0..n /\ (q # 0 => y[q] \notin Blanks) /\ \A i \in q + 1..n : y[i] \in Blanks
      /\ SubSeq(y, 1, q) = [i \in 1..q |-> y[i]]
  BY <1>1, NormalizedBody
<1>4. p \in Nat /\ q \in Nat /\ p <= m /\ q <= n
  BY <1>1, <1>2, <1>3
<1> HIDE DEF m, n, p, q
<1>5. /\ \A i \in Positions : i > p => At(x, i) \in Blanks
      /\ \A i \in Positions : i > q => At(y, i) \in Blanks
      /\ p # 0 => p \in Positions /\ At(x, p) \notin Blanks
      /\ q # 0 => q \in Positions /\ At(y, q) \notin Blanks
      /\ \A i \in 1..p : At(x, i) = x[i] /\ i \in Positions
      /\ \A i \in 1..q : At(y, i) = y[i] /\ i \in Positions
  BY <1>1, <1>2, <1>3, <1>4 DEF Blanks, m, n
<1> HIDE DEF At
<1>6. NormalizeText(a) = NormalizeText(b) <=> p = q /\ \A i \in 1..p : x[i] = y[i]
  <2>1. NormalizeText(a) = [i \in 1..p |-> x[i]] /\ NormalizeText(b) = [i \in 1..q |-> y[i]]
    BY <1>2, <1>3 DEF NormalizeText, x, y, p, q
  <2>2. ASSUME NormalizeText(a) = NormalizeText(b) PROVE p = q /\ \A i \in 1..p : x[i] = y[i]
    <3>1. DOMAIN NormalizeText(a) = 1..p /\ DOMAIN NormalizeText(b) = 1..q
      BY <2>1
    <3>2. 1..p = 1..q
      BY <2>2, <3>1
    <3>3. p = q
      BY <1>4, <3>2
    <3> QED
      BY <2>1, <2>2, <3>3
  <2> QED
    BY <2>1, <2>2
<1>7. SameText(a, b) <=> Same
  BY DEF SameText, x, y, m, n, At
<1>8. ASSUME p = q, \A i \in 1..p : x[i] = y[i] PROVE Same
  <2> SUFFICES ASSUME NEW i \in Positions
               PROVE  \/ At(x, i) = At(y, i)
                      \/ \A j \in Positions : j >= i => At(x, j) \in Blanks /\ At(y, j) \in Blanks
    OBVIOUS
  <2>1. CASE i <= p
    BY <1>4, <1>5, <1>8, <2>1
  <2>2. CASE i > p
    BY <1>4, <1>5, <1>8, <2>2
  <2>3. i <= p \/ i > p
    BY <1>1, <1>4
  <2> QED
    BY <2>1, <2>2, <2>3
<1>9. ASSUME Same PROVE p = q /\ \A i \in 1..p : x[i] = y[i]
  <2>1. ~(p < q)
    <3> SUFFICES ASSUME p < q PROVE FALSE
      OBVIOUS
    <3>1. q \in Positions /\ At(y, q) \notin Blanks /\ q >= q
      BY <1>4, <1>5
    <3>2. At(x, q) \in Blanks
      BY <1>4, <1>5, <3>1
    <3> QED
      BY <1>9, <3>1, <3>2
  <2>2. ~(q < p)
    <3> SUFFICES ASSUME q < p PROVE FALSE
      OBVIOUS
    <3>1. p \in Positions /\ At(x, p) \notin Blanks /\ p >= p
      BY <1>4, <1>5
    <3>2. At(y, p) \in Blanks
      BY <1>4, <1>5, <3>1
    <3> QED
      BY <1>9, <3>1, <3>2
  <2>3. p = q
    BY <1>4, <2>1, <2>2
  <2>4. ASSUME NEW i \in 1..p PROVE x[i] = y[i]
    <3>1. i \in Positions /\ p \in Positions /\ p >= i /\ At(x, p) \notin Blanks
      BY <1>4, <1>5
    <3>2. At(x, i) = At(y, i)
      BY <1>9, <3>1
    <3> QED
      BY <1>5, <2>3, <3>2
  <2> QED
    BY <2>3, <2>4
<1> QED
  BY <1>6, <1>7, <1>8, <1>9

-----------------------------------------------------------------------------
(***************************************************************************)
(* The judge.                                                              *)
(***************************************************************************)
\* What judge_text says of what was written: right if and only if the output is
\* the expected one, up to carriage returns and blanks at the ends.
LEMMA TextJudged ==
    ASSUME NEW s \in Specs("text"), NEW e,
           e.stdout \in Stdouts \cup {<<>>}, e.stderr \in Stderrs \cup {<<>>}
    PROVE  LET actual == e.stdout \o (IF s.stderr = "merge" THEN e.stderr ELSE <<>>)
               j == JudgeText(s, e)
           IN \/ j = Judgment("accepted", None) /\ SameText(actual, s.expected)
              \/ j = Judgment("wrong_answer", "output_mismatch") /\ ~SameText(actual, s.expected)
<1> DEFINE Chars == {"a", "b", "SP", "LF", "CR"}
           err == IF s.stderr = "merge" THEN e.stderr ELSE <<>>
           actual == e.stdout \o err
<1>1. Expected \in Seq(Chars) /\ s.expected = Expected
  BY DEF Expected, Specs
<1>2. <<>> \in Seq(Chars)
  OBVIOUS
<1>3. \A t \in Stdouts : t \in Seq(Chars)
  <2>1. <<"a", "SP", "b">> \in Seq(Chars) /\ <<"a", "b">> \in Seq(Chars)
    OBVIOUS
  <2>2. <<"a", "SP", "b", "CR", "LF", "SP", "LF">> \in Seq(Chars)
    OBVIOUS
  <2>3. <<"SP", "a", "SP", "b">> \in Seq(Chars)
    OBVIOUS
  <2> HIDE DEF Chars
  <2> QED
    BY <1>2, <2>1, <2>2, <2>3, Zenon DEF Stdouts
<1>4. \A t \in Stderrs : t \in Seq(Chars)
  <2>1. <<"LF">> \in Seq(Chars) /\ <<"b">> \in Seq(Chars)
    OBVIOUS
  <2> HIDE DEF Chars
  <2> QED
    BY <1>2, <2>1, Zenon DEF Stderrs
<1> HIDE DEF Chars
<1>5. e.stdout \in Seq(Chars) /\ err \in Seq(Chars)
  BY <1>3, <1>4, <1>2
<1> HIDE DEF err
<1>6. Len(actual) \in Nat /\ Len(s.expected) \in Nat
  BY <1>1, <1>5, ConcatProperties, LenProperties
<1>7. NormalizeText(actual) = NormalizeText(s.expected) <=> SameText(actual, s.expected)
  BY <1>6, NormalizedTexts
<1> QED
  BY <1>7 DEF JudgeText, err

\* What judge_image says of what was captured: right if and only if it is the
\* answer's image, whatever the bytes look like.
LEMMA ImageJudged ==
    ASSUME NEW s \in Specs("image"),
           NEW a \in {None} \cup {Artifact(Path, file) : file \in SomeFiles}
    PROVE  LET j == JudgeImage(s, a)
           IN \/ j = Judgment("accepted", None) /\ a = Artifact(Path, s.expected)
              \/ /\ \E why \in JudgeReasons \ {"timed_out", "non_zero_exit", "stderr_not_empty"} :
                       j = Judgment("wrong_image", why)
                 /\ a # Artifact(Path, s.expected)
<1> DEFINE G == Whole("same")
           j == JudgeImage(s, a)
           Others == JudgeReasons \ {"timed_out", "non_zero_exit", "stderr_not_empty"}
<1>1. s.path = Path /\ s.media = "gif" /\ s.expected = G
  BY DEF Specs
<1>2. DecodePixels(G, "gif") = "same" /\ "same" # None /\ "different" # None
  BY ContentsAssumption DEF DecodePixels, Whole
<1>3. {"artifact_missing", "artifact_invalid", "image_mismatch"} \subseteq Others
  BY DEF JudgeReasons
<1>4. G \in SomeFiles
  BY DEF SomeFiles
<1>5. CASE a = None
  <2>1. j = Judgment("wrong_image", "artifact_missing")
    BY <1>5 DEF JudgeImage
  <2>2. a # Artifact(Path, G)
    BY <1>4, <1>5, ContentsAssumption
  <2> QED
    BY <1>1, <1>3, <2>1, <2>2
<1>6. CASE a # None
  <2>1. PICK f \in SomeFiles : a = Artifact(Path, f)
    BY <1>6
  <2>2. a.path = Path /\ a.media = "gif" /\ a.file = f /\ Artifact(Path, G).file = G
    BY <2>1 DEF Artifact
  <2>3. j = IF f.outer # "gif" \/ DecodePixels(f, "gif") = None
            THEN Judgment("wrong_image", "artifact_invalid")
            ELSE IF DecodePixels(f, "gif") = "same" THEN Judgment("accepted", None)
            ELSE Judgment("wrong_image", "image_mismatch")
    BY <1>1, <1>2, <1>6, <2>2 DEF JudgeImage, MatchesMediaType
  <2>4. CASE f = G
    BY <1>1, <1>2, <2>1, <2>3, <2>4 DEF Whole
  <2>5. CASE f # G
    <3>1. f.outer # "gif" \/ DecodePixels(f, "gif") # "same"
      BY <2>5, <1>2 DEF SomeFiles, Whole, DecodePixels
    <3>2. a # Artifact(Path, G)
      BY <2>2, <2>5
    <3> QED
      BY <1>1, <1>3, <2>3, <3>1, <3>2
  <2> QED
    BY <2>4, <2>5
<1> QED
  BY <1>5, <1>6

\* The flags and the problem's policies, before anything is compared.
LEMMA Failures ==
    ASSUME NEW s, NEW i
    PROVE  LET f == PolicyFailure(s, i)
           IN \/ i.timed_out /\ f = Judgment("execution_failure", "timed_out")
              \/ ~i.timed_out /\ i.truncated /\ f = Judgment("execution_failure", "output_truncated")
              \/ /\ ~i.timed_out /\ ~i.truncated
                 /\ s.exit_code = "zero" /\ i.exit_code # 0
                 /\ f = Judgment("execution_failure", "non_zero_exit")
              \/ /\ ~i.timed_out /\ ~i.truncated
                 /\ s.stderr = "must_be_empty" /\ i.stderr # <<>>
                 /\ f = Judgment("execution_failure", "stderr_not_empty")
              \/ /\ ~i.timed_out /\ ~i.truncated
                 /\ s.exit_code = "zero" => i.exit_code = 0
                 /\ s.stderr = "must_be_empty" => i.stderr = <<>>
                 /\ f = None
BY DEF PolicyFailure

\* A judgment is not None.
LEMMA JudgmentsAreResults ==
    ASSUME NEW v \in JudgeVerdicts, NEW why \in JudgeReasons \cup {None}
    PROVE  Judgment(v, why) \in JudgeResults /\ Judgment(v, why) # None
BY NoneAssumption DEF Judgment, JudgeResults

\* The judge's outcomes, and what each says of the problem and of the
\* execution.
LEMMA JudgeCases ==
    ASSUME NEW type \in {"text", "image"}, NEW s \in Specs(type),
           NEW r \in Results, NEW e \in Executions(r)
    PROVE  LET j == JudgeExecution(s, e)
               code == IF e.exit_code = None THEN 0 ELSE e.exit_code
               allowed == /\ s.exit_code = "zero" => code = 0
                          /\ s.stderr = "must_be_empty" => e.stderr = <<>>
               flagged == e.status = "ERROR" \/ e.timed_out \/ e.truncated
           IN \/ e.status = "ERROR" /\ j = Judgment("execution_failure", "execution_error")
              \/ /\ e.status # "ERROR" /\ e.timed_out
                 /\ j = Judgment("execution_failure", "timed_out")
              \/ /\ e.status # "ERROR" /\ ~e.timed_out /\ e.truncated
                 /\ j = Judgment("execution_failure", "output_truncated")
              \/ /\ ~flagged /\ ~allowed
                 /\ j \in {Judgment("execution_failure", "non_zero_exit"),
                            Judgment("execution_failure", "stderr_not_empty")}
              \/ ~flagged /\ allowed /\ type = "text" /\ j = JudgeText(s, e)
              \/ ~flagged /\ allowed /\ type = "image" /\ j = JudgeImage(s, e.artifact)
<1> DEFINE code == IF e.exit_code = None THEN 0 ELSE e.exit_code
           i == [e EXCEPT !.exit_code = code]
           f == PolicyFailure(s, i)
           j == JudgeExecution(s, e)
           allowed == /\ s.exit_code = "zero" => code = 0
                      /\ s.stderr = "must_be_empty" => e.stderr = <<>>
<1>1. s # None /\ s.type = type
  BY ContentsAssumption DEF Specs
<1>2. /\ i.timed_out = e.timed_out /\ i.truncated = e.truncated
      /\ i.exit_code = code /\ i.stderr = e.stderr
  BY DEF Executions
<1>3. j = IF e.status = "ERROR" THEN Judgment("execution_failure", "execution_error")
          ELSE IF f # None THEN f
          ELSE IF type = "text" THEN JudgeText(s, i) ELSE JudgeImage(s, e.artifact)
  <2>1. j = IF s = None THEN Judgment("judge_error", "problem_not_found")
            ELSE IF ExecutionFailed(e) THEN Judgment("execution_failure", "execution_error")
            ELSE IF s.type = "text" THEN IF f # None THEN f ELSE JudgeText(s, i)
            ELSE IF f # None THEN f
            ELSE JudgeImage(s, e.artifact)
    BY DEF JudgeExecution
  <2> QED
    BY <1>1, <2>1 DEF ExecutionFailed
<1>4. JudgeText(s, i) = JudgeText(s, e)
  <2>1. i.stdout = e.stdout /\ i.stderr = e.stderr
    BY DEF Executions
  <2> QED
    BY <2>1 DEF JudgeText
<1>5. \A why \in {"timed_out", "output_truncated", "non_zero_exit", "stderr_not_empty"} :
         Judgment("execution_failure", why) # None
  BY JudgmentsAreResults DEF JudgeVerdicts, JudgeReasons
<1> HIDE DEF i, code, f, j
<1>6. \/ e.timed_out /\ f = Judgment("execution_failure", "timed_out")
      \/ ~e.timed_out /\ e.truncated /\ f = Judgment("execution_failure", "output_truncated")
      \/ /\ ~e.timed_out /\ ~e.truncated /\ ~allowed
         /\ f \in {Judgment("execution_failure", "non_zero_exit"),
                   Judgment("execution_failure", "stderr_not_empty")}
      \/ ~e.timed_out /\ ~e.truncated /\ allowed /\ f = None
  BY <1>2, Failures DEF f
<1> QED
  BY <1>3, <1>4, <1>5, <1>6 DEF j, code, f, i

-----------------------------------------------------------------------------
(***************************************************************************)
(* The judged execution.                                                   *)
(***************************************************************************)
\* What VerdictIsDeserved says of the verdict before anything is compared: only
\* a command the watchdog left alone and of whose output nothing was cut off is
\* judged, and only within the policies.  It came to its own end, or
\* begin_shutdown killed it and the problem ignores the exit code.
VerdictIsComplete ==
    judgment # None =>
        LET complete == /\ reason = NoReason /\ ~execution.truncated
                        /\ command = "exited" \/ CutByShutdown
        IN /\ CutByShutdown /\ spec.exit_code = "zero"
                 => judgment.verdict = "execution_failure"
           /\ judgment.verdict \in {"accepted", "wrong_answer", "wrong_image"} => complete /\ Allowed
           /\ judgment.reason = "timed_out" <=> reason = "timeout"
           /\ judgment.reason \in {"non_zero_exit", "stderr_not_empty"} => complete /\ ~Allowed

\* An image is accepted if it is the answer's, and wrong if it is not.
ImageIsCompared ==
    judgment # None /\ judgeType = "image" =>
        /\ judgment.verdict # "wrong_answer"
        /\ judgment.verdict = "accepted" => execution.artifact = Artifact(Path, spec.expected)
        /\ judgment.verdict = "wrong_image" => execution.artifact # Artifact(Path, spec.expected)

\* A text is accepted if it is the expected one, and wrong if it is not.
TextIsCompared ==
    judgment # None /\ judgeType = "text" =>
        /\ judgment.verdict # "wrong_image"
        /\ judgment.verdict = "accepted" => Answered
        /\ judgment.verdict = "wrong_answer" => ~Answered

\* The log entry and the image of a judged execution.
JudgedIsRecorded ==
    judgment # None =>
        /\ LogEntryAccepts(execution)
        /\ shown \in {None, execution.artifact} \/ shown.file = Whole("different")

JudgedInv ==
    /\ IInv
    /\ judgment # None => worker = "done"
    /\ JudgedTypeOK
    /\ VerdictIsComplete
    /\ ImageIsCompared
    /\ TextIsCompared
    /\ JudgedIsRecorded

\* What a judged problem and an execution look like from outside.
LEMMA JudgedParts ==
    ASSUME IInv, worker = "done",
           NEW s \in Specs(judgeType), NEW e \in Executions(result)
    PROVE  /\ result \in Results /\ Consistent(result) /\ StatusIsTrue
           /\ e.status = result.status /\ e.timed_out = result.timed_out
           /\ e.truncated = result.truncated
           /\ result.exit_code => e.exit_code # None
           /\ result.exit_code /\ command = "cut" => e.exit_code = 137
           /\ judgeType \in {"text", "image"}
           /\ e.artifact \in {None} \cup {Artifact(Path, file) : file \in SomeFiles}
           /\ e.stdout \in Stdouts \cup {<<>>} /\ e.stderr \in Stderrs \cup {<<>>}
<1>1. result \in Results /\ judgeType \in {"text", "image"} /\ Consistent(result) /\ StatusIsTrue
  BY DEF IInv, TypeOK, ResultInv, ResultIsValid
<1>2. e.status = result.status /\ e.timed_out = result.timed_out /\ e.truncated = result.truncated
  BY DEF Executions
<1>3. /\ result.exit_code => e.exit_code # None
      /\ result.exit_code /\ command = "cut" => e.exit_code = 137
  <2>1. /\ result.exit_code => e.exit_code \in Int
        /\ result.exit_code /\ command = "cut" => e.exit_code = 137
    BY DEF Executions
  <2> QED
    BY <2>1, NoneAssumption
<1>4. e.artifact \in {None} \cup {Artifact(Path, file) : file \in SomeFiles}
  BY DEF Executions, Stored
<1>5. e.stdout \in Stdouts \cup {<<>>} /\ e.stderr \in Stderrs \cup {<<>>}
  BY DEF Executions
<1> QED
  BY <1>1, <1>2, <1>3, <1>4, <1>5

\* The judgment of a result that has just come.
LEMMA Judging ==
    ASSUME JudgedInv, JudgeResult
    PROVE  /\ judgment' \in JudgeResults
           /\ judgment'.verdict \in {"accepted", "wrong_answer", "wrong_image", "execution_failure"}
           /\ VerdictIsComplete' /\ ImageIsCompared' /\ TextIsCompared'
<1>1. PICK s \in Specs(judgeType), e \in Executions(result) :
          spec' = s /\ execution' = e /\ judgment' = JudgeExecution(s, e)
  BY DEF JudgeResult
<1>2. worker = "done" /\ UNCHANGED vars /\ IInv
  BY DEF JudgeResult, JudgedInv
<1>3. /\ result \in Results /\ Consistent(result) /\ StatusIsTrue
      /\ e.status = result.status /\ e.timed_out = result.timed_out
      /\ e.truncated = result.truncated
      /\ result.exit_code => e.exit_code # None
      /\ result.exit_code /\ command = "cut" => e.exit_code = 137
      /\ judgeType \in {"text", "image"}
      /\ e.artifact \in {None} \cup {Artifact(Path, file) : file \in SomeFiles}
      /\ e.stdout \in Stdouts \cup {<<>>} /\ e.stderr \in Stderrs \cup {<<>>}
  BY <1>1, <1>2, JudgedParts
<1> DEFINE code == IF e.exit_code = None THEN 0 ELSE e.exit_code
           allowed == /\ s.exit_code = "zero" => code = 0
                      /\ s.stderr = "must_be_empty" => e.stderr = <<>>
           flagged == e.status = "ERROR" \/ e.timed_out \/ e.truncated
           complete == /\ reason = NoReason /\ ~e.truncated
                       /\ command = "exited" \/ CutByShutdown
           j == judgment'
<1>4. result # NoResult /\ result.status \in Statuses
  BY <1>3, ResultsAreResults DEF Results
<1>5. ~flagged => result.status = "COMPLETED" /\ result.exit_code /\ complete /\ e.exit_code # None
  BY <1>3, <1>4 DEF Consistent, StatusIsTrue, Statuses
<1>6. e.timed_out <=> reason = "timeout"
  BY <1>3, <1>4 DEF Consistent, StatusIsTrue, Statuses
<1>7. e.timed_out => e.status # "ERROR"
  BY <1>3 DEF Consistent
<1>8. reason' = reason /\ command' = command /\ killedBy' = killedBy /\ judgeType' = judgeType
  BY <1>2 DEF vars, watchdogVars
<1>9. \A v \in JudgeVerdicts, why \in JudgeReasons \cup {None} :
         /\ Judgment(v, why) \in JudgeResults
         /\ Judgment(v, why).verdict = v /\ Judgment(v, why).reason = why
  BY JudgmentsAreResults DEF Judgment
<1>10. \/ e.status = "ERROR" /\ j = Judgment("execution_failure", "execution_error")
       \/ e.status # "ERROR" /\ e.timed_out /\ j = Judgment("execution_failure", "timed_out")
       \/ /\ e.status # "ERROR" /\ ~e.timed_out /\ e.truncated
          /\ j = Judgment("execution_failure", "output_truncated")
       \/ /\ ~flagged /\ ~allowed
          /\ j \in {Judgment("execution_failure", "non_zero_exit"),
                    Judgment("execution_failure", "stderr_not_empty")}
       \/ ~flagged /\ allowed /\ judgeType = "text" /\ j = JudgeText(s, e)
       \/ ~flagged /\ allowed /\ judgeType = "image" /\ j = JudgeImage(s, e.artifact)
  BY <1>1, <1>3, JudgeCases
<1>11. judgeType = "image" =>
          \/ JudgeImage(s, e.artifact) = Judgment("accepted", None) /\ e.artifact = Artifact(Path, s.expected)
          \/ /\ \E why \in JudgeReasons \ {"timed_out", "non_zero_exit", "stderr_not_empty"} :
                   JudgeImage(s, e.artifact) = Judgment("wrong_image", why)
             /\ e.artifact # Artifact(Path, s.expected)
  <2>1. e.artifact \in {None} \cup {Artifact(Path, file) : file \in SomeFiles}
    BY <1>3
  <2> QED
    BY <1>1, <2>1, ImageJudged
<1>12. judgeType = "text" =>
          LET actual == e.stdout \o (IF s.stderr = "merge" THEN e.stderr ELSE <<>>)
          IN \/ JudgeText(s, e) = Judgment("accepted", None) /\ SameText(actual, s.expected)
             \/ /\ JudgeText(s, e) = Judgment("wrong_answer", "output_mismatch")
                /\ ~SameText(actual, s.expected)
  BY <1>1, <1>3, TextJudged
<1>13. /\ j \in JudgeResults
       /\ j.verdict \in {"accepted", "wrong_answer", "wrong_image", "execution_failure"}
  BY <1>9, <1>10, <1>11, <1>12 DEF JudgeVerdicts, JudgeReasons
<1>14. ~flagged => (Allowed' <=> allowed)
  BY <1>1, <1>5 DEF Allowed
<1>15. None # "timed_out" /\ None # "non_zero_exit" /\ None # "stderr_not_empty"
  BY NoneAssumption DEF JudgeReasons
<1>16. j.verdict \in {"accepted", "wrong_answer", "wrong_image"} => complete /\ Allowed'
  BY <1>5, <1>9, <1>10, <1>14 DEF JudgeVerdicts, JudgeReasons
<1>17. j.reason = "timed_out" <=> e.timed_out
  <2>1. CASE e.status = "ERROR"
    BY <1>7, <1>9, <1>10, <2>1 DEF JudgeVerdicts, JudgeReasons
  <2>2. CASE e.status # "ERROR" /\ e.timed_out
    BY <1>9, <1>10, <2>2 DEF JudgeVerdicts, JudgeReasons
  <2>3. CASE e.status # "ERROR" /\ ~e.timed_out
    <3>1. CASE j = JudgeImage(s, e.artifact) /\ judgeType = "image"
      BY <1>9, <1>11, <1>15, <2>3, <3>1 DEF JudgeVerdicts, JudgeReasons
    <3>2. CASE ~(j = JudgeImage(s, e.artifact) /\ judgeType = "image")
      BY <1>9, <1>10, <1>15, <1>12, <2>3, <3>2 DEF JudgeVerdicts, JudgeReasons
    <3> QED
      BY <3>1, <3>2
  <2> QED
    BY <2>1, <2>2, <2>3
<1>18. j.reason \in {"non_zero_exit", "stderr_not_empty"} => complete /\ ~Allowed'
  <2>1. CASE j = JudgeImage(s, e.artifact) /\ judgeType = "image"
    BY <1>9, <1>11, <1>15, <2>1 DEF JudgeVerdicts, JudgeReasons
  <2>2. CASE ~(j = JudgeImage(s, e.artifact) /\ judgeType = "image")
    BY <1>5, <1>9, <1>10, <1>14, <1>15, <1>12, <2>2 DEF JudgeVerdicts, JudgeReasons
  <2> QED
    BY <2>1, <2>2
<1>19. VerdictIsComplete'
  <2>1. CutByShutdown /\ s.exit_code = "zero" => flagged \/ ~allowed
    BY <1>3, <1>5, NoneAssumption DEF CutByShutdown
  <2>2. flagged \/ ~allowed => j.verdict = "execution_failure"
    BY <1>9, <1>10 DEF JudgeVerdicts, JudgeReasons
  <2>3. CutByShutdown' <=> CutByShutdown
    BY <1>8 DEF CutByShutdown
  <2> QED
    BY <1>1, <1>6, <1>8, <1>13, <1>16, <1>17, <1>18, <2>1, <2>2, <2>3 DEF VerdictIsComplete
<1>20. ImageIsCompared'
  BY <1>1, <1>8, <1>9, <1>10, <1>11 DEF ImageIsCompared, JudgeVerdicts, JudgeReasons
<1>21. TextIsCompared'
  <2>1. judgeType = "text" =>
           Answered' = SameText(e.stdout \o (IF s.stderr = "merge" THEN e.stderr ELSE <<>>), s.expected)
    BY <1>1, <1>8 DEF Answered
  <2> QED
    BY <1>8, <1>9, <1>10, <1>12, <2>1 DEF TextIsCompared, JudgeVerdicts, JudgeReasons
<1> QED
  BY <1>13, <1>19, <1>20, <1>21

\* What goes to the log and to the user with it.
LEMMA Recording ==
    ASSUME JudgedInv, JudgeResult
    PROVE  JudgedIsRecorded'
<1>1. PICK s \in Specs(judgeType), e \in Executions(result) :
          execution' = e /\ shown' = SelectDisplayArtifact(e)
  BY DEF JudgeResult
<1>2. worker = "done" /\ IInv
  BY DEF JudgeResult, JudgedInv
<1>3. LogEntryAccepts(e)
  <2>1. /\ Consistent(result)
        /\ e.status = result.status /\ e.timed_out = result.timed_out
        /\ e.truncated = result.truncated
        /\ result.exit_code => e.exit_code # None
    BY <1>1, <1>2, JudgedParts
  <2> QED
    BY <2>1 DEF LogEntryAccepts, Consistent
<1>4. e.display \in {None} \cup
         {Artifact("media/output.gif", f) : f \in {Whole("different"), [Whole("same") EXCEPT !.format = "other"]}}
  BY DEF Executions, Stored
<1>5. CASE SelectDisplayArtifact(e) = e.artifact
  BY <1>1, <1>3, <1>5 DEF JudgedIsRecorded
<1>6. CASE SelectDisplayArtifact(e) # e.artifact
  <2>1. e.display # None /\ DecodePixels(e.display.file, "gif") # None
        /\ SelectDisplayArtifact(e) = e.display
    BY <1>6 DEF SelectDisplayArtifact
  <2>2. PICK f \in {Whole("different"), [Whole("same") EXCEPT !.format = "other"]} :
            e.display = Artifact("media/output.gif", f)
    BY <1>4, <2>1
  <2>3. e.display.file = f
    BY <2>2 DEF Artifact
  <2>4. f.format = "gif"
    BY <2>1, <2>3 DEF DecodePixels
  <2>5. f = Whole("different")
    BY <2>4 DEF Whole
  <2> QED
    BY <1>1, <1>3, <2>1, <2>3, <2>5 DEF JudgedIsRecorded
<1> QED
  BY <1>5, <1>6

\* Only the command can still end once the worker has.
LEMMA AfterTheWorker ==
    ASSUME IInv, worker = "done", Execute, UNCHANGED judgedVars
    PROVE  /\ result' = result /\ worker' = "done" /\ judgeType' = judgeType
           /\ reason' = reason /\ killedBy' = killedBy
           /\ command' = command \/ (command = "running" /\ command' = "exited")
           /\ spec' = spec /\ execution' = execution /\ judgment' = judgment /\ shown' = shown
<1>1. [Next]_vars /\ ~Prepare /\ ~JoinAndClassify
  BY DEF Next, Prepare, JoinAndClassify
<1>2. UNCHANGED judgeType /\ UNCHANGED judgedVars
  BY DEF Execute
<1> QED
  BY <1>1, <1>2, ResultIsFinal DEF judgedVars

\* Every step of a judged execution keeps the invariant.
LEMMA JudgedNextInv ==
    ASSUME JudgedInv, [JudgedNext]_<<vars, judgedVars>>
    PROVE  JudgedInv'
<1>1. IInv'
  <2>1. [Next]_vars
    BY DEF JudgedNext, JudgeResult, Judged, Next
  <2> QED
    BY <2>1, ExecutionNext DEF JudgedInv
<1>2. CASE JudgeResult
  <2>1. /\ judgment' \in JudgeResults /\ VerdictIsComplete' /\ ImageIsCompared' /\ TextIsCompared'
        /\ JudgedIsRecorded'
        /\ judgment'.verdict \in {"accepted", "wrong_answer", "wrong_image", "execution_failure"}
    BY <1>2, Judging, Recording
  <2>2. worker' = "done" /\ worker' = worker /\ judgeType' = judgeType /\ result' = result /\ command' = command
    BY <1>2 DEF JudgeResult, vars, localVars
  <2>3. judgment' # None
    BY <2>1, NoneAssumption
  <2>4. spec' \in Specs(judgeType) /\ execution' \in Executions(result)
    BY <1>2 DEF JudgeResult
  <2>5. spec' \in Specs(judgeType') /\ execution' \in Executions(result)'
    BY <2>2, <2>4 DEF Executions
  <2>6. JudgedTypeOK'
    BY <1>1, <2>1, <2>3, <2>5 DEF JudgedTypeOK, IInv
  <2> QED
    BY <1>1, <2>1, <2>2, <2>6 DEF JudgedInv
<1>3. CASE Execute /\ UNCHANGED judgedVars
  <2>1. spec' = spec /\ execution' = execution /\ judgment' = judgment /\ shown' = shown
    BY <1>3 DEF judgedVars
  <2>2. CASE judgment = None
    BY <1>1, <2>1, <2>2 DEF JudgedInv, JudgedTypeOK, VerdictIsComplete, ImageIsCompared,
       TextIsCompared, JudgedIsRecorded, IInv
  <2>3. CASE judgment # None
    <3>1. worker = "done" /\ IInv
      BY <2>3 DEF JudgedInv
    <3>2. /\ result' = result /\ worker' = "done" /\ judgeType' = judgeType
          /\ reason' = reason /\ killedBy' = killedBy
          /\ command' = command \/ (command = "running" /\ command' = "exited")
      BY <1>3, <3>1, AfterTheWorker
    <3>3. Executions(result)' = Executions(result)
      BY <3>2 DEF Executions
    <3>4. JudgedTypeOK'
      <4>1. TypeOK'
        BY <1>1 DEF IInv
      <4>2. /\ spec \in Specs(judgeType) /\ execution \in Executions(result)
            /\ judgment.verdict \in {"accepted", "wrong_answer", "wrong_image", "execution_failure"}
        BY <2>3 DEF JudgedInv, JudgedTypeOK
      <4> QED
        BY <2>1, <2>3, <3>2, <3>3, <4>1, <4>2 DEF JudgedTypeOK
    <3>5. VerdictIsComplete'
      BY <2>1, <2>3, <3>2 DEF JudgedInv, VerdictIsComplete, Allowed, CutByShutdown
    <3>6. ImageIsCompared'
      BY <2>1, <2>3, <3>2 DEF JudgedInv, ImageIsCompared
    <3>7. TextIsCompared'
      BY <2>1, <2>3, <3>2 DEF JudgedInv, TextIsCompared, Answered
    <3>8. JudgedIsRecorded'
      BY <2>1, <2>3 DEF JudgedInv, JudgedIsRecorded, LogEntryAccepts
    <3> QED
      BY <1>1, <3>2, <3>4, <3>5, <3>6, <3>7, <3>8 DEF JudgedInv
  <2> QED
    BY <2>2, <2>3
<1>4. CASE UNCHANGED <<vars, judgedVars>>
  <2>1. /\ spec' = spec /\ execution' = execution /\ judgment' = judgment /\ shown' = shown
        /\ worker' = worker /\ judgeType' = judgeType /\ result' = result /\ command' = command
        /\ reason' = reason /\ killedBy' = killedBy
    BY <1>4 DEF vars, judgedVars, watchdogVars, localVars
  <2>2. Executions(result)' = Executions(result)
    BY <2>1 DEF Executions
  <2>3. JudgedTypeOK'
    BY <1>1, <2>1, <2>2 DEF JudgedInv, JudgedTypeOK, IInv
  <2>4. VerdictIsComplete' /\ ImageIsCompared' /\ TextIsCompared'
    BY <2>1 DEF JudgedInv, VerdictIsComplete, ImageIsCompared, TextIsCompared, Allowed, Answered,
       CutByShutdown
  <2>5. JudgedIsRecorded'
    BY <2>1 DEF JudgedInv, JudgedIsRecorded, LogEntryAccepts
  <2> QED
    BY <1>1, <2>1, <2>3, <2>4, <2>5 DEF JudgedInv
<1> QED
  BY <1>2, <1>3, <1>4 DEF JudgedNext, Judged

\* The inductive invariant with the judgment in it.
THEOREM JudgedInvariant == JudgedSpec => []JudgedInv
<1>1. JudgedInit => JudgedInv
  <2> SUFFICES ASSUME JudgedInit PROVE JudgedInv
    OBVIOUS
  <2>1. IInv
    BY ExecutionInit DEF JudgedInit
  <2> QED
    BY <2>1 DEF JudgedInit, JudgedInv, JudgedTypeOK, VerdictIsComplete, ImageIsCompared,
       TextIsCompared, JudgedIsRecorded, IInv
<1>2. JudgedInv /\ [JudgedNext]_<<vars, judgedVars>> => JudgedInv'
  BY JudgedNextInv
<1> QED
  BY <1>1, <1>2, PTL DEF JudgedSpec

\* The types of the execution and of what is made of it.
THEOREM TypeCorrect == JudgedSpec => []JudgedTypeOK
<1>1. JudgedInv => JudgedTypeOK
  BY DEF JudgedInv
<1> QED
  BY <1>1, JudgedInvariant, PTL

\* A container that release_container is told is stopped was killed, no
\* command runs in it, and no timer will still act on it (SandboxCleanup.stop).
THEOREM StopConfirmedHolds == JudgedSpec => []StopConfirmed
<1>1. JudgedInv => StopConfirmed
  BY DEF JudgedInv, IInv, ResultInv
<1> QED
  BY <1>1, JudgedInvariant, PTL

\* The status of a result is what happened, in whatever order the timer, the
\* byte limit, the end of the command and the shutdown came
\* (SandboxExecutor.execute): COMPLETED is a command that came to its own end
\* or, the one exception, that begin_shutdown killed.
THEOREM StatusIsTrueHolds == JudgedSpec => []StatusIsTrue
<1>1. JudgedInv => StatusIsTrue
  BY DEF JudgedInv, IInv, ResultInv
<1> QED
  BY <1>1, JudgedInvariant, PTL

\* Neither ExecutionResult nor ExecutionLogEntry rejects what the runner built,
\* and an image is shown only if it is the judged one or can be decoded.
THEOREM RecordsAreAcceptedHolds == JudgedSpec => []RecordsAreAccepted
<1>1. JudgedInv => RecordsAreAccepted
  BY DEF JudgedInv, IInv, ResultInv, JudgedIsRecorded, RecordsAreAccepted
<1> QED
  BY <1>1, JudgedInvariant, PTL

\* Only a command that the watchdog left alone, of whose output nothing was cut
\* off and that ended within the problem's policies is judged right or wrong;
\* it came to its own end or, if the problem ignores the exit code, begin_shutdown
\* killed it.  The timeout is blamed if and only if the watchdog claimed it
\* (ShellgeiJudge.judge), for text and images alike.
THEOREM VerdictIsCompleteHolds == JudgedSpec => []VerdictIsComplete
<1>1. JudgedInv => VerdictIsComplete
  BY DEF JudgedInv
<1> QED
  BY <1>1, JudgedInvariant, PTL

\* The answer is judged only if the command ended by itself, with nothing of its
\* output cut off, within the policies, or begin_shutdown killed it and the
\* problem ignores the exit code, and then what it has written is judged right:
\* an image if it is the answer's, a text if it is the expected one up to
\* carriage returns and blanks at the ends (ShellgeiJudge.judge, judge_image,
\* judge_text).
THEOREM VerdictIsDeservedHolds == JudgedSpec => []VerdictIsDeserved
<1>1. JudgedInv => VerdictIsDeserved
  <2> SUFFICES ASSUME JudgedInv, judgment # None PROVE VerdictIsDeserved
    BY DEF VerdictIsDeserved
  <2>1. VerdictIsComplete /\ ImageIsCompared /\ TextIsCompared /\ judgeType \in {"text", "image"}
    BY DEF JudgedInv, IInv, TypeOK
  <2>2. CASE judgeType = "text"
    BY <2>1, <2>2 DEF VerdictIsComplete, TextIsCompared, VerdictIsDeserved
  <2>3. CASE judgeType = "image"
    BY <2>1, <2>3 DEF VerdictIsComplete, ImageIsCompared, VerdictIsDeserved, Answered
  <2> QED
    BY <2>1, <2>2, <2>3
<1> QED
  BY <1>1, JudgedInvariant, PTL
=============================================================================
