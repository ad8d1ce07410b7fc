------------------------ MODULE SubmissionPathProofs ------------------------
(***************************************************************************)
(* Proofs about SubmissionPath, for every number of submissions, client    *)
(* slots, runner slots, revisions, runner restarts and failing starts.     *)
(***************************************************************************)
EXTENDS SubmissionPath, FiniteSetTheorems, TLAPS

\* Who a taken client slot belongs to: a request that waits for its call, or
\* the callback of a call that was left behind.
SlotHolders == {r \in Requests : request[r] = "executing"} \cup callbacks
SlotsHeld   == slots + Cardinality(SlotHolders) = Capacity

\* A callback is registered only for a call whose request is over, and runs
\* when the call is done.
CallbacksPending == \A r \in callbacks : request[r] = "done" /\ call[r] \in Pending

\* What is known of a submission from where its coroutine is.
RequestInv(r) ==
    /\ request[r] = "new" => call[r] = "none"
    /\ request[r] = "executing" => call[r] # "none"
    /\ request[r] = "saving" => HasResult(r)
    /\ request[r] # "done" => answer[r] = "none"
    /\ request[r] \in {"new", "executing"} => save[r] = "none"

\* What is known of the command from the state of the call ...
CallInv(r) ==
    /\ call[r] \in {"none", "queued", "sending"} => job[r] = "none"
    /\ call[r] = "result" => job[r] = "ended"
    /\ call[r] = "error" => job[r] \notin {"none", "rejected"}
    /\ call[r] = "busy" => job[r] = "rejected"
\* ... and of the revision it ran with.
JobInv(r) ==
    /\ job[r] \in {"none", "arrived", "rejected"} => ranUnder[r] = None
    /\ job[r] \in {"running", "ended"} => ranUnder[r] = Revision
    /\ ranUnder[r] \in {None, Revision}

\* What an answer or a row goes back to.
AnswerInv(r) ==
    /\ answer[r] = "busy" => call[r] \in {"none", "busy"}
    /\ save[r] # "none" \/ answer[r] \in {"saved", "unsaved"} => HasResult(r)
    /\ r \in logged => save[r] \in {"saved", "failed"}
    /\ save[r] = "saved" => r \in logged
    /\ answer[r] = "saved" => save[r] = "saved"

PathInv == \A r \in Requests : RequestInv(r) /\ CallInv(r) /\ JobInv(r) /\ AnswerInv(r)

\* The inductive invariant.
IInv == TypeOK /\ SlotsHeld /\ CallbacksPending /\ PathInv

-----------------------------------------------------------------------------
\* One holder more or less is one more or less, and no holder stands twice.
LEMMA Holding ==
    ASSUME NEW S \in SUBSET Requests
    PROVE  /\ Cardinality(S) \in Nat
           /\ \A r \in Requests \ S : Cardinality(S \cup {r}) = Cardinality(S) + 1
           /\ \A r \in S : Cardinality(S \ {r}) = Cardinality(S) - 1
<1>1. IsFiniteSet(S)
  BY RequestsAssumption, FS_Subset
<1> QED
  BY <1>1, FS_CardinalityType, FS_AddElement, FS_RemoveElement

\* A slot that stays with its holder.
LEMMA SlotKept ==
    ASSUME IInv, UNCHANGED slots, SlotHolders' = SlotHolders
    PROVE  SlotsHeld' /\ slots' \in 0..Capacity
BY DEF IInv, TypeOK, SlotsHeld

\* A slot that is taken.
LEMMA SlotTaken ==
    ASSUME IInv, slots > 0, slots' = slots - 1,
           NEW r \in Requests \ SlotHolders, SlotHolders' = SlotHolders \cup {r}
    PROVE  SlotsHeld' /\ slots' \in 0..Capacity
<1>1. SlotHolders \in SUBSET Requests
  BY DEF IInv, TypeOK, SlotHolders
<1> QED
  BY <1>1, Holding, CapacityAssumption DEF IInv, TypeOK, SlotsHeld

\* A slot that is returned.
LEMMA SlotReturned ==
    ASSUME IInv, slots' = slots + 1,
           NEW r \in SlotHolders, SlotHolders' = SlotHolders \ {r}
    PROVE  SlotsHeld' /\ slots' \in 0..Capacity
<1>1. SlotHolders \in SUBSET Requests /\ SlotHolders' \in SUBSET Requests
  BY DEF IInv, TypeOK, SlotHolders
<1>2. slots' + Cardinality(SlotHolders') = Capacity
  BY <1>1, Holding, CapacityAssumption DEF IInv, TypeOK, SlotsHeld
<1> QED
  BY <1>1, <1>2, Holding, CapacityAssumption DEF IInv, TypeOK, SlotsHeld

\* The future of a call is done: its callback returns the slot if the request
\* has left, and else the request still holds it.
LEMMA SlotCallDone ==
    ASSUME IInv, NEW r \in Requests, NEW outcome \in Outcomes,
           CallDone(r, outcome), UNCHANGED request
    PROVE  SlotsHeld' /\ slots' \in 0..Capacity
<1>1. CASE r \in callbacks
  <2>1. SlotHolders' = SlotHolders \ {r} /\ r \in SlotHolders
    BY <1>1 DEF CallDone, SlotHolders, IInv, CallbacksPending
  <2> QED
    BY <1>1, <2>1, SlotReturned DEF CallDone
<1>2. CASE r \notin callbacks
  <2>1. SlotHolders' = SlotHolders
    BY <1>2 DEF CallDone, SlotHolders
  <2> QED
    BY <1>2, <2>1, SlotKept DEF CallDone
<1> QED
  BY <1>1, <1>2

\* An answer to a call keeps the slots with their holders.
LEMMA SlotReply ==
    ASSUME IInv, NEW r \in Requests, NEW outcome \in Outcomes,
           Reply(r, outcome), UNCHANGED request
    PROVE  SlotsHeld' /\ slots' \in 0..Capacity
<1>1. CASE call[r] = "waiting"
  BY <1>1, SlotCallDone DEF Reply
<1>2. CASE call[r] # "waiting"
  BY <1>2, SlotKept DEF Reply, callVars, SlotHolders
<1> QED
  BY <1>1, <1>2

\* The slots through every step.
LEMMA SlotsNext ==
    ASSUME IInv, [Next]_vars
    PROVE  SlotsHeld' /\ slots' \in 0..Capacity
<1> USE DEF SlotHolders, Respond, coroutineVars, callVars, saveVars, runnerVars, boundVars
<1>1. ASSUME NEW r \in Requests, NotFound(r) \/ ClientBusy(r) \/ ExecuteRaises(r)
      PROVE  SlotsHeld' /\ slots' \in 0..Capacity
  <2>1. SlotHolders' = SlotHolders
    BY <1>1 DEF NotFound, ClientBusy, ExecuteRaises, Arrives, IInv, TypeOK
  <2> QED
    BY <1>1, <2>1, SlotKept DEF NotFound, ClientBusy, ExecuteRaises
<1>2. ASSUME NEW r \in Requests, Execute(r)
      PROVE  SlotsHeld' /\ slots' \in 0..Capacity
  <2>1. r \notin SlotHolders /\ SlotHolders' = SlotHolders \cup {r}
    BY <1>2 DEF Execute, Arrives, IInv, TypeOK, CallbacksPending
  <2> QED
    BY <1>2, <2>1, SlotTaken DEF Execute
<1>3. ASSUME NEW r \in Requests, ResumeRejected(r) \/ Resume(r)
      PROVE  SlotsHeld' /\ slots' \in 0..Capacity
  <2>1. r \in SlotHolders /\ SlotHolders' = SlotHolders \ {r}
    BY <1>3 DEF ResumeRejected, Resume, IInv, TypeOK, CallbacksPending
  <2> QED
    BY <1>3, <2>1, SlotReturned DEF ResumeRejected, Resume
<1>4. ASSUME NEW r \in Requests, ResumeSaved(r) \/ SaveEnds(r) \/ TakeCall(r) \/ Send(r) \/ Run(r)
      PROVE  SlotsHeld' /\ slots' \in 0..Capacity
  <2>1. SlotHolders' = SlotHolders /\ UNCHANGED slots
    BY <1>4 DEF ResumeSaved, SaveEnds, TakeCall, Send, Run, IInv, TypeOK
  <2> QED
    BY <2>1, SlotKept
<1>5. ASSUME NEW r \in Requests, SendFails(r) \/ HttpTimeout(r) \/ GiveUp(r)
      PROVE  SlotsHeld' /\ slots' \in 0..Capacity
  BY <1>5, SlotCallDone DEF SendFails, HttpTimeout, GiveUp, Outcomes
<1>6. ASSUME NEW r \in Requests, RejectRevision(r) \/ RejectBusy(r) \/ Finish(r)
      PROVE  SlotsHeld' /\ slots' \in 0..Capacity
  BY <1>6, SlotReply DEF RejectRevision, RejectBusy, Finish, Outcomes
<1>7. ASSUME NEW r \in Requests, Cancel(r)
      PROVE  SlotsHeld' /\ slots' \in 0..Capacity
  <2>1. CASE request[r] = "executing" /\ call[r] \in Outcomes
    <3>1. r \in SlotHolders /\ SlotHolders' = SlotHolders \ {r}
      BY <1>7, <2>1 DEF Cancel, ReleaseWhenDone, IInv, TypeOK, CallbacksPending
    <3> QED
      BY <1>7, <2>1, <3>1, SlotReturned DEF Cancel, ReleaseWhenDone
  <2>2. CASE request[r] = "executing" /\ call[r] \notin Outcomes
    <3>1. SlotHolders' = SlotHolders /\ UNCHANGED slots
      BY <1>7, <2>2 DEF Cancel, ReleaseWhenDone, IInv, TypeOK
    <3> QED
      BY <3>1, SlotKept
  <2>3. CASE request[r] = "saving"
    <3>1. SlotHolders' = SlotHolders /\ UNCHANGED slots
      BY <1>7, <2>3 DEF Cancel, IInv, TypeOK
    <3> QED
      BY <3>1, SlotKept
  <2> QED
    BY <1>7, <2>1, <2>2, <2>3 DEF Cancel
<1>8. CASE RunnerStops \/ (\E v \in Revisions : RunnerStarts(v)) \/ AtRest \/ UNCHANGED vars
  <2>1. SlotHolders' = SlotHolders /\ UNCHANGED slots
    BY <1>8 DEF RunnerStops, RunnerStarts, AtRest, vars
  <2> QED
    BY <2>1, SlotKept
<1> QED
  BY <1>1, <1>2, <1>3, <1>4, <1>5, <1>6, <1>7, <1>8 DEF Next, Coroutine, Worker

-----------------------------------------------------------------------------
\* The invariant through every step, given the slots.
LEMMA PathNext ==
    ASSUME IInv, [Next]_vars, slots' \in 0..Capacity
    PROVE  TypeOK' /\ CallbacksPending' /\ PathInv'
<1> DEFINE Goal == TypeOK' /\ CallbacksPending' /\ PathInv'
<1> USE RevisionAssumption, BoundsAssumption
        DEF IInv, TypeOK, CallbacksPending, PathInv, RequestInv, CallInv, JobInv, AnswerInv,
            HasResult, Pending, Outcomes, Rejected, Respond, CallDone, Reply, Arrives,
            coroutineVars, callVars, saveVars, runnerVars, boundVars
<1>1. ASSUME NEW r \in Requests, NotFound(r) PROVE Goal
  BY <1>1 DEF NotFound
<1>2. ASSUME NEW r \in Requests, ClientBusy(r) PROVE Goal
  BY <1>2 DEF ClientBusy
<1>3. ASSUME NEW r \in Requests, Execute(r) PROVE Goal
  BY <1>3 DEF Execute
<1>4. ASSUME NEW r \in Requests, ExecuteRaises(r) PROVE Goal
  BY <1>4 DEF ExecuteRaises
<1>5. ASSUME NEW r \in Requests, TakeCall(r) PROVE Goal
  BY <1>5 DEF TakeCall
<1>6. ASSUME NEW r \in Requests, Send(r) PROVE Goal
  BY <1>6 DEF Send, Runner!Arrive, Runner!Becomes
<1>7. ASSUME NEW r \in Requests, SendFails(r) PROVE Goal
  BY <1>7 DEF SendFails
<1>8. ASSUME NEW r \in Requests, HttpTimeout(r) PROVE Goal
  BY <1>8 DEF HttpTimeout
<1>9. ASSUME NEW r \in Requests, RejectRevision(r) PROVE Goal
  BY <1>9 DEF RejectRevision, RevisionMatches, Runner!Reject, Runner!Becomes
<1>10. ASSUME NEW r \in Requests, RejectBusy(r) PROVE Goal
  BY <1>10 DEF RejectBusy, RevisionMatches, Runner!Reject, Runner!Becomes
<1>11. ASSUME NEW r \in Requests, Run(r) PROVE Goal
  BY <1>11 DEF Run, RevisionMatches, Runner!Run, Runner!Becomes
<1>12. ASSUME NEW r \in Requests, Finish(r) PROVE Goal
  BY <1>12 DEF Finish, Runner!End, Runner!Becomes
<1>13. ASSUME NEW r \in Requests, ResumeRejected(r) PROVE Goal
  BY <1>13 DEF ResumeRejected
<1>14. ASSUME NEW r \in Requests, Resume(r) PROVE Goal
  BY <1>14 DEF Resume, Saves!Accept
<1>15. ASSUME NEW r \in Requests, SaveEnds(r) PROVE Goal
  BY <1>15 DEF SaveEnds, Saves!Save, Saves!Fail, Saves!Pending
<1>16. ASSUME NEW r \in Requests, ResumeSaved(r) PROVE Goal
  BY <1>16 DEF ResumeSaved
<1>17. ASSUME NEW r \in Requests, Cancel(r) PROVE Goal
  BY <1>17 DEF Cancel, ReleaseWhenDone
<1>18. CASE RunnerStops
  BY <1>18 DEF RunnerStops, Runner!Kill
<1>19. ASSUME NEW v \in Revisions, RunnerStarts(v) PROVE Goal
  BY <1>19 DEF RunnerStarts
<1>20. CASE AtRest \/ UNCHANGED vars
  BY <1>20 DEF AtRest, vars
<1>21. ASSUME NEW r \in Requests, GiveUp(r) PROVE Goal
  BY <1>21 DEF GiveUp
<1> QED
  BY <1>1, <1>2, <1>3, <1>4, <1>5, <1>6, <1>7, <1>8, <1>9, <1>10, <1>11, <1>12, <1>13, <1>14, <1>15, <1>16, <1>17, <1>18, <1>19, <1>20, <1>21 DEF Next, Coroutine, Worker

\* Nothing is held and nothing has run at the start.
LEMMA PathInit == Init => IInv
<1> SUFFICES ASSUME Init PROVE IInv
  OBVIOUS
<1>1. SlotHolders = {}
  BY DEF Init, SlotHolders
<1>2. SlotsHeld
  BY <1>1, FS_EmptySet, CapacityAssumption DEF Init, SlotsHeld
<1> QED
  BY <1>2, CapacityAssumption, BoundsAssumption, RevisionAssumption
     DEF Init, IInv, TypeOK, CallbacksPending, PathInv, RequestInv, CallInv, JobInv,
         AnswerInv, HasResult

\* Every client slot is free or has one holder, and each submission's answer,
\* row, call and command fit together.
THEOREM PathInvariant == Spec => []IInv
<1>1. IInv /\ [Next]_vars => IInv'
  <2> SUFFICES ASSUME IInv, [Next]_vars PROVE IInv'
    OBVIOUS
  <2>1. SlotsHeld' /\ slots' \in 0..Capacity
    BY SlotsNext
  <2> QED
    BY <2>1, PathNext DEF IInv
<1> QED
  BY PathInit, <1>1, PTL DEF Spec

\* Every variable keeps its type; RunnerClient's slots stay within its capacity.
THEOREM TypeCorrect == Spec => []TypeOK
<1>1. IInv => TypeOK
  BY DEF IInv
<1> QED
  BY PathInvariant, <1>1, PTL

\* Who is told "busy" may submit again (status 429 of execute_shellgei,
\* RunnerBusyError of RunnerClient).
THEOREM BusyNeverRanHolds == Spec => []BusyNeverRan
<1>1. IInv => BusyNeverRan
  BY DEF IInv, PathInv, CallInv, JobInv, AnswerInv, BusyNeverRan
<1> QED
  BY PathInvariant, <1>1, PTL

\* A verdict or a row that stands for what a command wrote follows the end of
\* its execution with the backend's problems; every other one stands for the
\* error result of an endpoint that gave the command up
\* (SubmitSolutionService._submit, the revision check of execute_shellgei,
\* run_with_timeout).
THEOREM LogFollowsExecutionHolds == Spec => []LogFollowsExecution
<1>1. IInv => LogFollowsExecution
  BY DEF IInv, PathInv, CallInv, JobInv, AnswerInv, HasResult, LogFollowsExecution
<1> QED
  BY PathInvariant, <1>1, PTL

-----------------------------------------------------------------------------
\* Every step of a submission is, for the store, one that the store promises, or
\* none: a save is accepted once, and ends once.
LEMMA SavesNext ==
    ASSUME TypeOK, [Next]_vars
    PROVE  [Saves!Next]_(Saves!vars)
<1> USE DEF Saves!Next, Saves!vars, saveVars
<1>1. ASSUME NEW r \in Requests, Resume(r)
      PROVE  [Saves!Next]_(Saves!vars)
  BY <1>1 DEF Resume
<1>2. ASSUME NEW r \in Requests, SaveEnds(r)
      PROVE  [Saves!Next]_(Saves!vars)
  <2>1. CASE Saves!Save(r)
    BY <2>1
  <2>2. ASSUME NEW kept \in SUBSET {r}, Saves!Fail({r}, kept)
        PROVE  Saves!Next
    <3>1. {r} \in SUBSET Saves!Pending
      BY <2>2 DEF Saves!Fail
    <3> QED
      BY <2>2, <3>1
  <2> QED
    BY <1>2, <2>1, <2>2 DEF SaveEnds
<1>3. ASSUME NEW r \in Requests,
             \/ NotFound(r) \/ ClientBusy(r) \/ Execute(r) \/ ExecuteRaises(r)
             \/ ResumeRejected(r) \/ ResumeSaved(r) \/ Worker(r) \/ Cancel(r)
             \/ RejectRevision(r) \/ RejectBusy(r) \/ Run(r) \/ GiveUp(r) \/ Finish(r)
      PROVE  UNCHANGED saveVars
  BY <1>3 DEF NotFound, ClientBusy, Execute, ExecuteRaises, ResumeRejected, ResumeSaved,
              Worker, TakeCall, Send, SendFails, HttpTimeout, Cancel, RejectRevision,
              RejectBusy, Run, GiveUp, Finish
<1>4. CASE RunnerStops \/ (\E v \in Revisions : RunnerStarts(v)) \/ AtRest \/ UNCHANGED vars
  BY <1>4 DEF RunnerStops, RunnerStarts, AtRest, vars
<1> QED
  BY <1>1, <1>2, <1>3, <1>4 DEF Next, Coroutine

\* For the runner's executor it is a step of the command service, or none.
LEMMA RunnerNext ==
    ASSUME TypeOK, [Next]_vars
    PROVE  [Runner!Next]_job
<1> USE DEF Runner!Next, runnerVars
<1>1. ASSUME NEW r \in Requests,
             Send(r) \/ RejectRevision(r) \/ RejectBusy(r) \/ Run(r) \/ Finish(r)
      PROVE  Runner!Next
  BY <1>1 DEF Send, RejectRevision, RejectBusy, Run, Finish
<1>2. CASE RunnerStops
  BY <1>2 DEF RunnerStops
<1>3. ASSUME NEW r \in Requests,
             \/ NotFound(r) \/ ClientBusy(r) \/ Execute(r) \/ ExecuteRaises(r)
             \/ Coroutine(r) \/ TakeCall(r) \/ SendFails(r) \/ HttpTimeout(r)
             \/ SaveEnds(r) \/ Cancel(r) \/ GiveUp(r)
      PROVE  UNCHANGED job
  BY <1>3 DEF NotFound, ClientBusy, Execute, ExecuteRaises, Coroutine, ResumeRejected,
              Resume, ResumeSaved, TakeCall, SendFails, HttpTimeout, SaveEnds, Cancel, GiveUp
<1>4. CASE (\E v \in Revisions : RunnerStarts(v)) \/ AtRest \/ UNCHANGED vars
  BY <1>4 DEF RunnerStarts, AtRest, vars
<1> QED
  BY <1>1, <1>2, <1>3, <1>4 DEF Next, Worker

\* A submission's cancellations, timeouts and restarts of the runner ask nothing
\* of the log store and of the runner's executor that these two are not proved to
\* give (_submit, execute_shellgei).
THEOREM PathUsesServices == Spec => Saves!Spec /\ Runner!Spec
<1>1. Init => Saves!Init /\ Runner!Init
  BY DEF Init, Saves!Init, Runner!Init
<1>2. TypeOK /\ [Next]_vars => [Saves!Next]_(Saves!vars) /\ [Runner!Next]_job
  BY SavesNext, RunnerNext
<1> QED
  BY <1>1, <1>2, TypeCorrect, PTL DEF Spec, Saves!Spec, Runner!Spec
=============================================================================
