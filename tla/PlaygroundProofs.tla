-------------------------- MODULE PlaygroundProofs --------------------------
(***************************************************************************)
(* Proofs about Playground, for every set of problems and commands and     *)
(* every number of navigations and clicks.                                 *)
(***************************************************************************)
EXTENDS Playground, TLAPS

\* The steps of the page, one disjunct each.
LEMMA NextCases ==
    ASSUME [Next]_vars
    PROVE  \/ \E location \in Locations : Navigate(location)
           \/ Render
           \/ RunEffects
           \/ \E q \in problemRequests : ShowProblem(q)
           \/ \E q \in problemRequests, n \in BOOLEAN : ProblemFails(q, n)
           \/ RejectCommand
           \/ \E command \in Commands : Submit(command)
           \/ \E s \in submissions, kind \in {"succeeded", "failed"} : Settles(s, kind)
           \/ UNCHANGED vars
BY DEF Next, Answered, Timeout, TimerFires, AtRest

-----------------------------------------------------------------------------
(***************************************************************************)
(* Where the page is                                                       *)
(***************************************************************************)
PageInv ==
    /\ url \in Locations /\ rendered \in Locations
    /\ effects \in Locations \cup {None}
    /\ moves \in Nat

\* The page opens at a location of its own and stays at locations of the site.
LEMMA PageInit == Init => PageInv
BY DEF Init, PageInv, Locations

\* Every step leads from location to location.
LEMMA PageNext == PageInv /\ [Next]_vars => PageInv'
<1> SUFFICES ASSUME PageInv, [Next]_vars PROVE PageInv'
  OBVIOUS
<1> USE DefaultAssumption DEF PageInv, Redirect, pageVars, Locations
<1>1. ASSUME NEW location \in Locations, Navigate(location) PROVE PageInv'
  BY <1>1 DEF Navigate
<1>2. CASE Render
  BY <1>2 DEF Render
<1>3. CASE RunEffects
  BY <1>3 DEF RunEffects, LoadProblem, RejectLocation, Unmount
<1>4. ASSUME NEW q \in problemRequests, NEW n \in BOOLEAN, ShowProblem(q) \/ ProblemFails(q, n)
      PROVE  PageInv'
  BY <1>4 DEF ShowProblem, ProblemFails
<1>5. ASSUME NEW command \in Commands, Submit(command) PROVE PageInv'
  BY <1>5 DEF Submit
<1>6. ASSUME NEW s \in submissions, NEW kind \in {"succeeded", "failed"}, Settles(s, kind)
      PROVE  PageInv'
  BY <1>6 DEF Settles
<1>7. CASE UNCHANGED vars
  BY <1>7 DEF vars
<1>8. CASE RejectCommand
  BY <1>8 DEF RejectCommand
<1> QED
  BY <1>1, <1>2, <1>3, <1>4, <1>5, <1>6, <1>7, <1>8, NextCases

-----------------------------------------------------------------------------
(***************************************************************************)
(* Submissions                                                             *)
(***************************************************************************)
SubmissionTypes ==
    /\ version \in Nat /\ clicks \in Nat /\ latest \in Nat
    /\ active \in [key : {<<>>} \cup (Locations \X Commands), version : Nat]
    /\ submissions \subseteq
          [key : Locations \X Commands, version : Nat, aborted : BOOLEAN, click : Nat]
    /\ shown.click \in Nat

\* A submission is known by its version, which the page has passed or is at.
OneVersionEach ==
    /\ \A s \in submissions : s.version \in 1..version
    /\ \A s, u \in submissions : s.version = u.version => s = u

\* What goes on is of the current version, the active one, the last click and
\* what is shown; what is of the current version has not been aborted.
GoingOn ==
    \A s \in submissions : ~s.aborted =>
        /\ s.version = version /\ s.click = latest
        /\ active = [key |-> s.key, version |-> version]
        /\ shown.kind = "running"
CurrentGoesOn == \A s \in submissions : s.version = version => ~s.aborted
RunningGoesOn ==
    shown.kind = "running" => \E s \in submissions : ~s.aborted /\ s.key = active.key
ShownIsLatest == shown.click = latest

SubmissionInv ==
    /\ SubmissionTypes /\ OneVersionEach
    /\ GoingOn /\ CurrentGoesOn /\ RunningGoesOn /\ ShownIsLatest

\* Nothing has been submitted at the start.
LEMMA SubmissionInit == Init => SubmissionInv
BY DEF Init, Idle, NotActive, SubmissionInv, SubmissionTypes, OneVersionEach, GoingOn,
       CurrentGoesOn, RunningGoesOn, ShownIsLatest

\* An abort of the active submission leaves nothing going on, and no
\* submission changes but for it.
LEMMA AbortedSubmissions ==
    ASSUME SubmissionInv
    PROVE  LET after == Aborted(submissions, active.version)
           IN /\ after \subseteq
                    [key : Locations \X Commands, version : Nat, aborted : BOOLEAN, click : Nat]
              /\ \A s \in after : s.aborted /\ s.version \in 1..version
              /\ \A s, u \in after : s.version = u.version => s = u
<1> DEFINE abort(s) == [s EXCEPT !.aborted = @ \/ s.version = active.version]
           after == Aborted(submissions, active.version)
<1>1. after = {abort(s) : s \in submissions}
  BY DEF Aborted
<1>2. ASSUME NEW s \in submissions
      PROVE  /\ abort(s) \in [key : Locations \X Commands, version : Nat,
                              aborted : BOOLEAN, click : Nat]
             /\ abort(s).aborted
             /\ abort(s).version = s.version
             /\ s.version \in 1..version
  <2>1. s \in [key : Locations \X Commands, version : Nat, aborted : BOOLEAN, click : Nat]
    BY DEF SubmissionInv, SubmissionTypes
  <2>2. s.aborted \/ s.version = active.version
    BY DEF SubmissionInv, GoingOn
  <2>3. abort(s).aborted = (s.aborted \/ s.version = active.version)
    BY <2>1
  <2> QED
    BY <2>1, <2>2, <2>3 DEF SubmissionInv, OneVersionEach
<1>3. \A s, u \in submissions : s.version = u.version => s = u
  BY DEF SubmissionInv, OneVersionEach
<1> HIDE DEF abort
<1> QED
  BY <1>1, <1>2, <1>3

\* Every step keeps the last click, what is shown and what goes on together.
LEMMA SubmissionNext == PageInv /\ SubmissionInv /\ [Next]_vars => SubmissionInv'
<1> SUFFICES ASSUME PageInv, SubmissionInv, [Next]_vars PROVE SubmissionInv'
  OBVIOUS
<1> DEFINE after == Aborted(submissions, active.version)
<1>0. /\ after \subseteq
            [key : Locations \X Commands, version : Nat, aborted : BOOLEAN, click : Nat]
      /\ \A s \in after : s.aborted /\ s.version \in 1..version
      /\ \A s, u \in after : s.version = u.version => s = u
  BY AbortedSubmissions
<1> HIDE DEF after
<1> USE DEF SubmissionInv, SubmissionTypes, OneVersionEach, GoingOn, CurrentGoesOn,
            RunningGoesOn, ShownIsLatest
<1>1. CASE UNCHANGED submissionVars
  BY <1>1 DEF submissionVars
<1>2. CASE RejectCommand
  <2>1. /\ version' = version + 1 /\ clicks' = clicks + 1 /\ latest' = clicks + 1
        /\ active' = NotActive /\ submissions' = after
        /\ shown' = [kind |-> "validation_error", click |-> clicks + 1]
    BY <1>2 DEF RejectCommand, after
  <2> QED
    BY <1>0, <2>1 DEF NotActive
<1>3. CASE RunEffects /\ Unmount
  <2>1. /\ version' = version + 1 /\ clicks' = clicks /\ latest' = 0
        /\ active' = NotActive /\ submissions' = after /\ shown' = Idle
    BY <1>3 DEF Unmount, after
  <2> QED
    BY <1>0, <2>1 DEF NotActive, Idle
<1>4. ASSUME NEW command \in Commands, Submit(command) PROVE SubmissionInv'
  <2> DEFINE key == <<Selected(rendered), command>>
             new == [key |-> key, version |-> version + 1, aborted |-> FALSE, click |-> clicks + 1]
  <2>1. /\ version' = version + 1 /\ clicks' = clicks + 1 /\ latest' = clicks + 1
        /\ active' = [key |-> key, version |-> version + 1]
        /\ submissions' = after \cup {new}
        /\ shown' = [kind |-> "running", click |-> clicks + 1]
    BY <1>4 DEF Submit, after
  <2>2. key \in Locations \X Commands
    BY DefaultAssumption DEF PageInv, Selected, Locations
  <2>3. /\ new \in [key : Locations \X Commands, version : Nat, aborted : BOOLEAN, click : Nat]
        /\ new.key = key /\ new.version = version + 1 /\ ~new.aborted /\ new.click = clicks + 1
    BY <2>2
  <2>4. /\ active' \in [key : {<<>>} \cup (Locations \X Commands), version : Nat]
        /\ active'.key = key
        /\ shown'.kind = "running" /\ shown'.click = clicks + 1
    BY <2>1, <2>2
  <2> HIDE DEF key, new
  <2>5. SubmissionTypes'
    BY <1>0, <2>1, <2>3, <2>4
  <2>6. OneVersionEach'
    <3>1. \A s \in submissions' : s = new \/ (s \in after /\ s.version \in 1..version)
      BY <1>0, <2>1
    <3>2. \A s \in submissions' : s.version \in 1..version'
      BY <2>1, <2>3, <3>1
    <3>3. \A s, u \in submissions' : s.version = u.version => s = u
      BY <1>0, <2>3, <3>1
    <3> QED
      BY <3>2, <3>3
  <2>7. GoingOn' /\ CurrentGoesOn'
    BY <1>0, <2>1, <2>3, <2>4
  <2>8. RunningGoesOn' /\ ShownIsLatest'
    BY <2>1, <2>3, <2>4
  <2> QED
    BY <2>5, <2>6, <2>7, <2>8
<1>5. ASSUME NEW s \in submissions, NEW kind \in {"succeeded", "failed"}, Settles(s, kind)
      PROVE  SubmissionInv'
  <2>1. CASE IsCurrent(s)
    <3>1. /\ submissions' = submissions \ {s} /\ UNCHANGED <<version, latest, clicks>>
          /\ active' = NotActive /\ shown' = [kind |-> kind, click |-> s.click]
          /\ s.version = version
      BY <1>5, <2>1 DEF Settles, IsCurrent
    <3>2. s.click = latest
      BY <3>1
    <3>3. \A u \in submissions' : u.aborted
      BY <3>1
    <3> QED
      BY <3>1, <3>2, <3>3 DEF NotActive
  <2>2. CASE ~IsCurrent(s)
    BY <1>5, <2>2 DEF Settles, IsCurrent
  <2> QED
    BY <2>1, <2>2
<1> QED
  BY <1>1, <1>2, <1>3, <1>4, <1>5, NextCases
     DEF Navigate, Render, RunEffects, LoadProblem, RejectLocation, ShowProblem, ProblemFails, vars

\* In every reachable state of the page.
THEOREM SubmissionInvariant == Spec => [](PageInv /\ SubmissionInv)
BY PageInit, PageNext, SubmissionInit, SubmissionNext, PTL DEF Spec

\* The state shown is about the last click, and "running" about the only fetch
\* that goes on (submitClick, the clean-up of its effect).
THEOREM LatestSubmissionShownHolds == Spec => []LatestSubmissionShown
<1>1. SubmissionInv => LatestSubmissionShown
  BY DEF SubmissionInv, GoingOn, RunningGoesOn, ShownIsLatest, LatestSubmissionShown
<1> QED
  BY <1>1, SubmissionInvariant, PTL

-----------------------------------------------------------------------------
(***************************************************************************)
(* The selected problem                                                    *)
(***************************************************************************)
\* A fetch is for a problem, has a version, and may be aborted.
Fetches == [problem : Problems, version : Nat, aborted : BOOLEAN]

\* The page has passed the version of each fetch or is at it, and one that is of
\* the current version is for the problem of the location the effects ran for.
RequestTypes ==
    /\ problemVersion \in Nat
    /\ problemRequests \subseteq Fetches
    /\ \A q \in problemRequests : q.version <= problemVersion
CurrentIsSelected ==
    \A q \in problemRequests :
        q.version = problemVersion => effects \in Problems /\ q.problem = effects
ShownIsSelected == effects \in Problems => problem \in {None, effects}

SelectionInv == RequestTypes /\ CurrentIsSelected /\ ShownIsSelected

\* Nothing is fetched or shown at the start.
LEMMA SelectionInit == Init => SelectionInv
BY LocationsAssumption
   DEF Init, SelectionInv, RequestTypes, CurrentIsSelected, ShownIsSelected

\* An aborted fetch keeps its problem and its version.
LEMMA AbortedFetches ==
    ASSUME NEW requests \in SUBSET Fetches, NEW v
    PROVE  /\ Aborted(requests, v) \subseteq Fetches
           /\ \A q \in Aborted(requests, v) : \E p \in requests :
                 p.version = q.version /\ p.problem = q.problem
<1>1. ASSUME NEW p \in requests
      PROVE  LET q == [p EXCEPT !.aborted = @ \/ p.version = v]
             IN  q \in Fetches /\ p.version = q.version /\ p.problem = q.problem
  BY DEF Fetches
<1> QED
  BY <1>1 DEF Aborted

\* The clean-up outdates the fetch of the location that is left.
LEMMA CleanedUp ==
    ASSUME SelectionInv
    PROVE  /\ CleanUp.version \in Nat /\ CleanUp.version >= problemVersion
           /\ CleanUp.requests \subseteq Fetches
           /\ \A q \in CleanUp.requests : q.version < CleanUp.version \/ q.version < problemVersion
           /\ \A q \in CleanUp.requests : q.version <= problemVersion
<1> USE DEF SelectionInv, RequestTypes, Fetches
<1>1. CASE effects \in Problems
  <2>1. /\ CleanUp.version = problemVersion + 1
        /\ CleanUp.requests = Aborted(problemRequests, problemVersion)
    BY <1>1 DEF CleanUp
  <2> QED
    BY <2>1, AbortedFetches
<1>2. CASE effects \notin Problems
  <2>1. CleanUp.version = problemVersion /\ CleanUp.requests = problemRequests
    BY <1>2 DEF CleanUp
  <2> QED
    BY <1>2, <2>1 DEF CurrentIsSelected
<1> QED
  BY <1>1, <1>2

\* Every step keeps the problem that is shown, or fetched, the selected one.
LEMMA SelectionNext == SelectionInv /\ [Next]_vars => SelectionInv'
<1> SUFFICES ASSUME SelectionInv, [Next]_vars PROVE SelectionInv'
  OBVIOUS
<1>1. CASE UNCHANGED <<effects, problemVars>>
  BY <1>1 DEF SelectionInv, RequestTypes, CurrentIsSelected, ShownIsSelected, problemVars
<1>2. CASE RunEffects /\ LoadProblem
  <2> DEFINE new == [problem |-> rendered, version |-> CleanUp.version + 1, aborted |-> FALSE]
             old == Aborted(CleanUp.requests, problemVersion)
  <2>1. /\ problemVersion' = CleanUp.version + 1
        /\ problemRequests' = old \cup {new}
        /\ problem' = None /\ effects' = rendered /\ rendered \in Problems
    BY <1>2 DEF RunEffects, LoadProblem
  <2>2. CleanUp.version \in Nat /\ CleanUp.version >= problemVersion /\ problemVersion \in Nat
    BY CleanedUp DEF SelectionInv, RequestTypes
  <2>3. new \in Fetches /\ new.version = CleanUp.version + 1 /\ new.problem = rendered
    BY <2>1, <2>2 DEF Fetches
  <2>4. old \subseteq Fetches /\ \A q \in old : q.version <= problemVersion
    BY CleanedUp, AbortedFetches
  <2>5. \A q \in old : q.version \in Nat
    BY <2>4 DEF Fetches
  <2> HIDE DEF new, old
  <2> QED
    BY <2>1, <2>2, <2>3, <2>4, <2>5
       DEF SelectionInv, RequestTypes, CurrentIsSelected, ShownIsSelected
<1>3. CASE RunEffects /\ (RejectLocation \/ Unmount)
  <2>1. /\ problemVersion' = CleanUp.version /\ problemRequests' = CleanUp.requests
        /\ effects' \in {Invalid, About}
    BY <1>3 DEF RunEffects, RejectLocation, Unmount
  <2>2. \A q \in CleanUp.requests : q.version \in Nat
    BY CleanedUp DEF Fetches
  <2>3. problemVersion \in Nat
    BY DEF SelectionInv, RequestTypes
  <2> QED
    BY <2>1, <2>2, <2>3, CleanedUp, LocationsAssumption
       DEF SelectionInv, RequestTypes, CurrentIsSelected, ShownIsSelected
<1>4. ASSUME NEW q \in problemRequests, ShowProblem(q) PROVE SelectionInv'
  BY <1>4 DEF ShowProblem, Ended, pageVars, SelectionInv, RequestTypes, CurrentIsSelected,
              ShownIsSelected
<1>5. ASSUME NEW q \in problemRequests, NEW n \in BOOLEAN, ProblemFails(q, n) PROVE SelectionInv'
  <2>1. /\ problemRequests' = problemRequests \ {q}
        /\ UNCHANGED <<effects, problemVersion, problem>>
    BY <1>5 DEF ProblemFails, Ended, pageVars
  <2> QED
    BY <2>1 DEF SelectionInv, RequestTypes, CurrentIsSelected, ShownIsSelected
<1> QED
  BY <1>1, <1>2, <1>3, <1>4, <1>5, NextCases
     DEF Navigate, Render, RunEffects, RejectCommand, Submit, Settles, pageVars, vars

\* In every reachable state of the page.
THEOREM SelectionInvariant == Spec => []SelectionInv
BY SelectionInit, SelectionNext, PTL DEF Spec

\* The problem shown is the selected one once the effects have run, and a 404
\* moves the user only away from the problem it is about (the effect of
\* Playground, its clean-up and its catch).
THEOREM SelectionDecidesProblemHolds == Spec => SelectionDecidesProblem
<1>1. ASSUME PageInv, SelectionInv, SelectionInv', [Next]_vars
      PROVE  /\ effects' = rendered' /\ rendered' \in Problems => problem' \in {None, rendered'}
             /\ url' # url /\ moves' = moves =>
                   effects' = Invalid \/ \E q \in problemRequests \ problemRequests' :
                                             q.problem = effects
  <2>1. effects' = rendered' /\ rendered' \in Problems => problem' \in {None, rendered'}
    BY <1>1 DEF SelectionInv, ShownIsSelected
  <2>2. ASSUME url' # url, moves' = moves
        PROVE  effects' = Invalid \/ \E q \in problemRequests \ problemRequests' :
                                         q.problem = effects
    <3>1. ASSUME NEW q \in problemRequests, NEW n \in BOOLEAN, ProblemFails(q, n)
          PROVE  q.problem = effects /\ q \notin problemRequests'
      BY <1>1, <2>2, <3>1 DEF ProblemFails, Ended, pageVars, SelectionInv, CurrentIsSelected
    <3>2. ASSUME RunEffects PROVE effects' = Invalid
      BY <2>2, <3>2 DEF RunEffects, LoadProblem, RejectLocation, Unmount
    <3>3. \A location : ~Navigate(location)
      BY <1>1, <2>2 DEF Navigate, PageInv
    <3> QED
      BY <1>1, <2>2, <3>1, <3>2, <3>3, NextCases
         DEF Render, ShowProblem, RejectCommand, Submit, Settles, pageVars, vars
  <2> QED
    BY <2>1, <2>2
<1> QED
  BY <1>1, SubmissionInvariant, SelectionInvariant, PTL DEF Spec, SelectionDecidesProblem
=============================================================================
