----------------------------- MODULE Playground -----------------------------
(***************************************************************************)
(* The playground page of the frontend: which problem is selected and      *)
(* shown (frontend/src/tsx/playground.tsx) and what becomes of submissions *)
(* (tsx/run.tsx, functions/submit.tsx, api/client.ts).                     *)
(*                                                                         *)
(* Handlers and the continuations of promises run to their end, one at a   *)
(* time.  React and the router are external: a navigation changes the URL  *)
(* at once, the page renders the new location later, and the effects of    *)
(* that rendering run later still; anything may happen in between.  The    *)
(* server answers in any order or not at all, and the comments of the code *)
(* also expect a fetch that ignores its abort.                             *)
(***************************************************************************)
EXTENDS Integers, FiniteSets

CONSTANTS
    Problems,   \* ids in the form the API allows
    Default,    \* DEFAULT_PROBLEM_ID
    Commands,   \* commands of a valid length
    None,       \* no problem
    MaxMoves,   \* bound: navigations of the user
    MaxClicks   \* bound: clicks on the button

ASSUME DefaultAssumption == Default \in Problems
ASSUME BoundsAssumption == MaxMoves \in Nat /\ MaxClicks \in Nat

VARIABLES
    url,        \* problem parameter of the current location, or another page
    linkError,  \* location.state.problemLinkInvalid
    rendered,   \* location the page is rendered for
    effects,    \* location its effects last ran for
    problemVersion,   \* problemRequestVersion.current
    problemRequests,  \* problem fetches under way
    problem,          \* problem that is shown
    problemError,
    version,      \* submissionVersion.current
    active,       \* activeSubmission.current
    submissions,  \* submissions under way, each with the number of its click
    shown,        \* submissionState, and the click it is about
    latest,       \* history: the last click that was not a repetition
    moves, clicks

pageVars       == <<url, linkError, rendered, effects, moves>>
problemVars    == <<problemVersion, problemRequests, problem, problemError>>
submissionVars == <<version, active, submissions, shown, latest, clicks>>
vars == <<pageVars, problemVars, submissionVars>>

Invalid == "invalid"
About   == "about"
Locations == Problems \cup {Invalid, About}
\* An invalid parameter and another page are not problems.
ASSUME LocationsAssumption == {Invalid, About, None} \cap Problems = {} /\ None \notin {Invalid, About}
Selected(location) == IF location = Invalid THEN Default ELSE location

Idle == [kind |-> "idle", click |-> 0]
NotActive == [key |-> <<>>, version |-> 0]

Init ==
    /\ url \in Problems \cup {Invalid} /\ rendered = url /\ effects = None
    /\ linkError = FALSE
    /\ problemVersion = 0 /\ problemRequests = {} /\ problem = None /\ problemError = FALSE
    /\ version = 0 /\ active = NotActive /\ submissions = {} /\ shown = Idle
    /\ latest = 0 /\ moves = 0 /\ clicks = 0

-----------------------------------------------------------------------------
(* Which problem is selected and shown. *)

\* The user picks a problem, goes through the history, leaves the page or returns.
Navigate(location) ==
    /\ moves < MaxMoves /\ location # url
    /\ url' = location /\ linkError' = FALSE /\ moves' = moves + 1
    /\ UNCHANGED <<rendered, effects, problemVars, submissionVars>>

\* Effects of one rendering run before the next.
Render ==
    /\ rendered # url /\ effects = rendered
    /\ rendered' = url
    /\ UNCHANGED <<url, linkError, effects, moves, problemVars, submissionVars>>

\* changeProblemUrl(DEFAULT_PROBLEM_ID, true, true)
Redirect ==
    /\ url' = Default /\ linkError' = TRUE
    /\ UNCHANGED <<rendered, moves>>

Aborted(requests, v) == {[q EXCEPT !.aborted = @ \/ q.version = v] : q \in requests}

\* mutant: the effect of a problem cleans up nothing.
KeepsRequest == [version |-> problemVersion, requests |-> problemRequests]
\* What the effect of a problem leaves behind when its location is over.
CleanUp ==
    IF effects \in Problems
    THEN [version |-> problemVersion + 1, requests |-> Aborted(problemRequests, problemVersion)]
    ELSE [version |-> problemVersion, requests |-> problemRequests]

\* The effect of a valid location fetches the problem.
LoadProblem ==
    /\ rendered \in Problems
    /\ problem' = None /\ problemError' = FALSE
    /\ problemVersion' = CleanUp.version + 1
    /\ problemRequests' = Aborted(CleanUp.requests, problemVersion)
          \cup {[problem |-> rendered, version |-> CleanUp.version + 1, aborted |-> FALSE]}
    /\ UNCHANGED <<url, linkError, rendered, moves, submissionVars>>

RejectLocation ==
    /\ rendered = Invalid
    /\ Redirect
    /\ problemVersion' = CleanUp.version /\ problemRequests' = CleanUp.requests
    /\ UNCHANGED <<problem, problemError, submissionVars>>

\* The page is left: the effects of both components clean up, and their state
\* goes.  The next page has its own refs; here they count on, so that a late
\* continuation of the old page finds its version outdated as it does there.
Unmount ==
    /\ rendered = About
    /\ problemVersion' = CleanUp.version /\ problemRequests' = CleanUp.requests
    /\ version' = version + 1 /\ active' = NotActive
    /\ submissions' = Aborted(submissions, active.version)
    /\ problem' = None /\ problemError' = FALSE /\ shown' = Idle /\ latest' = 0
    /\ UNCHANGED <<url, linkError, rendered, moves, clicks>>

RunEffects ==
    /\ effects # rendered /\ effects' = rendered
    /\ LoadProblem \/ RejectLocation \/ Unmount

Ended(q) == problemRequests' = problemRequests \ {q}

ShowProblem(q) ==
    /\ q \in problemRequests /\ Ended(q)
    /\ problem' = IF q.version = problemVersion THEN q.problem ELSE problem
    /\ UNCHANGED <<problemVersion, problemError, pageVars, submissionVars>>

\* The catch of the effect: an unknown problem is replaced by the default one.
ProblemFails(q, notFound) ==
    /\ q \in problemRequests /\ Ended(q)
    /\ \/ /\ q.aborted \/ q.version # problemVersion
          /\ UNCHANGED <<pageVars, problemError>>
       \/ /\ ~q.aborted /\ q.version = problemVersion
          /\ notFound /\ q.problem # Default
          /\ Redirect
          /\ UNCHANGED <<effects, problemError>>
       \/ /\ ~q.aborted /\ q.version = problemVersion
          /\ ~notFound \/ q.problem = Default
          /\ problemError' = TRUE
          /\ UNCHANGED pageVars
    /\ UNCHANGED <<problemVersion, problem, submissionVars>>

-----------------------------------------------------------------------------
(* Submissions. *)

\* prepareSubmission finds the command empty or too long.
RejectCommand ==
    /\ rendered # About /\ clicks < MaxClicks
    /\ clicks' = clicks + 1 /\ latest' = clicks + 1
    /\ version' = version + 1 /\ active' = NotActive
    /\ submissions' = Aborted(submissions, active.version)
    /\ shown' = [kind |-> "validation_error", click |-> clicks + 1]
    /\ UNCHANGED <<pageVars, problemVars>>

\* The same command for the same problem is under way.
IgnoreRepeated(key) == active # NotActive /\ active.key = key

Submit(command) ==
    LET key == <<Selected(rendered), command>>
    IN /\ rendered # About /\ clicks < MaxClicks
       /\ ~IgnoreRepeated(key)
       /\ clicks' = clicks + 1 /\ latest' = clicks + 1
       /\ version' = version + 1
       /\ active' = [key |-> key, version |-> version + 1]
       /\ submissions' = Aborted(submissions, active.version)
             \cup {[key |-> key, version |-> version + 1, aborted |-> FALSE, click |-> clicks + 1]}
       /\ shown' = [kind |-> "running", click |-> clicks + 1]
       /\ UNCHANGED <<pageVars, problemVars>>

\* mutant: the answer is shown whatever has been clicked since.
AnyAnswer(s) == TRUE
IsCurrent(s) == s.version = version

\* submit has settled, and its continuation in submitClick runs.
Settles(s, kind) ==
    /\ s \in submissions /\ submissions' = submissions \ {s}
    /\ IF IsCurrent(s)
       THEN active' = NotActive /\ shown' = [kind |-> kind, click |-> s.click]
       ELSE UNCHANGED <<active, shown>>
    /\ UNCHANGED <<version, latest, clicks, pageVars, problemVars>>

\* fetchJson: the timer of 20 seconds wins the race, or anything else does.
TimerFires(s) == Settles(s, "failed")
\* mutant: the fetch is given no timeout.
NoTimer(s) == FALSE /\ Settles(s, "failed")
Timeout(s) == TimerFires(s)
Answered(s) == \E kind \in {"succeeded", "failed"} : Settles(s, kind)

-----------------------------------------------------------------------------
AtRest ==
    /\ url = rendered /\ rendered = effects /\ problemRequests = {} /\ submissions = {}
    /\ UNCHANGED vars

Next ==
    \/ \E location \in Locations : Navigate(location)
    \/ Render
    \/ RunEffects
    \/ \E q \in problemRequests : ShowProblem(q) \/ \E n \in BOOLEAN : ProblemFails(q, n)
    \/ RejectCommand
    \/ \E command \in Commands : Submit(command)
    \/ \E s \in submissions : Answered(s)
    \/ \E s \in submissions : Timeout(s)
    \/ AtRest

\* The browser renders, runs effects and fires timers; servers need not answer.
Fairness ==
    /\ WF_vars(Render) /\ WF_vars(RunEffects)
    /\ WF_vars(\E s \in submissions : Timeout(s))

Spec == Init /\ [][Next]_vars /\ Fairness

-----------------------------------------------------------------------------
\* On the page, the state is about the last click, "running" stands for a fetch
\* that goes on, and at most this one does (submitClick; frontend/README.md,
\* "提出状態と通信の中断").
LatestSubmissionShown ==
    effects # About =>
        /\ shown.click = latest
        /\ \A s \in submissions : ~s.aborted => shown.kind = "running" /\ s.click = latest
        /\ shown.kind = "running" => \E s \in submissions : ~s.aborted /\ s.key = active.key

\* Once the effects have run the problem shown is the selected one, and a 404
\* only leads away from the problem it is about, never from the page that came
\* after it (the effect of Playground and its clean-up).
SelectionDecidesProblem ==
    [][/\ effects' = rendered' /\ rendered' \in Problems => problem' \in {None, rendered'}
       /\ url' # url /\ moves' = moves =>
             effects' = Invalid \/ \E q \in problemRequests \ problemRequests' : q.problem = effects]_vars

\* A submission does not stay "running", though the server may never answer
\* (fetchJson's race with its timer).
SubmissionsSettle ==
    shown.kind = "running" /\ effects # About ~> shown.kind # "running" \/ effects = About
=============================================================================
