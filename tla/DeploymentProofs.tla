--------------------------- MODULE DeploymentProofs ---------------------------
(***************************************************************************)
(* Proofs about Deployment, for any number of commits and versions of the  *)
(* code, failing steps, kills and restarts.                                *)
(***************************************************************************)
EXTENDS Deployment, TLAPS

\* Production is what last passed the public test.
Tested ==
    /\ override = verified
    /\ schema = Code(verified)
    /\ \A s \in Services : image[s] = verified
    /\ ~byHand => current = verified

Unmarked == {"load", "candidate", "mark", "clear"}
Marked   == {"stop", "install", "migrate", "start", "verify", "record", "unmark"}
Failed   == {"handle", "halt", "idle", "preflight"}

\* FAILED stands over every change, and over a migration that nobody waits for.
MarkInv ==
    /\ ~marker => Tested
    /\ pc \in Unmarked => ~marker
    /\ pc \in Marked => marker
    /\ orphan # 0 => marker /\ pc \in Failed

\* What the update has done when it comes to a step.
StageInv ==
    /\ pc = "load" => checkout <= sha
    /\ pc \in {"candidate"} \cup Stopped => checkout = sha
    /\ pc \in {"migrate", "start", "verify", "record", "unmark"} => override = sha
    /\ pc \in {"start", "verify", "record", "unmark"} => schema = Code(sha)
    /\ pc \in {"verify", "record", "unmark"} => \A s \in Services : image[s] = sha
    /\ pc \in {"record", "unmark"} => verified = sha
    /\ pc = "unmark" => current = sha

\* No backend serves while a migration may run, unless the daemon brought it back.
ServingInv ==
    /\ BackendMatchesSchema
    /\ pc \in {"install", "migrate"} \/ orphan # 0 => broughtBack \/ "backend" \notin up

\* A failure that was handled keeps the reception stopped until FAILED goes, a
\* refused update in between or not.
FailureInv ==
    pc \in {"idle", "preflight"} /\ marker /\ ~interrupted => up \cap Reception = {}

\* The inductive invariant.
IInv == TypeOK /\ MarkInv /\ StageInv /\ ServingInv /\ FailureInv /\ RecordedIsDeployed

-----------------------------------------------------------------------------
(***************************************************************************)
(* Steps and sequences.                                                    *)
(***************************************************************************)
\* The order of the update's steps, written out.
Steps == {"mark", "stop", "install", "migrate", "start", "verify", "record", "unmark", "clear"}
From(before, after) == pc = before /\ pc' = after

\* What Phases and the set Stopped say of each step.
LEMMA PhaseOrder ==
    /\ Stopped = Steps
    /\ Advance => \/ From("mark", "stop")
                  \/ From("stop", "install")
                  \/ From("install", "migrate")
                  \/ From("migrate", "start")
                  \/ From("start", "verify")
                  \/ From("verify", "record")
                  \/ From("record", "unmark")
                  \/ From("unmark", "clear")
<1> DEFINE Places == {1, 2, 3, 4, 5, 6, 7, 8, 9}
<1>1. DOMAIN Phases = Places /\ Len(Phases) = 9
  BY DEF Phases
<1>2. /\ Phases[1] = "mark" /\ Phases[2] = "stop" /\ Phases[3] = "install" /\ Phases[4] = "migrate"
      /\ Phases[5] = "start" /\ Phases[6] = "verify" /\ Phases[7] = "record" /\ Phases[8] = "unmark"
      /\ Phases[9] = "clear"
  BY DEF Phases
<1>3. Stopped = Steps
  BY <1>1, <1>2 DEF Stopped, Steps
<1>4. ASSUME NEW i \in Places, i < 9, pc = Phases[i], pc' = Phases[i + 1]
      PROVE  \/ From("mark", "stop")
             \/ From("stop", "install")
             \/ From("install", "migrate")
             \/ From("migrate", "start")
             \/ From("start", "verify")
             \/ From("verify", "record")
             \/ From("record", "unmark")
             \/ From("unmark", "clear")
  BY <1>2, <1>4 DEF From
<1> QED
  BY <1>1, <1>3, <1>4 DEF Advance

\* A push leaves the code of the commits before it.
LEMMA CodeKept ==
    ASSUME IInv, [Next]_vars
    PROVE  /\ commits' \in Seq(Codes) /\ Len(commits') \in 1..MaxCommits /\ Len(commits) <= Len(commits')
           /\ \A c \in Commits : c \in Nat /\ c \in Commits' /\ Code(c)' = Code(c) /\ Code(c) \in Codes
<1>1. commits \in Seq(Codes) /\ Len(commits) \in 1..MaxCommits /\ Len(commits) \in Nat
  BY BoundsAssumption DEF IInv, TypeOK
<1>2. \A c \in Commits : c \in Nat /\ Code(c) \in Codes
  BY <1>1 DEF Commits, Code
<1>3. CASE Push
  <2>1. PICK code \in Codes : commits' = Append(commits, code)
    BY <1>3 DEF Push
  <2>2. Len(commits') = Len(commits) + 1 /\ commits' \in Seq(Codes)
    BY <1>1, <2>1
  <2>3. Len(commits') \in 1..MaxCommits
    BY <1>1, <1>3, <2>2, BoundsAssumption DEF Push
  <2>4. \A c \in 1..Len(commits) : commits'[c] = commits[c]
    BY <1>1, <2>1
  <2> QED
    BY <1>1, <1>2, <2>2, <2>3, <2>4 DEF Commits, Code
<1>4. CASE UNCHANGED commits
  BY <1>1, <1>2, <1>4 DEF Commits, Code
<1>5. Push \/ UNCHANGED commits
  BY DEF Next, Workflow, UpdateStep, vars, hostVars, StartRun, GateSkips, GatePasses, Transfer, RunEnds,
         Launch, ReadBack, Refuse, Preflight, Merge, Candidate, Mark, Stop, Install, Migrate, StartServices,
         Verify, Record, Unmark, Clear, StepFails, Handle, Halt, Raise, Kill, OrphanEnds, DaemonRestarts,
         Recover
<1> QED
  BY <1>3, <1>4, <1>5

\* A push, or a step of the workflow.
Elsewhere == UNCHANGED hostVars

\* The steps, one disjunct for each kind.
LEMMA NextCases ==
    ASSUME [Next]_vars
    PROVE  \/ Elsewhere \/ Launch
           \/ Refuse \/ Preflight \/ Merge \/ Candidate \/ Mark \/ Stop \/ Install \/ Migrate
           \/ StartServices \/ Verify \/ Record \/ Unmark \/ Clear \/ StepFails \/ Handle \/ Halt
           \/ Raise \/ Kill \/ OrphanEnds \/ DaemonRestarts \/ Recover
BY DEF Next, Workflow, UpdateStep, Push, StartRun, GateSkips, GatePasses, Transfer, RunEnds, ReadBack,
       Elsewhere, vars

\* Every commit that the host knows is one of main, at most that of the checkout.
LEMMA KnownCommits ==
    ASSUME IInv
    PROVE  /\ sha \in Commits /\ checkout \in Commits /\ override \in Commits /\ current \in Commits
           /\ verified \in Commits /\ sha \in Nat /\ checkout \in Nat
           /\ \A c \in {override, current, verified} : c \in Nat /\ c >= 1 /\ c <= checkout
<1>1. /\ sha \in Commits /\ checkout \in Commits /\ Len(commits) \in Nat
      /\ override \in 1..checkout /\ current \in 1..checkout /\ verified \in 1..checkout
  BY BoundsAssumption DEF IInv, TypeOK
<1>2. sha \in Nat /\ checkout \in Nat /\ checkout <= Len(commits)
  BY <1>1 DEF Commits
<1>3. \A c \in 1..checkout : c \in Nat /\ c >= 1 /\ c <= checkout /\ c \in Commits
  BY <1>1, <1>2 DEF Commits
<1> QED
  BY <1>1, <1>2, <1>3

\* What a step that does not complete leaves for the handler, or for nobody.
LEMMA PartDone ==
    ASSUME IInv, PartOf(pc)
    PROVE  /\ \/ marker' = marker
              \/ pc = "mark" /\ marker' = TRUE
              \/ pc = "unmark" /\ marker' = FALSE
           /\ override' = override \/ (pc = "install" /\ override' = sha)
           /\ current' = current \/ (pc = "record" /\ current' = sha)
           /\ schema' = schema \/ (pc = "migrate" /\ schema' = Code(sha))
           /\ orphan' = orphan \/ (pc = "migrate" /\ orphan' = sha)
           /\ pc # "start" => image' = image /\ up' \subseteq up
           /\ pc = "start" => \E new \in SUBSET Services, down \in SUBSET Services :
                 /\ image' = [s \in Services |-> IF s \in new THEN override ELSE image[s]]
                 /\ up' = {s \in (up \cup new) \ down : s \in new => CanStart(s, override)}
<1>1. \/ marker' \in {marker, TRUE} /\ pc = "mark"
      \/ marker' \in {marker, FALSE} /\ pc = "unmark"
      \/ marker' \in {marker}
  BY DEF PartOf
<1>2. /\ override' = override \/ (pc = "install" /\ override' = sha)
      /\ current' = current \/ (pc = "record" /\ current' = sha)
  BY DEF PartOf
<1>3. /\ schema' = schema \/ (pc = "migrate" /\ schema' = Code(sha))
      /\ orphan' = orphan \/ (pc = "migrate" /\ orphan' = sha)
  BY DEF PartOf
<1>4. pc # "start" => image' = image /\ up' \subseteq up
  BY DEF PartOf
<1>5. pc = "start" => \E new \in SUBSET Services, down \in SUBSET Services :
         /\ image' = [s \in Services |-> IF s \in new THEN override ELSE image[s]]
         /\ up' = {s \in (up \cup new) \ down : s \in new => CanStart(s, override)}
  BY DEF PartOf
<1>6. \/ marker' = marker
      \/ pc = "mark" /\ marker' = TRUE
      \/ pc = "unmark" /\ marker' = FALSE
  BY <1>1
<1> QED
  BY <1>2, <1>3, <1>4, <1>5, <1>6

\* A step fails or the process dies.
LEMMA Fails ==
    ASSUME Raise \/ Kill
    PROVE  /\ PartOf(pc) /\ pc # "idle"
           /\ UNCHANGED <<commits, sha, checkout, verified, byHand, broughtBack>>
           /\ pc' = "handle" \/ pc' = "idle"
           /\ pc' = "idle" => interrupted' \/ (pc \notin Steps /\ ~interrupted)
<1>1. CASE Raise
  <2>1. /\ PartOf(pc) /\ pc # "idle" /\ interrupted' = (interrupted \/ pc \in {"handle", "halt"})
        /\ UNCHANGED <<commits, sha, checkout, verified, byHand, broughtBack>>
    BY <1>1 DEF Raise
  <2>2. CASE pc \in Stopped
    BY <1>1, <2>1, <2>2 DEF Raise
  <2>3. CASE pc \notin Stopped
    <3>1. pc' = "idle"
      BY <1>1, <2>3 DEF Raise, Exit
    <3>2. interrupted' \/ ~interrupted
      BY <2>1
    <3> QED
      BY <2>1, <2>3, <3>1, <3>2, PhaseOrder
  <2> QED
    BY <2>2, <2>3
<1>2. CASE Kill
  BY <1>2 DEF Kill, Exit
<1> QED
  BY <1>1, <1>2

\* Nothing but pc, the run and what is counted.
LEMMA QuietSteps ==
    ASSUME Launch \/ Refuse \/ Preflight \/ Candidate \/ Clear \/ StepFails
    PROVE  /\ UNCHANGED <<commits, marker, checkout, override, current, image, up, schema, orphan,
                          verified, byHand, interrupted, broughtBack, faults, restarts>>
           /\ \/ Launch /\ From("idle", "preflight")
              \/ Refuse /\ From("preflight", "idle") /\ sha' = sha
              \/ Refuse /\ From("load", "idle") /\ sha' = sha
              \/ Preflight /\ From("preflight", "load") /\ ~marker /\ checkout <= sha /\ sha' = sha
              \/ Candidate /\ From("candidate", "mark") /\ sha' = sha
              \/ Clear /\ From("clear", "idle") /\ sha' = sha
              \/ StepFails /\ pc \in {"migrate", "verify", "start"} /\ pc' = "handle" /\ sha' = sha
<1> USE DEF recordVars, serviceVars, historyVars, boundVars, From, Exit
<1>1. CASE Launch
  BY <1>1 DEF Launch
<1>2. CASE Refuse
  BY <1>2 DEF Refuse
<1>3. CASE Preflight
  BY <1>3 DEF Preflight
<1>4. CASE Candidate
  BY <1>4 DEF Candidate
<1>5. CASE Clear
  BY <1>5 DEF Clear
<1>6. CASE StepFails
  BY <1>6 DEF StepFails
<1> QED
  BY <1>1, <1>2, <1>3, <1>4, <1>5, <1>6

-----------------------------------------------------------------------------
(***************************************************************************)
(* The marker.                                                             *)
(***************************************************************************)
\* FAILED and the test through every step: it goes when an update has been
\* tested and recorded, or an operator has recovered, and comes before a change.
LEMMA MarkNext ==
    ASSUME IInv, [Next]_vars
    PROVE  MarkInv'
<1> USE DEF recordVars, serviceVars, historyVars, boundVars, Unmarked, Marked, Failed, From
<1>0. MarkInv /\ StageInv
  BY DEF IInv
<1>a. \A c \in Commits : Code(c)' = Code(c)
  BY CodeKept
<1>b. sha \in Commits /\ verified \in Commits
  BY KnownCommits
<1>c. ASSUME UNCHANGED <<override, schema, image, verified, byHand, current>> PROVE Tested' <=> Tested
  BY <1>a, <1>b, <1>c DEF Tested
<1>1. CASE Elsewhere
  <2>1. UNCHANGED <<pc, marker, orphan, override, schema, image, verified, byHand, current>>
    BY <1>1 DEF Elsewhere, hostVars
  <2> QED
    BY <1>0, <1>c, <2>1 DEF MarkInv
<1>2. CASE Launch \/ Refuse \/ Preflight \/ Candidate \/ Clear \/ StepFails
  <2>1. Tested' <=> Tested
    BY <1>2, <1>c, QuietSteps
  <2> QED
    BY <1>0, <1>2, <2>1, QuietSteps DEF MarkInv
<1>3. CASE Merge
  <2>1. UNCHANGED <<marker, orphan, override, schema, image, verified, byHand, current>>
        /\ pc = "load" /\ pc' = "candidate"
    BY <1>3 DEF Merge
  <2> QED
    BY <1>0, <1>c, <2>1 DEF MarkInv
<1>4. CASE Mark
  <2>1. UNCHANGED <<orphan, override, schema, image, verified, byHand, current>>
        /\ pc = "mark" /\ pc' = "stop" /\ marker' = TRUE
    BY <1>4, PhaseOrder DEF Mark
  <2> QED
    BY <1>0, <2>1 DEF MarkInv
<1>5. CASE Stop \/ Install \/ Migrate \/ StartServices \/ Verify \/ Record
  <2>1. /\ UNCHANGED <<marker, orphan>> /\ pc \in Marked
        /\ pc' \in {"install", "migrate", "start", "verify", "record", "unmark"}
    BY <1>5, PhaseOrder DEF Stop, Install, Migrate, StartServices, Verify, Record
  <2> QED
    BY <1>0, <2>1 DEF MarkInv
<1>6. CASE Unmark
  <2>1. UNCHANGED <<orphan, override, schema, image, verified, byHand, current>>
        /\ pc = "unmark" /\ pc' = "clear" /\ marker' = FALSE
    BY <1>6, PhaseOrder DEF Unmark
  <2>2. Tested
    BY <1>0, <2>1 DEF StageInv, Tested
  <2> QED
    BY <1>0, <1>c, <2>1, <2>2 DEF MarkInv
<1>7. CASE Handle
  <2>1. UNCHANGED <<orphan, override, schema, image, verified, byHand, current>>
        /\ pc = "handle" /\ pc' = "halt" /\ (marker' = TRUE \/ marker' = marker)
    BY <1>7 DEF Handle
  <2> QED
    BY <1>0, <1>c, <2>1 DEF MarkInv
<1>8. CASE Halt
  <2>1. UNCHANGED <<marker, orphan, override, schema, image, verified, byHand, current>>
        /\ pc = "halt" /\ pc' = "idle"
    BY <1>8 DEF Halt, Exit
  <2> QED
    BY <1>0, <1>c, <2>1 DEF MarkInv
<1>9. CASE Raise \/ Kill
  <2>1. /\ PartOf(pc) /\ pc # "idle" /\ UNCHANGED <<verified, byHand>> /\ pc' \in {"handle", "idle"}
    BY <1>9, Fails
  <2>2. CASE marker'
    BY <2>1, <2>2 DEF MarkInv
  <2>3. CASE ~marker' /\ pc = "unmark"
    <3>1. UNCHANGED <<orphan, override, schema, image, current>> /\ orphan = 0
      BY <1>0, <2>1, <2>3, PartDone DEF MarkInv
    <3>2. Tested
      BY <1>0, <2>3 DEF StageInv, Tested
    <3> QED
      BY <1>c, <2>1, <2>3, <3>1, <3>2 DEF MarkInv
  <2>4. CASE ~marker' /\ pc # "unmark"
    <3>1. ~marker /\ pc \notin Marked /\ orphan = 0 /\ Tested
      BY <1>0, <2>1, <2>4, PartDone DEF MarkInv
    <3>2. UNCHANGED <<orphan, override, schema, image, current>>
      BY <2>1, <3>1, PartDone
    <3> QED
      BY <1>c, <2>1, <2>4, <3>1, <3>2 DEF MarkInv
  <2> QED
    BY <2>2, <2>3, <2>4
<1>10. CASE OrphanEnds
  <2>1. orphan # 0 /\ orphan' = 0 /\ UNCHANGED <<pc, marker>>
    BY <1>10 DEF OrphanEnds
  <2> QED
    BY <1>0, <2>1 DEF MarkInv
<1>11. CASE DaemonRestarts
  <2>1. orphan' = 0 /\ UNCHANGED <<pc, marker, override, schema, image, verified, byHand, current>>
    BY <1>11 DEF DaemonRestarts
  <2> QED
    BY <1>0, <1>c, <2>1 DEF MarkInv
<1>12. CASE Recover
  <2>1. /\ pc = "idle" /\ pc' = "idle" /\ orphan = 0 /\ orphan' = 0 /\ marker' = FALSE
        /\ schema' = Code(override) /\ image' = [t \in Services |-> override]
        /\ verified' = override /\ byHand' = TRUE /\ override' = override /\ commits' = commits
    BY <1>12 DEF Recover
  <2>2. Tested'
    BY <2>1 DEF Tested, Code
  <2> QED
    BY <2>1, <2>2 DEF MarkInv
<1> QED
  BY <1>1, <1>2, <1>3, <1>4, <1>5, <1>6, <1>7, <1>8, <1>9, <1>10, <1>11, <1>12, NextCases

-----------------------------------------------------------------------------
(***************************************************************************)
(* The stages of an update.                                                *)
(***************************************************************************)
\* Each step finds what the steps before it have done.
LEMMA StageNext ==
    ASSUME IInv, [Next]_vars
    PROVE  StageInv'
<1> USE PhaseOrder DEF recordVars, serviceVars, historyVars, boundVars, From, Steps
<1>0. StageInv
  BY DEF IInv
<1>a. \A c \in Commits : Code(c)' = Code(c)
  BY CodeKept
<1>b. sha \in Commits
  BY KnownCommits
<1>1. CASE Elsewhere
  <2>1. UNCHANGED <<pc, sha, checkout, override, schema, image, verified, current>>
    BY <1>1 DEF Elsewhere, hostVars
  <2> QED
    BY <1>0, <1>a, <1>b, <2>1 DEF StageInv
<1>2. CASE Launch \/ Refuse \/ Preflight \/ Candidate \/ Clear \/ StepFails
  <2>1. /\ UNCHANGED <<checkout, override, current, image, schema, verified>>
        /\ \/ pc' \in {"idle", "preflight", "handle"}
           \/ From("preflight", "load") /\ checkout <= sha /\ sha' = sha
           \/ From("candidate", "mark") /\ sha' = sha
    BY <1>2, QuietSteps
  <2> QED
    BY <1>0, <2>1 DEF StageInv
<1>3. CASE Merge
  <2>1. From("load", "candidate") /\ sha' = sha /\ checkout' = sha
    BY <1>3 DEF Merge, Merged
  <2> QED
    BY <2>1 DEF StageInv
<1>4. CASE Mark \/ Stop
  <2>1. UNCHANGED <<sha, checkout>> /\ (From("mark", "stop") \/ From("stop", "install"))
    BY <1>4 DEF Mark, Stop
  <2> QED
    BY <1>0, <2>1 DEF StageInv
<1>5. CASE Install
  <2>1. UNCHANGED <<sha, checkout>> /\ From("install", "migrate") /\ override' = sha
    BY <1>5 DEF Install
  <2> QED
    BY <1>0, <2>1 DEF StageInv
<1>6. CASE Migrate
  <2>1. UNCHANGED <<sha, checkout, override>> /\ From("migrate", "start") /\ schema' = Code(sha)
        /\ Code(sha)' = Code(sha)
    BY <1>6 DEF Migrate, Code
  <2> QED
    BY <1>0, <2>1 DEF StageInv
<1>7. CASE StartServices
  <2>1. /\ UNCHANGED <<commits, sha, checkout, override, schema>> /\ From("start", "verify")
        /\ image' = [t \in Services |-> override]
    BY <1>7 DEF StartServices
  <2> QED
    BY <1>0, <2>1 DEF StageInv, Code
<1>8. CASE Verify
  <2>1. /\ UNCHANGED <<commits, sha, checkout, override, schema, image>> /\ From("verify", "record")
        /\ verified' = sha
    BY <1>8 DEF Verify
  <2> QED
    BY <1>0, <2>1 DEF StageInv, Code
<1>9. CASE Record
  <2>1. /\ UNCHANGED <<commits, sha, checkout, override, schema, image, verified>>
        /\ From("record", "unmark") /\ current' = sha
    BY <1>9 DEF Record
  <2> QED
    BY <1>0, <2>1 DEF StageInv, Code
<1>10. CASE Unmark
  <2>1. UNCHANGED <<sha, checkout>> /\ From("unmark", "clear")
    BY <1>10 DEF Unmark
  <2> QED
    BY <1>0, <2>1 DEF StageInv
<1>11. CASE Handle \/ Halt \/ Raise \/ Kill
  <2>1. pc' \in {"handle", "halt", "idle"}
    BY <1>11, Fails DEF Handle, Halt, Exit
  <2> QED
    BY <2>1 DEF StageInv
<1>12. CASE OrphanEnds
  <2>1. /\ UNCHANGED <<commits, pc, sha, checkout, override, image, verified, current>> /\ orphan # 0
    BY <1>12 DEF OrphanEnds
  <2>2. pc \in Failed
    BY <2>1 DEF IInv, MarkInv
  <2> QED
    BY <2>1, <2>2 DEF StageInv, Failed
<1>13. CASE DaemonRestarts
  <2>1. UNCHANGED <<commits, pc, sha, checkout, override, schema, image, verified, current>>
    BY <1>13 DEF DaemonRestarts
  <2> QED
    BY <1>0, <2>1 DEF StageInv, Code
<1>14. CASE Recover
  <2>1. pc' = "idle"
    BY <1>14 DEF Recover
  <2> QED
    BY <2>1 DEF StageInv
<1> QED
  BY <1>1, <1>2, <1>3, <1>4, <1>5, <1>6, <1>7, <1>8, <1>9, <1>10, <1>11, <1>12, <1>13, <1>14, NextCases

-----------------------------------------------------------------------------
(***************************************************************************)
(* The backend and the database.                                           *)
(***************************************************************************)
\* Neither the containers of a backend that serves nor the database change.
LEMMA ServingKept ==
    ASSUME IInv, [Next]_vars, UNCHANGED <<schema, image, broughtBack>>, up' \subseteq up,
           pc' \in {"install", "migrate"} => pc' = pc \/ broughtBack \/ "backend" \notin up',
           orphan' # 0 => orphan' = orphan \/ broughtBack \/ "backend" \notin up'
    PROVE  ServingInv'
<1>0. ServingInv
  BY DEF IInv
<1>1. image["backend"] \in Commits /\ Code(image["backend"])' = Code(image["backend"])
  <2>1. image["backend"] \in Commits
    BY DEF IInv, TypeOK, Services
  <2>2. \A c \in Commits : commits'[c] = commits[c]
    BY CodeKept DEF Code
  <2> QED
    BY <2>1, <2>2 DEF Code
<1>2. BackendMatchesSchema'
  BY <1>0, <1>1 DEF ServingInv, BackendMatchesSchema
<1>3. pc' \in {"install", "migrate"} \/ orphan' # 0 => broughtBack' \/ "backend" \notin up'
  BY <1>0 DEF ServingInv
<1> QED
  BY <1>2, <1>3 DEF ServingInv

\* The backend through every step: the reception stops before the database
\* changes, and what starts looks at the database.
LEMMA ServingNext ==
    ASSUME IInv, [Next]_vars
    PROVE  ServingInv'
<1> USE PhaseOrder DEF recordVars, serviceVars, historyVars, boundVars, From, Steps
<1>0. ServingInv /\ MarkInv
  BY DEF IInv
<1>b. "backend" \in Services /\ "backend" \in Reception
  BY DEF Services, Reception
<1>1. CASE Elsewhere
  <2>1. UNCHANGED <<pc, schema, image, up, orphan, broughtBack>>
    BY <1>1 DEF Elsewhere, hostVars
  <2> QED
    BY <2>1, ServingKept
<1>2. CASE Launch \/ Refuse \/ Preflight \/ Candidate \/ Clear \/ StepFails
  <2>1. UNCHANGED <<schema, image, up, orphan, broughtBack>> /\ pc' \notin {"install", "migrate"}
    BY <1>2, QuietSteps
  <2> QED
    BY <2>1, ServingKept
<1>3. CASE Merge \/ Install \/ Verify \/ Record \/ Unmark \/ Handle
  <2>1. /\ UNCHANGED <<schema, image, up, orphan, broughtBack>>
        /\ pc' \in {"install", "migrate"} => pc = "install"
    BY <1>3 DEF Merge, Install, Verify, Record, Unmark, Handle
  <2>2. pc = "install" => broughtBack \/ "backend" \notin up
    BY <1>0 DEF ServingInv
  <2> QED
    BY <2>1, <2>2, ServingKept
<1>4. CASE Mark
  <2>1. UNCHANGED <<commits, schema, image, up, orphan>> /\ pc = "mark" /\ pc' = "stop" /\ broughtBack' = FALSE
    BY <1>4 DEF Mark
  <2>2. Tested /\ orphan = 0
    BY <1>0, <2>1 DEF MarkInv, Unmarked, Failed
  <2>3. schema = Code(image["backend"])
    BY <1>b, <2>2 DEF Tested
  <2> QED
    BY <2>1, <2>2, <2>3 DEF ServingInv, BackendMatchesSchema, Code
<1>5. CASE Stop \/ Halt
  <2>1. UNCHANGED <<schema, image, orphan, broughtBack>> /\ up' = up \ Reception
    BY <1>5 DEF Stop, Halt, HaltReception
  <2> QED
    BY <1>b, <2>1, ServingKept
<1>6. CASE Migrate
  <2>1. /\ UNCHANGED <<image, up, orphan, broughtBack>> /\ pc = "migrate" /\ pc' = "start"
    BY <1>6 DEF Migrate
  <2>2. broughtBack \/ "backend" \notin up
    BY <1>0, <2>1 DEF ServingInv
  <2> QED
    BY <2>1, <2>2 DEF ServingInv, BackendMatchesSchema
<1>7. CASE StartServices
  <2>1. /\ UNCHANGED <<commits, schema, orphan>> /\ pc = "start" /\ pc' = "verify"
        /\ image' = [t \in Services |-> override] /\ CanStart("backend", override)
    BY <1>7, <1>b DEF StartServices
  <2>2. orphan = 0 /\ schema = Code(override) /\ image'["backend"] = override
    BY <1>0, <1>b, <2>1 DEF MarkInv, CanStart, Failed
  <2> QED
    BY <2>1, <2>2 DEF ServingInv, BackendMatchesSchema, Code
<1>8. CASE Raise \/ Kill
  <2>1. /\ PartOf(pc) /\ UNCHANGED <<commits, broughtBack>> /\ pc' \in {"handle", "idle"} /\ pc # "idle"
    BY <1>8, Fails
  <2>2. CASE pc \notin {"migrate", "start"}
    <3>1. UNCHANGED <<schema, image, orphan>> /\ up' \subseteq up
      BY <2>1, <2>2, PartDone
    <3> QED
      BY <2>1, <3>1, ServingKept
  <2>3. CASE pc = "migrate"
    <3>1. (broughtBack \/ "backend" \notin up) /\ up' \subseteq up
      BY <1>0, <2>1, <2>3, PartDone DEF ServingInv
    <3> QED
      BY <2>1, <3>1 DEF ServingInv, BackendMatchesSchema
  <2>4. CASE pc = "start"
    <3>1. UNCHANGED <<schema, orphan>> /\ orphan = 0
      BY <1>0, <2>1, <2>4, PartDone DEF MarkInv, Failed
    <3>2. PICK new \in SUBSET Services, down \in SUBSET Services :
             /\ image' = [t \in Services |-> IF t \in new THEN override ELSE image[t]]
             /\ up' = {t \in (up \cup new) \ down : t \in new => CanStart(t, override)}
      BY <2>1, <2>4, PartDone
    <3>3. ASSUME "backend" \in up', ~broughtBack PROVE schema = Code(image'["backend"])
      <4>1. CASE "backend" \in new
        BY <1>b, <3>2, <3>3, <4>1 DEF CanStart
      <4>2. CASE "backend" \notin new
        <5>1. "backend" \in up /\ image'["backend"] = image["backend"]
          BY <1>b, <3>2, <3>3, <4>2
        <5> QED
          BY <1>0, <3>3, <5>1 DEF ServingInv, BackendMatchesSchema
      <4> QED
        BY <4>1, <4>2
    <3> QED
      BY <2>1, <3>1, <3>3 DEF ServingInv, BackendMatchesSchema, Code
  <2> QED
    BY <2>2, <2>3, <2>4
<1>9. CASE OrphanEnds
  <2>1. orphan # 0 /\ orphan' = 0 /\ UNCHANGED <<pc, image, up, broughtBack>>
    BY <1>9 DEF OrphanEnds
  <2>2. (broughtBack \/ "backend" \notin up) /\ pc \in Failed
    BY <1>0, <2>1 DEF ServingInv, MarkInv
  <2> QED
    BY <2>1, <2>2 DEF ServingInv, BackendMatchesSchema, Failed
<1>10. CASE DaemonRestarts
  <2>1. /\ UNCHANGED <<commits, pc, schema, image>> /\ orphan' = 0
        /\ up' = {t \in Services : CanStart(t, image[t])}
        /\ broughtBack' = (broughtBack \/ pc \in Stopped)
    BY <1>10 DEF DaemonRestarts
  <2>2. "backend" \in up' => schema = Code(image["backend"])
    BY <2>1 DEF CanStart
  <2> QED
    BY <2>1, <2>2 DEF ServingInv, BackendMatchesSchema, Code
<1>11. CASE Recover
  <2>1. /\ pc' = "idle" /\ UNCHANGED commits /\ orphan' = 0 /\ schema' = Code(override)
        /\ image' = [t \in Services |-> override]
    BY <1>11 DEF Recover
  <2> QED
    BY <1>b, <2>1 DEF ServingInv, BackendMatchesSchema, Code
<1> QED
  BY <1>1, <1>2, <1>3, <1>4, <1>5, <1>6, <1>7, <1>8, <1>9, <1>10, <1>11, NextCases

-----------------------------------------------------------------------------
(***************************************************************************)
(* The handler, the record and types.                                      *)
(***************************************************************************)
\* A handled failure through every step.
LEMMA FailureNext ==
    ASSUME IInv, [Next]_vars
    PROVE  FailureInv'
<1> USE PhaseOrder DEF recordVars, serviceVars, historyVars, boundVars, From, Steps
<1>0. FailureInv /\ MarkInv
  BY DEF IInv
<1>1. CASE Elsewhere
  <2>1. UNCHANGED <<pc, marker, interrupted, up>>
    BY <1>1 DEF Elsewhere, hostVars
  <2> QED
    BY <1>0, <2>1 DEF FailureInv
<1>2. CASE Launch \/ Refuse \/ Preflight \/ Candidate \/ Clear \/ StepFails
  <2>1. /\ marker' = marker /\ interrupted' = interrupted /\ up' = up
        /\ pc' \in {"idle", "preflight"} => pc \in {"idle", "preflight"} \/ pc \in {"load", "clear"}
    BY <1>2, QuietSteps
  <2>2. CASE pc \in {"idle", "preflight"}
    BY <1>0, <2>1, <2>2 DEF FailureInv
  <2>3. CASE pc \in {"load", "clear"}
    <3>1. ~marker'
      BY <1>0, <2>1, <2>3 DEF MarkInv, Unmarked
    <3> QED
      BY <3>1 DEF FailureInv
  <2>4. CASE pc' \notin {"idle", "preflight"}
    BY <2>4 DEF FailureInv
  <2> QED
    BY <2>1, <2>2, <2>3, <2>4
<1>3. CASE \/ Merge \/ Mark \/ Stop \/ Install \/ Migrate \/ StartServices \/ Verify \/ Record \/ Unmark
           \/ Handle
  <2>1. pc' \notin {"idle", "preflight"}
    BY <1>3 DEF Merge, Mark, Stop, Install, Migrate, StartServices, Verify, Record, Unmark, Handle
  <2> QED
    BY <2>1 DEF FailureInv
<1>4. CASE Halt
  <2>1. up' = up \ Reception
    BY <1>4 DEF Halt, HaltReception
  <2> QED
    BY <2>1 DEF FailureInv
<1>5. CASE Raise \/ Kill
  <2>1. /\ PartOf(pc) /\ pc # "idle" /\ pc' \in {"handle", "idle"}
        /\ pc' = "idle" => interrupted' \/ (pc \notin Steps /\ ~interrupted)
    BY <1>5, Fails
  <2>2. ASSUME pc \notin Steps PROVE marker' = marker /\ up' \subseteq up
    BY <2>1, <2>2, PartDone
  <2>3. CASE pc' = "idle" /\ marker' /\ ~interrupted'
    <3>1. pc \notin Steps /\ ~interrupted /\ marker /\ up' \subseteq up
      BY <2>1, <2>2, <2>3
    <3>2. pc \in {"idle", "preflight"}
      <4>1. pc \in {"idle", "preflight", "load", "candidate", "handle", "halt"}
        BY <3>1 DEF IInv, TypeOK
      <4>2. pc \notin {"handle", "halt"}
        BY <1>5, <2>3 DEF Raise, Kill
      <4> QED
        BY <1>0, <3>1, <4>1, <4>2 DEF MarkInv, Unmarked
    <3> QED
      BY <1>0, <3>1, <3>2 DEF FailureInv
  <2> QED
    BY <2>1, <2>3 DEF FailureInv
<1>6. CASE OrphanEnds
  <2>1. UNCHANGED <<pc, marker, interrupted, up>>
    BY <1>6 DEF OrphanEnds
  <2> QED
    BY <1>0, <2>1 DEF FailureInv
<1>7. CASE DaemonRestarts
  <2>1. interrupted'
    BY <1>7 DEF DaemonRestarts
  <2> QED
    BY <2>1 DEF FailureInv
<1>8. CASE Recover
  <2>1. ~marker'
    BY <1>8 DEF Recover
  <2> QED
    BY <2>1 DEF FailureInv
<1> QED
  BY <1>1, <1>2, <1>3, <1>4, <1>5, <1>6, <1>7, <1>8, NextCases

\* The checkout only goes on, and current.json with it.
LEMMA RecordNext ==
    ASSUME IInv, [Next]_vars
    PROVE  /\ current <= current' /\ current' \in Commits /\ current' \in Nat
           /\ checkout <= checkout' /\ checkout' \in Commits /\ checkout' \in Nat
           /\ \A c \in {override', current', verified'} : c \in 1..checkout'
<1> DEFINE Goal ==
       /\ current <= current' /\ current' \in Commits /\ current' \in Nat
       /\ checkout <= checkout' /\ checkout' \in Commits /\ checkout' \in Nat
       /\ \A c \in {override', current', verified'} : c \in 1..checkout'
<1> USE PhaseOrder DEF recordVars, serviceVars, historyVars, boundVars, From, Steps
<1>0. StageInv
  BY DEF IInv
<1>1. ASSUME checkout' \in {checkout, sha}, checkout <= checkout',
             current' \in {current, checkout}, override' \in {override, checkout},
             verified' \in {verified, override, checkout}
      PROVE  Goal
  <2>1. /\ checkout \in Nat /\ checkout' \in Nat /\ checkout' \in Commits
        /\ checkout >= 1 /\ checkout \in Commits
    BY <1>1, KnownCommits DEF Commits
  <2>2. \A c \in {override', current', verified'} : c \in Nat /\ c >= 1 /\ c <= checkout
    BY <1>1, <2>1, KnownCommits
  <2>3. \A c \in {override', current', verified'} : c \in 1..checkout'
    BY <1>1, <2>1, <2>2
  <2>4. current <= current' /\ current' \in Commits /\ current' \in Nat
    BY <1>1, <2>1, KnownCommits
  <2> QED
    BY <1>1, <2>1, <2>3, <2>4
<1>2. checkout <= checkout
  BY KnownCommits
<1>3. CASE Elsewhere
  BY <1>1, <1>2, <1>3 DEF Elsewhere, hostVars
<1>4. CASE Launch \/ Refuse \/ Preflight \/ Candidate \/ Clear \/ StepFails
  BY <1>1, <1>2, <1>4, QuietSteps
<1>5. CASE Merge
  BY <1>0, <1>1, <1>5 DEF Merge, Merged, StageInv
<1>6. CASE Mark \/ Stop \/ Migrate \/ StartServices \/ Unmark \/ Handle \/ Halt \/ OrphanEnds
           \/ DaemonRestarts \/ Recover
  <2>1. UNCHANGED <<checkout, override, current>> /\ verified' \in {verified, override}
    BY <1>6 DEF Mark, Stop, Migrate, StartServices, Unmark, Handle, Halt, OrphanEnds, DaemonRestarts,
                Recover
  <2> QED
    BY <1>1, <1>2, <2>1
<1>7. CASE Install \/ Verify \/ Record
  <2>1. /\ UNCHANGED checkout /\ override' \in {override, sha} /\ current' \in {current, sha}
        /\ verified' \in {verified, sha} /\ pc \in Steps
    BY <1>7 DEF Install, Verify, Record
  <2>2. checkout = sha
    BY <1>0, <2>1 DEF StageInv
  <2> QED
    BY <1>1, <1>2, <2>1, <2>2
<1>8. CASE Raise \/ Kill
  <2>1. PartOf(pc) /\ UNCHANGED <<checkout, verified>>
    BY <1>8, Fails
  <2>2. /\ override' \in {override, sha} /\ current' \in {current, sha}
        /\ (override' = override /\ current' = current) \/ pc \in Steps
    BY <2>1, PartDone
  <2>3. pc \in Steps => checkout = sha
    BY <1>0 DEF StageInv
  <2> QED
    BY <1>1, <1>2, <2>1, <2>2, <2>3
<1> QED
  BY <1>3, <1>4, <1>5, <1>6, <1>7, <1>8, NextCases

\* A commit is recorded when current.json names it, which only goes on.
LEMMA RecordedNext ==
    ASSUME IInv, [Next]_vars
    PROVE  RecordedIsDeployed' /\ recorded' \subseteq Commits' /\ recorded' # {}
<1>0. /\ RecordedIsDeployed /\ recorded \subseteq Commits /\ recorded # {} /\ run.commit \in Commits
      /\ \A c \in Commits : c \in Nat /\ c \in Commits'
  BY CodeKept DEF IInv, TypeOK
<1>1. current \in Nat /\ current <= current' /\ current' \in Nat
  BY KnownCommits, RecordNext
<1>2. CASE ReadBack
  <2>1. recorded' = recorded \cup {run.commit} /\ current' = current /\ current = run.commit
    BY <1>2 DEF ReadBack, RecordAgrees, hostVars, recordVars
  <2> QED
    BY <1>0, <1>1, <2>1 DEF RecordedIsDeployed
<1>3. CASE recorded' = recorded
  <2>1. \A c \in recorded : c <= current /\ c \in Nat
    BY <1>0 DEF RecordedIsDeployed
  <2> QED
    BY <1>0, <1>1, <1>3, <2>1 DEF RecordedIsDeployed
<1>4. ReadBack \/ recorded' = recorded
  BY DEF Next, Workflow, UpdateStep, vars, Push, StartRun, GateSkips, GatePasses, Transfer, RunEnds,
         Launch, Refuse, Preflight, Merge, Candidate, Mark, Stop, Install, Migrate, StartServices,
         Verify, Record, Unmark, Clear, StepFails, Handle, Halt, Raise, Kill, OrphanEnds, DaemonRestarts,
         Recover
<1> QED
  BY <1>2, <1>3, <1>4

\* The run of the workflow.
LEMMA RunType ==
    ASSUME IInv, [Next]_vars
    PROVE  run' \in [at : {"none", "gate", "transfer", "launch", "waiting", "reading"}, commit : Commits']
<1> DEFINE At == {"none", "gate", "transfer", "launch", "waiting", "reading"}
<1>0. run \in [at : At, commit : Commits]
  BY DEF IInv, TypeOK
<1>1. Commits \subseteq Commits'
  BY CodeKept
<1>2. run \in [at : At, commit : Commits']
  BY <1>0, <1>1
<1>3. ASSUME NEW step \in At, RunAt(step) PROVE run' \in [at : At, commit : Commits']
  BY <1>2, <1>3 DEF RunAt
<1>4. CASE StartRun
  BY <1>1, <1>4 DEF StartRun
<1>5. CASE GateSkips \/ GatePasses \/ Transfer \/ RunEnds \/ Launch \/ ReadBack
  BY <1>3, <1>5 DEF GateSkips, GatePasses, Transfer, RunEnds, Launch, ReadBack
<1>6. ASSUME NEW ok \in BOOLEAN, Exit(ok) PROVE run' \in [at : At, commit : Commits']
  BY <1>2, <1>3, <1>6 DEF Exit
<1>7. CASE Refuse \/ Clear \/ Halt \/ Raise \/ Kill
  BY <1>2, <1>6, <1>7 DEF Refuse, Clear, Halt, Raise, Kill
<1>8. CASE UNCHANGED run
  BY <1>2, <1>8
<1>9. ASSUME ~UNCHANGED run
      PROVE  \/ StartRun \/ GateSkips \/ GatePasses \/ Transfer \/ RunEnds \/ Launch \/ ReadBack
             \/ Refuse \/ Clear \/ Halt \/ Raise \/ Kill
  BY <1>9 DEF Next, Workflow, UpdateStep, vars, Push, Preflight, Merge, Candidate, Mark, Stop, Install,
              Migrate, StartServices, Verify, Record, Unmark, StepFails, Handle, OrphanEnds,
              DaemonRestarts, Recover
<1> QED
  BY <1>4, <1>5, <1>7, <1>8, <1>9

\* What the host has: the update's step and commit, the containers, the database.
LEMMA HostTypes ==
    ASSUME IInv, [Next]_vars
    PROVE  /\ pc' \in {"idle", "preflight", "load", "candidate", "handle", "halt"} \cup Stopped
           /\ sha' \in Commits'
           /\ image' \in [Services -> Commits'] /\ up' \subseteq Services
           /\ schema' \in Codes /\ orphan' \in Commits' \cup {0}
<1> DEFINE Goal ==
       /\ pc' \in {"idle", "preflight", "load", "candidate", "handle", "halt"} \cup Stopped
       /\ sha' \in Commits'
       /\ image' \in [Services -> Commits'] /\ up' \subseteq Services
       /\ schema' \in Codes /\ orphan' \in Commits' \cup {0}
<1> USE PhaseOrder DEF recordVars, serviceVars, historyVars, boundVars, From, Steps
<1>0. /\ pc \in {"idle", "preflight", "load", "candidate", "handle", "halt"} \cup Stopped
      /\ sha \in Commits' /\ override \in Commits' /\ run.commit \in Commits'
      /\ image \in [Services -> Commits'] /\ up \subseteq Services
      /\ schema \in Codes /\ orphan \in Commits' \cup {0}
      /\ Code(sha) \in Codes /\ Code(override) \in Codes /\ (orphan # 0 => Code(orphan) \in Codes)
  <2>1. /\ \A c \in Commits : c \in Commits' /\ Code(c) \in Codes
        /\ sha \in Commits /\ override \in Commits
    BY CodeKept, KnownCommits
  <2>2. image \in [Services -> Commits'] /\ orphan \in Commits' \cup {0} /\ run.commit \in Commits'
    BY <2>1 DEF IInv, TypeOK
  <2> QED
    BY <2>1, <2>2 DEF IInv, TypeOK
<1>1. CASE Elsewhere
  BY <1>0, <1>1 DEF Elsewhere, hostVars
<1>2. CASE Launch
  BY <1>0, <1>2 DEF Launch
<1>3. CASE Refuse \/ Preflight \/ Candidate \/ Clear \/ StepFails
  <2>1. /\ UNCHANGED <<sha, image, up, schema, orphan>>
        /\ pc' \in {"idle", "load", "mark", "handle"}
    BY <1>3 DEF Refuse, Preflight, Candidate, Clear, StepFails, Exit
  <2> QED
    BY <1>0, <2>1
<1>4. CASE Merge \/ Mark \/ Install \/ Verify \/ Record \/ Unmark \/ Handle
  <2>1. /\ UNCHANGED <<sha, image, up, schema, orphan>>
        /\ pc' \in {"candidate", "halt"} \/ Advance
    BY <1>4 DEF Merge, Mark, Install, Verify, Record, Unmark, Handle
  <2> QED
    BY <1>0, <2>1
<1>5. CASE Stop \/ Halt
  <2>1. /\ UNCHANGED <<sha, image, schema, orphan>> /\ up' \subseteq up /\ (pc' = "idle" \/ Advance)
    BY <1>5 DEF Stop, Halt, Exit
  <2> QED
    BY <1>0, <2>1
<1>6. CASE Migrate
  BY <1>0, <1>6 DEF Migrate
<1>7. CASE StartServices
  BY <1>0, <1>7 DEF StartServices
<1>8. CASE Raise \/ Kill
  <2>1. PartOf(pc) /\ sha' = sha /\ pc' \in {"handle", "idle"}
    BY <1>8, Fails
  <2>2. schema' \in Codes /\ orphan' \in Commits' \cup {0}
    BY <1>0, <2>1, PartDone
  <2>3. image' \in [Services -> Commits'] /\ up' \subseteq Services
    <3>1. CASE pc # "start"
      BY <1>0, <2>1, <3>1, PartDone
    <3>2. CASE pc = "start"
      <4>1. PICK new \in SUBSET Services, down \in SUBSET Services :
               /\ image' = [s \in Services |-> IF s \in new THEN override ELSE image[s]]
               /\ up' = {s \in (up \cup new) \ down : s \in new => CanStart(s, override)}
        BY <2>1, <3>2, PartDone
      <4> QED
        BY <1>0, <4>1
    <3> QED
      BY <3>1, <3>2
  <2> QED
    BY <1>0, <2>1, <2>2, <2>3
<1>9. CASE OrphanEnds
  BY <1>0, <1>9 DEF OrphanEnds
<1>10. CASE DaemonRestarts
  BY <1>0, <1>10 DEF DaemonRestarts
<1>11. CASE Recover
  BY <1>0, <1>11 DEF Recover
<1> QED
  BY <1>1, <1>2, <1>3, <1>4, <1>5, <1>6, <1>7, <1>8, <1>9, <1>10, <1>11, NextCases

\* What is recorded or counted, and what is remembered.
LEMMA NoteTypes ==
    ASSUME IInv, [Next]_vars
    PROVE  /\ marker' \in BOOLEAN /\ byHand' \in BOOLEAN /\ interrupted' \in BOOLEAN /\ broughtBack' \in BOOLEAN
           /\ faults' \in 0..MaxFaults /\ restarts' \in 0..MaxRestarts
<1> USE DEF recordVars, serviceVars, historyVars, boundVars
<1>0. /\ marker \in BOOLEAN /\ byHand \in BOOLEAN /\ interrupted \in BOOLEAN /\ broughtBack \in BOOLEAN
      /\ faults \in 0..MaxFaults /\ restarts \in 0..MaxRestarts
  BY DEF IInv, TypeOK
<1>1. marker' \in BOOLEAN
  <2>1. CASE Raise \/ Kill
    BY <1>0, <2>1, Fails, PartDone
  <2>2. CASE ~(Raise \/ Kill)
    BY <1>0, <2>2, NextCases DEF Elsewhere, hostVars, Launch, Refuse, Preflight, Merge, Candidate,
       Mark, Stop, Install, Migrate, StartServices, Verify, Record, Unmark, Clear, StepFails, Handle, Halt,
       OrphanEnds, DaemonRestarts, Recover
  <2> QED
    BY <2>1, <2>2
<1>2. byHand' \in BOOLEAN
  BY <1>0, NextCases DEF Elsewhere, hostVars, Launch, Refuse, Preflight, Merge, Candidate,
     Mark, Stop, Install, Migrate, StartServices, Verify, Record, Unmark, Clear, StepFails, Handle, Halt,
     Raise, Kill, OrphanEnds, DaemonRestarts, Recover
<1>3. interrupted' \in BOOLEAN
  BY <1>0, NextCases DEF Elsewhere, hostVars, Launch, Refuse, Preflight, Merge, Candidate,
     Mark, Stop, Install, Migrate, StartServices, Verify, Record, Unmark, Clear, StepFails, Handle, Halt,
     Raise, Kill, OrphanEnds, DaemonRestarts, Recover
<1>4. broughtBack' \in BOOLEAN
  BY <1>0, NextCases DEF Elsewhere, hostVars, Launch, Refuse, Preflight, Merge, Candidate,
     Mark, Stop, Install, Migrate, StartServices, Verify, Record, Unmark, Clear, StepFails, Handle, Halt,
     Raise, Kill, OrphanEnds, DaemonRestarts, Recover
<1>5. faults' \in 0..MaxFaults
  <2>1. faults' = faults \/ (faults < MaxFaults /\ faults' = faults + 1)
    BY NextCases DEF Elsewhere, hostVars, Launch, Refuse, Preflight, Merge, Candidate,
     Mark, Stop, Install, Migrate, StartServices, Verify, Record, Unmark, Clear, StepFails, Handle, Halt,
     Raise, Kill, OrphanEnds, DaemonRestarts, Recover
  <2> QED
    BY <1>0, <2>1, BoundsAssumption
<1>6. restarts' \in 0..MaxRestarts
  <2>1. restarts' = restarts \/ (restarts < MaxRestarts /\ restarts' = restarts + 1)
    BY NextCases DEF Elsewhere, hostVars, Launch, Refuse, Preflight, Merge, Candidate,
     Mark, Stop, Install, Migrate, StartServices, Verify, Record, Unmark, Clear, StepFails, Handle, Halt,
     Raise, Kill, OrphanEnds, DaemonRestarts, Recover
  <2> QED
    BY <1>0, <2>1, BoundsAssumption
<1> QED
  BY <1>1, <1>2, <1>3, <1>4, <1>5, <1>6

\* TypeOK through every step.
LEMMA TypeNext ==
    ASSUME IInv, [Next]_vars
    PROVE  TypeOK'
<1>1. commits' \in Seq(Codes) /\ Len(commits') \in 1..MaxCommits
  BY CodeKept
<1>2. {sha', checkout'} \subseteq Commits' /\ {override', current', verified'} \subseteq 1..checkout'
  <2>1. checkout' \in Commits' /\ sha' \in Commits'
    BY RecordNext, HostTypes, CodeKept
  <2> QED
    BY <2>1, RecordNext
<1>3. {marker', byHand', interrupted', broughtBack'} \subseteq BOOLEAN
  BY NoteTypes
<1> QED
  BY <1>1, <1>2, <1>3, RunType, RecordedNext, HostTypes, NoteTypes DEF TypeOK

-----------------------------------------------------------------------------
(***************************************************************************)
(* Theorems.                                                               *)
(***************************************************************************)
\* A production that works, with one commit.
LEMMA DeploymentInit ==
    ASSUME Init
    PROVE  IInv
<1>1. /\ commits \in Seq(Codes) /\ Len(commits) = 1 /\ Commits = {1} /\ commits[1] \in Codes
      /\ 1..checkout = {1}
  <2>1. 1..1 = {1}
    OBVIOUS
  <2>2. commits \in [1..1 -> Codes]
    BY <2>1 DEF Init
  <2>3. commits \in Seq(Codes) /\ Len(commits) = 1
    BY <2>2
  <2>4. commits[1] \in Codes
    BY <2>2
  <2> QED
    BY <2>1, <2>3, <2>4 DEF Commits, Init
<1>2. TypeOK
  <2>1. Len(commits) \in 1..MaxCommits /\ faults \in 0..MaxFaults /\ restarts \in 0..MaxRestarts
    BY <1>1, BoundsAssumption DEF Init
  <2>2. /\ run \in [at : {"none", "gate", "transfer", "launch", "waiting", "reading"}, commit : Commits]
        /\ recorded \subseteq Commits /\ recorded # {}
        /\ pc \in {"idle", "preflight", "load", "candidate", "handle", "halt"} \cup Stopped
    BY <1>1 DEF Init
  <2>3. {sha, checkout} \subseteq Commits /\ {override, current, verified} \subseteq 1..checkout
    BY <1>1 DEF Init
  <2>4. /\ image \in [Services -> Commits] /\ up \subseteq Services
        /\ schema \in Codes /\ orphan \in Commits \cup {0}
    BY <1>1 DEF Init
  <2>5. {marker, byHand, interrupted, broughtBack} \subseteq BOOLEAN
    BY DEF Init
  <2> QED
    BY <1>1, <2>1, <2>2, <2>3, <2>4, <2>5 DEF TypeOK
<1>3. MarkInv
  BY DEF Init, MarkInv, Tested, Code, Unmarked, Marked, Failed
<1>4. StageInv
  BY PhaseOrder DEF Init, StageInv, Steps
<1>5. ServingInv
  BY DEF Init, ServingInv, BackendMatchesSchema, Code, Services
<1>6. FailureInv /\ RecordedIsDeployed
  BY DEF Init, FailureInv, RecordedIsDeployed
<1> QED
  BY <1>2, <1>3, <1>4, <1>5, <1>6 DEF IInv

\* Every step.
LEMMA DeploymentNext ==
    ASSUME IInv, [Next]_vars
    PROVE  IInv'
BY TypeNext, MarkNext, StageNext, ServingNext, FailureNext, RecordedNext DEF IInv

\* The inductive invariant of the update on the host and its workflow: every
\* step, failure of a step, kill, restart and recovery, in every order.
THEOREM DeploymentInvariant == Spec => []IInv
<1>1. Init => IInv
  BY DeploymentInit
<1>2. IInv /\ [Next]_vars => IInv'
  BY DeploymentNext
<1> QED
  BY <1>1, <1>2, PTL DEF Spec

\* Every variable keeps its type; what the host has is a commit of the checkout
\* or an older one.
THEOREM TypeCorrect == Spec => []TypeOK
<1>1. IInv => TypeOK
  BY DEF IInv
<1> QED
  BY <1>1, DeploymentInvariant, PTL

\* A change that has not passed the public test blocks the next update
\* (Deployment.execute and update).
THEOREM ChangesAreMarkedHolds == Spec => []ChangesAreMarked
<1>1. IInv => ChangesAreMarked
  BY DEF IInv, MarkInv, Tested, ChangesAreMarked
<1> QED
  BY <1>1, DeploymentInvariant, PTL

\* A backend serves only while the database has exactly its migrations, unless
\* the daemon restarted under the update (update, validate_runtime_database).
THEOREM BackendMatchesSchemaHolds == Spec => []BackendMatchesSchema
<1>1. IInv => BackendMatchesSchema
  BY DEF IInv, ServingInv
<1> QED
  BY <1>1, DeploymentInvariant, PTL

\* A failed update leaves the reception stopped, if its handler could end and the
\* daemon has not been restarted since (Deployment.execute).
THEOREM FailureStopsReceptionHolds == Spec => []FailureStopsReception
<1>1. IInv => FailureStopsReception
  BY DEF IInv, FailureInv, FailureStopsReception
<1> QED
  BY <1>1, DeploymentInvariant, PTL

\* A commit is recorded as deployed only if production has had it or a newer one
\* (the end of transfer in ci/deploy.py).
THEOREM RecordedIsDeployedHolds == Spec => []RecordedIsDeployed
<1>1. IInv => RecordedIsDeployed
  BY DEF IInv
<1> QED
  BY <1>1, DeploymentInvariant, PTL

\* Neither the checkout nor current.json goes back to an older commit, whatever
\* fails and whoever recovers.
NeverBack == [][checkout <= checkout' /\ current <= current']_vars

\* An update goes on from the commit in production, never back: what is not a
\* descendant of the checkout is refused (Deployment.update's merge-base
\* --is-ancestor).
THEOREM NeverBackHolds == Spec => NeverBack
<1>1. IInv /\ [Next]_vars => [checkout <= checkout' /\ current <= current']_vars
  BY RecordNext
<1> QED
  BY <1>1, DeploymentInvariant, PTL DEF Spec, NeverBack
=============================================================================
