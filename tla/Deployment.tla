------------------------------ MODULE Deployment ------------------------------
(***************************************************************************)
(* The automatic update of production: the deploy workflow's gate and      *)
(* transfer (ci/deploy.py) and the update on the host                      *)
(* (deploy/production.py), which goes on without the workflow once it is   *)
(* launched.                                                               *)
(*                                                                         *)
(* Commits of main are numbered in their order.  The code of a commit is   *)
(* what goes into its images and is numbered by the migrations it has;     *)
(* commits of the same code differ in documents only.                      *)
(***************************************************************************)
EXTENDS Naturals, Sequences, FiniteSets, FiniteSetsExt

CONSTANTS
    Codes,        \* versions of the code: sets of the first n migrations
    MaxCommits,   \* bound: commits on main
    MaxFaults,    \* bound: failing steps, stop signals and kills
    MaxRestarts   \* bound: restarts of the Docker daemon or the host

ASSUME CodesAssumption == Codes \subseteq Nat /\ Codes # {}
ASSUME BoundsAssumption ==
    MaxCommits \in Nat \ {0} /\ MaxFaults \in Nat /\ MaxRestarts \in Nat

VARIABLES
    commits,    \* code of each commit on main
    run,        \* step and commit of the workflow run in progress
    recorded,   \* commits with a "Record completed production update" step
    pc, sha,    \* step and commit of the update on the host
    checkout,   \* HEAD of the production checkout
    marker,     \* .soj-deploy/FAILED exists
    override,   \* commit of docker-compose.override.yml
    current,    \* commit of current.json
    image,      \* commit of each service's container
    up,         \* services that run
    schema,     \* migrations recorded in the database
    orphan,     \* a migrate container whose client gave up, or 0
    verified,   \* history: commit that last passed the public smoke test
    byHand,     \* history: an operator has recovered since current.json was written
    interrupted,\* history: the present failure was not handled to its end
    broughtBack,\* history: services restarted under an update that goes on
    faults, restarts

recordVars   == <<checkout, override, current>>
serviceVars  == <<image, up, schema, orphan>>
historyVars  == <<verified, byHand, interrupted, broughtBack>>
boundVars    == <<faults, restarts>>
hostVars     == <<pc, sha, marker, recordVars, serviceVars, historyVars, boundVars>>
vars == <<commits, run, recorded, hostVars>>

Services  == {"runner", "backend", "frontend"}
Reception == {"frontend", "backend"}
Commits   == 1..Len(commits)
Code(c)   == commits[c]
IsLatest(c) == c = Len(commits)

\* mutants: two steps in the wrong order.
UnmarkFirst   == <<"mark", "stop", "install", "migrate", "start", "verify", "unmark", "record", "clear">>
MigrateFirst  == <<"mark", "migrate", "stop", "install", "start", "verify", "record", "unmark", "clear">>
\* The order of the update's steps from "stop services" on; stopped is set
\* throughout.
Phases == <<"mark", "stop", "install", "migrate", "start", "verify", "record", "unmark", "clear">>
Stopped == {Phases[i] : i \in DOMAIN Phases}
Advance ==
    \E i \in DOMAIN Phases : pc = Phases[i] /\ i < Len(Phases) /\ pc' = Phases[i + 1]

Init ==
    /\ commits \in [{1} -> Codes]
    /\ run = [at |-> "none", commit |-> 1] /\ recorded = {1}
    /\ pc = "idle" /\ sha = 1
    /\ checkout = 1 /\ override = 1 /\ current = 1 /\ marker = FALSE
    /\ image = [s \in Services |-> 1] /\ up = Services
    /\ schema = commits[1] /\ orphan = 0
    /\ verified = 1 /\ byHand = FALSE /\ interrupted = FALSE /\ broughtBack = FALSE
    /\ faults = 0 /\ restarts = 0

-----------------------------------------------------------------------------
(***************************************************************************)
(* The workflow.  Its concurrency group admits one run at a time; any      *)
(* commit's run may be started again.                                      *)
(***************************************************************************)
Push ==
    /\ Len(commits) < MaxCommits
    /\ \E code \in Codes : commits' = Append(commits, code)
    /\ UNCHANGED <<run, recorded, hostVars>>

RunAt(step) == run' = [run EXCEPT !.at = step]

StartRun ==
    /\ run.at = "none"
    /\ \E c \in Commits : run' = [at |-> "gate", commit |-> c]
    /\ UNCHANGED <<commits, recorded, hostVars>>

\* deployed_commit: the recorded run with the greatest id; and the comparison
\* with it (documentation_only of an empty difference is FALSE).
DocumentationOnly(c) ==
    LET base == Max(recorded) IN base # c /\ Code(base) = Code(c)

\* wait_for_ci: only documents have changed since the deployed commit.
GateSkips ==
    /\ run.at = "gate" /\ IsLatest(run.commit) /\ DocumentationOnly(run.commit)
    /\ RunAt("none")
    /\ UNCHANGED <<commits, recorded, hostVars>>

\* wait_for_ci: all CI runs succeeded and there are images.  The deployed
\* commit may be unavailable.
GatePasses ==
    /\ run.at = "gate" /\ IsLatest(run.commit)
    /\ RunAt("transfer")
    /\ UNCHANGED <<commits, recorded, hostVars>>

\* transfer, up to the launch.
Transfer ==
    /\ run.at = "transfer" /\ IsLatest(run.commit)
    /\ RunAt("launch")
    /\ UNCHANGED <<commits, recorded, hostVars>>

\* The run is superseded, refused by a check, times out, or loses its
\* connection; an update it has launched goes on.
RunEnds ==
    /\ run.at \in {"gate", "transfer", "launch", "waiting", "reading"}
    /\ RunAt("none")
    /\ UNCHANGED <<commits, recorded, hostVars>>

\* systemd-run starts production.py, which gets the lock.  Without it the unit
\* fails at once, which is RunEnds.
Launch ==
    /\ run.at = "launch" /\ pc = "idle"
    /\ RunAt("waiting")
    /\ pc' = "preflight" /\ sha' = run.commit
    /\ UNCHANGED <<commits, recorded, marker, recordVars, serviceVars, historyVars, boundVars>>

RecordUnread == TRUE             \* mutant: the exit status is the record
RecordAgrees == current = run.commit

\* The unit ended well: current.json is read back.
ReadBack ==
    /\ run.at = "reading" /\ RecordAgrees
    /\ recorded' = recorded \cup {run.commit}
    /\ RunAt("none")
    /\ UNCHANGED <<commits, hostVars>>

-----------------------------------------------------------------------------
(***************************************************************************)
(* The update on the host.                                                 *)
(***************************************************************************)
Exit(ok) ==
    /\ pc' = "idle"
    /\ IF run.at = "waiting" THEN RunAt(IF ok THEN "reading" ELSE "none") ELSE UNCHANGED run

\* FAILED blocks the update; an older candidate ends well without a change.
Refuse ==
    /\ \/ pc = "preflight" /\ marker /\ Exit(FALSE)
       \/ pc = "preflight" /\ ~marker /\ ~IsLatest(sha) /\ Exit(TRUE)
       \/ pc = "load" /\ ~IsLatest(sha) /\ Exit(TRUE)
    /\ UNCHANGED <<commits, recorded, sha, marker, recordVars, serviceVars, historyVars, boundVars>>

Preflight ==
    /\ pc = "preflight" /\ ~marker /\ IsLatest(sha)
    /\ checkout <= sha
    /\ pc' = "load"
    /\ UNCHANGED <<commits, run, recorded, sha, marker, recordVars, serviceVars, historyVars, boundVars>>

Merged == sha

\* Images are loaded and checked, main is fetched again and merged.
Merge ==
    /\ pc = "load" /\ IsLatest(sha)
    /\ checkout' = Merged
    /\ pc' = "candidate"
    /\ UNCHANGED <<commits, run, recorded, sha, marker, override, current, serviceVars,
                   historyVars, boundVars>>

\* candidate.json is written and Compose's view of it checked.
Candidate ==
    /\ pc = "candidate" /\ pc' = "mark"
    /\ UNCHANGED <<commits, run, recorded, sha, marker, recordVars, serviceVars, historyVars, boundVars>>

Mark ==
    /\ pc = "mark" /\ Advance
    /\ marker' = TRUE
    /\ interrupted' = FALSE /\ broughtBack' = FALSE
    /\ UNCHANGED <<commits, run, recorded, sha, recordVars, serviceVars, verified, byHand, boundVars>>

Stop ==
    /\ pc = "stop" /\ Advance
    /\ up' = up \ Reception
    /\ UNCHANGED <<commits, run, recorded, sha, marker, recordVars, image, schema, orphan,
                   historyVars, boundVars>>

Install ==
    /\ pc = "install" /\ Advance
    /\ override' = sha
    /\ UNCHANGED <<commits, run, recorded, sha, marker, checkout, current, serviceVars,
                   historyVars, boundVars>>

\* The migrations of a commit's code apply to a database that has a prefix of
\* them (DatabaseMigrations).
CanMigrate(c) == schema <= Code(c)

Migrate ==
    /\ pc = "migrate" /\ Advance
    /\ CanMigrate(sha)
    /\ schema' = Code(sha)
    /\ UNCHANGED <<commits, run, recorded, sha, marker, recordVars, image, up, orphan,
                   historyVars, boundVars>>

\* mutant: a backend starts on any database.
StartsAnyway(s, c) == TRUE
\* The backend refuses a database whose migrations are not its own
\* (validate_runtime_database).
CanStart(s, c) == s = "backend" => schema = Code(c)

\* compose up --wait: containers of other images are replaced.
StartServices ==
    /\ pc = "start" /\ Advance
    /\ \A s \in Services : CanStart(s, override)
    /\ image' = [s \in Services |-> override]
    /\ up' = Services
    /\ UNCHANGED <<commits, run, recorded, sha, marker, recordVars, schema, orphan,
                   historyVars, boundVars>>

\* The images that run are compared, the public path is tried.
Verify ==
    /\ pc = "verify" /\ Advance
    /\ up = Services /\ \A s \in Services : image[s] = sha
    /\ verified' = sha
    /\ UNCHANGED <<commits, run, recorded, sha, marker, recordVars, serviceVars,
                   byHand, interrupted, broughtBack, boundVars>>

Record ==
    /\ pc = "record" /\ Advance
    /\ current' = sha
    /\ byHand' = FALSE
    /\ UNCHANGED <<commits, run, recorded, sha, marker, checkout, override, serviceVars,
                   verified, interrupted, broughtBack, boundVars>>

Unmark ==
    /\ pc = "unmark" /\ Advance
    /\ marker' = FALSE
    /\ UNCHANGED <<commits, run, recorded, sha, recordVars, serviceVars, historyVars, boundVars>>

\* stopped is reset; what follows cannot make the update fail but for a signal.
Clear ==
    /\ pc = "clear"
    /\ \E ok \in BOOLEAN : Exit(ok)
    /\ UNCHANGED <<commits, recorded, sha, marker, recordVars, serviceVars, historyVars, boundVars>>

-----------------------------------------------------------------------------
(***************************************************************************)
(* Failures: a step raises, SIGTERM raises inside it, or the process dies. *)
(***************************************************************************)
\* What a step that did not complete may have done.
PartOf(step) ==
    /\ marker' \in IF step = "mark" THEN {marker, TRUE}
                   ELSE IF step = "unmark" THEN {marker, FALSE} ELSE {marker}
    /\ override' \in IF step = "install" THEN {override, sha} ELSE {override}
    /\ current' \in IF step = "record" THEN {current, sha} ELSE {current}
    /\ \/ /\ step = "migrate" /\ CanMigrate(sha)
          /\ \/ schema' = Code(sha) /\ UNCHANGED orphan
             \/ orphan' = sha /\ UNCHANGED schema
       \/ UNCHANGED <<schema, orphan>>
    /\ CASE step \in {"stop", "halt"} ->
              \E down \in SUBSET Reception : up' = up \ down /\ UNCHANGED image
         [] step = "start" ->
              \E new \in SUBSET Services, down \in SUBSET Services :
                 /\ image' = [s \in Services |-> IF s \in new THEN override ELSE image[s]]
                 /\ up' = {s \in (up \cup new) \ down : s \in new => CanStart(s, override)}
         [] OTHER -> UNCHANGED <<image, up>>

\* An exception: FAILED is written and the reception stopped if the services
\* had been; inside that handling it ends the process.
Raise ==
    /\ pc # "idle" /\ faults < MaxFaults
    /\ faults' = faults + 1
    /\ PartOf(pc)
    /\ IF pc \in Stopped THEN pc' = "handle" /\ UNCHANGED run ELSE Exit(FALSE)
    /\ interrupted' = (interrupted \/ pc \in {"handle", "halt"})
    /\ UNCHANGED <<commits, recorded, sha, checkout, verified, byHand, broughtBack, restarts>>

\* A migration of an older code, or a service that does not start or is not
\* the reviewed one: the command's exit status or the comparison raises.
StepFails ==
    /\ \/ pc = "migrate" /\ ~CanMigrate(sha)
       \/ pc = "verify" /\ ~(up = Services /\ \A s \in Services : image[s] = sha)
       \/ pc = "start" /\ \E s \in Services : ~CanStart(s, override)
    /\ pc' = "handle"
    /\ UNCHANGED <<commits, run, recorded, sha, marker, recordVars, serviceVars, historyVars, boundVars>>

\* The handler records the failure; a full disk does not keep it from the rest.
Handle ==
    /\ pc = "handle" /\ pc' = "halt"
    /\ \/ marker' = TRUE /\ UNCHANGED faults
       \/ faults < MaxFaults /\ faults' = faults + 1 /\ UNCHANGED marker
    /\ UNCHANGED <<commits, run, recorded, sha, recordVars, serviceVars, historyVars, restarts>>

HaltBackend == {"backend"}       \* mutant: the frontend is forgotten
HaltReception == Reception

Halt ==
    /\ pc = "halt"
    /\ up' = up \ HaltReception
    /\ Exit(FALSE)
    /\ UNCHANGED <<commits, recorded, sha, marker, recordVars, image, schema, orphan,
                   historyVars, boundVars>>

Kill ==
    /\ pc # "idle" /\ faults < MaxFaults
    /\ faults' = faults + 1
    /\ PartOf(pc)
    /\ Exit(FALSE)
    /\ interrupted' = TRUE
    /\ UNCHANGED <<commits, recorded, sha, checkout, verified, byHand, broughtBack, restarts>>

\* A migration that goes on without its client ends.
OrphanEnds ==
    /\ orphan # 0
    /\ orphan' = 0
    /\ schema' \in {schema, IF CanMigrate(orphan) THEN Code(orphan) ELSE schema}
    /\ UNCHANGED <<commits, run, recorded, pc, sha, marker, recordVars, image, up, historyVars, boundVars>>

\* The daemon restarts, alone or, after Kill, with the host: restart: always
\* brings back the services that can start, stopped ones too.
DaemonRestarts ==
    /\ restarts < MaxRestarts
    /\ restarts' = restarts + 1
    /\ orphan' = 0
    /\ up' = {s \in Services : CanStart(s, image[s])}
    /\ interrupted' = TRUE
    /\ broughtBack' = (broughtBack \/ pc \in Stopped)
    /\ UNCHANGED <<commits, run, recorded, pc, sha, marker, recordVars, image, schema, verified,
                   byHand, faults>>

\* An operator repairs the production with the newest code it has, tries the
\* public path and takes FAILED away (docs/AUTODEPLOY.md).
Recover ==
    /\ marker /\ pc = "idle" /\ orphan = 0
    /\ CanMigrate(override)
    /\ schema' = Code(override)
    /\ image' = [s \in Services |-> override] /\ up' = Services
    /\ verified' = override /\ byHand' = TRUE
    /\ marker' = FALSE /\ interrupted' = FALSE /\ broughtBack' = FALSE
    /\ UNCHANGED <<commits, run, recorded, pc, sha, recordVars, orphan, boundVars>>

-----------------------------------------------------------------------------
Workflow == StartRun \/ GateSkips \/ GatePasses \/ Transfer \/ RunEnds \/ Launch \/ ReadBack
UpdateStep ==
    \/ Refuse \/ Preflight \/ Merge \/ Candidate \/ Mark \/ Stop \/ Install \/ Migrate \/ StartServices
    \/ Verify \/ Record \/ Unmark \/ Clear \/ StepFails \/ Handle \/ Halt
Next ==
    \/ Push \/ Workflow \/ UpdateStep
    \/ Raise \/ Kill \/ OrphanEnds \/ DaemonRestarts \/ Recover

Spec == Init /\ [][Next]_vars
-----------------------------------------------------------------------------
TypeOK ==
    /\ commits \in Seq(Codes) /\ Len(commits) \in 1..MaxCommits
    /\ run \in [at : {"none", "gate", "transfer", "launch", "waiting", "reading"}, commit : Commits]
    /\ recorded \subseteq Commits /\ recorded # {}
    /\ pc \in {"idle", "preflight", "load", "candidate", "handle", "halt"} \cup Stopped
    /\ {sha, checkout} \subseteq Commits /\ {override, current, verified} \subseteq 1..checkout
    /\ image \in [Services -> Commits] /\ up \subseteq Services
    /\ schema \in Codes /\ orphan \in Commits \cup {0}
    /\ {marker, byHand, interrupted, broughtBack} \subseteq BOOLEAN
    /\ faults \in 0..MaxFaults /\ restarts \in 0..MaxRestarts

AtRest == pc = "idle" /\ orphan = 0

\* A change that has not passed the public test blocks the next update: when
\* no update is under way and FAILED is absent, Compose's configuration, every
\* container and the database are those of the commit that last passed it, and
\* current.json names it unless an operator has been at work
\* (Deployment.execute and update).
ChangesAreMarked ==
    AtRest /\ ~marker =>
        /\ override = verified
        /\ schema = Code(verified)
        /\ \A s \in Services : image[s] = verified
        /\ ~byHand => current = verified

\* A backend serves only while the database has exactly its migrations: the
\* reception is stopped before they change, and a stopped backend that the
\* daemon brings back looks for itself (update, validate_runtime_database).
\* Nothing is said of one that a restart of the daemon brings back under an
\* update that goes on and changes the schema afterwards (broughtBack).
BackendMatchesSchema ==
    "backend" \in up /\ ~broughtBack => schema = Code(image["backend"])

\* A failed update leaves the reception stopped, if its handler could end, until
\* the daemon is restarted, which brings stopped services back, or the operator
\* recovers (Deployment.execute; Kill, DaemonRestarts and a failing handler set
\* interrupted).
FailureStopsReception ==
    pc = "idle" /\ marker /\ ~interrupted => up \cap Reception = {}

\* A commit is recorded as deployed only if production has had it or a newer
\* one (the end of transfer in ci/deploy.py).
RecordedIsDeployed == \A c \in recorded : c <= current

\* A commit is skipped only when it differs in documents alone from the commit
\* in production (ci/deploy.py, wait_for_ci).
SkippedIsDeployed ==
    [][GateSkips /\ pc = "idle" /\ ~marker => Code(verified) = Code(run.commit)]_vars
=============================================================================
