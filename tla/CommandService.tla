--------------------------- MODULE CommandService ---------------------------
(***************************************************************************)
(* What the runner promises the backend of the commands it sends: a        *)
(* command runs at most once, and never after it was rejected or killed;   *)
(* at most Capacity of them run at a time, however many requests, waits    *)
(* and slots there are; and a command that runs ends or is killed with the *)
(* process.                                                                *)
(***************************************************************************)
EXTENDS Naturals, FiniteSets

CONSTANTS Requests, Capacity

VARIABLE job  \* state of each request's command

Running == {r \in Requests : job[r] = "running"}

Init == job \in [Requests -> {"none", "arrived"}]

Becomes(r, state) == job' = [job EXCEPT ![r] = state]

Arrive(r) == job[r] = "none" /\ Becomes(r, "arrived")
Reject(r) == job[r] = "arrived" /\ Becomes(r, "rejected")

Run(r) ==
    /\ job[r] = "arrived"
    /\ Cardinality(Running) < Capacity
    /\ Becomes(r, "running")

End(r) == job[r] = "running" /\ Becomes(r, "ended")

\* What waits in the executor when it closes, or all when the process ends.
Kill(R) ==
    /\ \A r \in R : job[r] \in {"arrived", "running"}
    /\ job' = [r \in Requests |-> IF r \in R THEN "killed" ELSE job[r]]

Next ==
    \/ \E r \in Requests : Arrive(r) \/ Reject(r) \/ Run(r) \/ End(r)
    \/ \E R \in SUBSET Requests : Kill(R)

Spec == Init /\ [][Next]_job
=============================================================================
