---------------------------- MODULE SaveService -----------------------------
(***************************************************************************)
(* What the execution log store promises a submission: a save that was     *)
(* accepted ends once, at the latest with the process; one that is         *)
(* reported as saved has its row, now and for ever; of one that failed     *)
(* nothing is known; and no row is written but by a save that is accepted  *)
(* and has not ended.  (That a row may be pruned later is not told here.)  *)
(***************************************************************************)
CONSTANT Requests

VARIABLES
    save,   \* state of each request's save and what it reports
    logged  \* requests whose row has been committed

vars == <<save, logged>>

Pending == {r \in Requests : save[r] = "pending"}

Init == save = [r \in Requests |-> "none"] /\ logged = {}

Accept(r) ==
    /\ save[r] = "none"
    /\ save' = [save EXCEPT ![r] = "pending"]
    /\ UNCHANGED logged

Save(r) ==
    /\ save[r] = "pending"
    /\ save' = [save EXCEPT ![r] = "saved"]
    /\ logged' = logged \cup {r}

\* One save, or all that a shutdown or the end of the process cuts off; a
\* commit may take effect without its answer.
Fail(R, kept) ==
    /\ R \subseteq Pending /\ R # {} /\ kept \subseteq R
    /\ save' = [r \in Requests |-> IF r \in R THEN "failed" ELSE save[r]]
    /\ logged' = logged \cup kept

Next ==
    \/ \E r \in Requests : Accept(r) \/ Save(r)
    \/ \E R \in SUBSET Pending : \E kept \in SUBSET R : Fail(R, kept)

Spec == Init /\ [][Next]_vars
=============================================================================
