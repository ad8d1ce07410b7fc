---------------------------- MODULE SandboxLease ----------------------------
(***************************************************************************)
(* What the container manager promises the threads that execute commands:  *)
(* a worker that leases a sandbox gets one no command has been in and that *)
(* is nobody else's; a sandbox that was leased never comes back; there are *)
(* at most PoolSize, spent ones that still exist included; and once the    *)
(* manager has closed, no sandbox becomes ready and none is leased.        *)
(***************************************************************************)
EXTENDS Naturals, FiniteSets

CONSTANTS Workers, Names, PoolSize, None

VARIABLES
    phase,   \* "starting", "open" or "closed"
    ready,   \* sandboxes waiting for a lease
    leased,  \* the sandbox each worker has, or None
    spent    \* sandboxes that served a command, are given back, and exist

vars == <<phase, ready, leased, spent>>

Leased == {leased[w] : w \in Workers} \ {None}
Present == ready \cup Leased \cup spent
NoLease == [w \in Workers |-> None]

Init == phase = "starting" /\ ready = {} /\ leased = NoLease /\ spent = {}

\* A sandbox that is not present yet, while there is room for one.
New(n) == n \notin Present /\ Cardinality(Present) < PoolSize

Provide(n) ==
    /\ phase # "closed"
    /\ New(n)
    /\ ready' = ready \cup {n}
    /\ UNCHANGED <<phase, leased, spent>>

Open ==
    /\ phase = "starting"
    /\ Cardinality(ready) = PoolSize
    /\ phase' = "open"
    /\ UNCHANGED <<ready, leased, spent>>

\* From the ready ones, or one made for the worker.
Lease(w, n) ==
    /\ phase = "open"
    /\ leased[w] = None
    /\ n \in ready \/ New(n)
    /\ ready' = ready \ {n}
    /\ leased' = [leased EXCEPT ![w] = n]
    /\ UNCHANGED <<phase, spent>>

\* A sandbox given back during the shutdown may be destroyed already.
GiveBack(w) ==
    /\ leased[w] # None
    /\ leased' = [leased EXCEPT ![w] = None]
    /\ \/ spent' = spent \cup {leased[w]}
       \/ phase = "closed" /\ UNCHANGED spent
    /\ UNCHANGED <<phase, ready>>

Destroy(n) ==
    /\ n \in spent
    /\ spent' = spent \ {n}
    /\ UNCHANGED <<phase, ready, leased>>

Close ==
    /\ phase # "closed"
    /\ phase' = "closed"
    /\ ready' = {}
    /\ UNCHANGED <<leased, spent>>

\* The process is gone; what it had leased may still exist, and is spent.
Crash ==
    /\ phase' = "starting"
    /\ ready' = {}
    /\ leased' = NoLease
    /\ \E gone \in SUBSET Leased :
          /\ phase # "closed" => gone = {}
          /\ spent' = spent \cup (Leased \ gone)

Next ==
    \/ \E n \in Names : Provide(n) \/ Destroy(n)
    \/ \E w \in Workers : GiveBack(w) \/ \E n \in Names : Lease(w, n)
    \/ Open \/ Close \/ Crash

Spec == Init /\ [][Next]_vars
=============================================================================
