----------------------- MODULE ContainerManagerProofs -----------------------
(***************************************************************************)
(* Proofs about ContainerManager, for every pool size, every set of worker *)
(* threads and container names and every bound on faults and restarts: the *)
(* ledger of the slots, what runs, who holds which container, a quiet and  *)
(* clean shutdown, a pool that serves everyone, and the implementation of  *)
(* SandboxLease.                                                           *)
(***************************************************************************)
EXTENDS ContainerManager, FiniteSetTheorems, TLAPS

USE DEF Threads

\* The steps in which only one thread, or only Main, acts.
LEMMA NextCases ==
    ASSUME Next
    PROVE  \/ \E w \in Workers : \/ GetContainer(w) \/ ReleaseContainer(w)
                                 \/ Replenish(w) \/ MarkDegraded(w)
           \/ \E t \in Threads : ThreadStep(t)
           \/ \E n \in Names : KillManaged(n) \/ SweepManaged(n) \/ SweepPending(n)
           \/ ListRemaining \/ Stop
           \/ ListStale \/ FillPool
           \/ \E n \in Names : RemoveStale(n)
           \/ BeginShutdown
           \/ \E n \in Names : LateCreate(n)
           \/ Restart
           \/ Stopped
BY DEF Next, WorkerStep, MainStep, ShutdownStep

-----------------------------------------------------------------------------
\* TypeOK is not inductive: a thread that is about to enter a container in
\* the books must have one in hand.
HoldingPCs == {"creating", "undo", "forget_pending", "start", "add", "busy",
               "cleanup", "forget", "unslot"}
HandsFull == \A t \in Threads : pc[t] \in HoldingPCs => at[t] \in Names
TypeInv == TypeOK /\ HandsFull

\* The initial state is well typed and no thread claims a container yet.
LEMMA TypeInit == Init => TypeInv
BY PoolSizeAssumption, WorkersAssumption
   DEF Init, TypeInv, TypeOK, HandsFull, HoldingPCs, BootPC, PCs, Methods, Flags, DaemonStates

\* The steps shared by all threads keep the types.
LEMMA TypeThreadStep ==
    ASSUME TypeInv, NEW t \in Threads, ThreadStep(t)
    PROVE  TypeInv'
<1> USE DEF TypeInv, TypeOK, HandsFull, HoldingPCs, PCs, Methods, Flags, DaemonStates,
            Goto, Raise, Fault, lockVars, bookVars, worldVars
<1>1. CASE ReserveName(t)
  <2>1. CASE UNCHANGED <<at, createLock, slots, pending, flags, used>>
    BY <1>1, <2>1 DEF ReserveName
  <2>2. ASSUME SlotAvailable, slots' = slots - 1, createLock' = t,
               pc' = [pc EXCEPT ![t] = "creating"],
               flags' = flags \cup {"image_validated"}, faults' = faults,
               NEW n \in FreshNames, pending' = pending \cup {n},
               at' = [at EXCEPT ![t] = n], used' = used \ {n}
        PROVE  TypeInv'
    BY <1>1, <2>2 DEF ReserveName, FreshNames, SlotAvailable
  <2> QED
    BY <1>1, <2>1, <2>2 DEF ReserveName
<1>2. CASE DockerCreate(t)
  BY <1>2 DEF DockerCreate
<1>3. CASE UndoCreate(t)
  BY <1>3 DEF UndoCreate, Leftover
<1>4. CASE ForgetPendingName(t)
  BY <1>4 DEF ForgetPendingName, SlotsWithoutName, Unlock
<1>5. CASE StartContainer(t)
  BY <1>5 DEF StartContainer
<1>6. CASE AddToPool(t)
  BY <1>6 DEF AddToPool
<1>7. CASE RemoveContainer(t)
  BY <1>7 DEF RemoveContainer, AfterCleanup, Leftover, Unlock
<1>8. CASE ForgetRemoved(t)
  BY <1>8 DEF ForgetRemoved, AfterCleanup, Unlock
<1>9. CASE ReturnSlot(t)
  BY <1>9 DEF ReturnSlot, AfterCleanup, Unlock
<1> QED
  BY <1>1, <1>2, <1>3, <1>4, <1>5, <1>6, <1>7, <1>8, <1>9 DEF ThreadStep

\* Every step keeps the types, and a thread in the middle of a container's
\* creation or removal has that container in hand.
LEMMA TypeNext == TypeInv /\ [Next]_vars => TypeInv'
<1> SUFFICES ASSUME TypeInv, [Next]_vars PROVE TypeInv'
  OBVIOUS
<1> USE DEF TypeInv, TypeOK, HandsFull, HoldingPCs, PCs, Methods, Flags, DaemonStates,
            Goto, Raise, Fault, threadVars, lockVars, bookVars, worldVars
<1>1. ASSUME NEW w \in Workers, GetContainer(w) PROVE TypeInv'
  BY <1>1 DEF GetContainer
<1>2. ASSUME NEW w \in Workers, ReleaseContainer(w) PROVE TypeInv'
  BY <1>2 DEF ReleaseContainer
<1>3. ASSUME NEW w \in Workers, Replenish(w) PROVE TypeInv'
  BY <1>3 DEF Replenish
<1>4. ASSUME NEW w \in Workers, MarkDegraded(w) PROVE TypeInv'
  BY <1>4 DEF MarkDegraded, DegradedFlags
<1>5. ASSUME NEW t \in Threads, ThreadStep(t) PROVE TypeInv'
  BY <1>5, TypeThreadStep
<1>6. ASSUME NEW n \in Names, KillManaged(n) PROVE TypeInv'
  BY <1>6 DEF KillManaged
<1>7. ASSUME NEW n \in Names, SweepManaged(n) PROVE TypeInv'
  BY <1>7 DEF SweepManaged
<1>8. ASSUME NEW n \in Names, SweepPending(n) PROVE TypeInv'
  BY <1>8 DEF SweepPending, Leftover
<1>9. CASE ListRemaining
  BY <1>9 DEF ListRemaining, Remaining
<1>10. CASE Stop
  BY <1>10 DEF Stop
<1>11. CASE ListStale
  BY <1>11 DEF ListStale, StaleContainers
<1>12. CASE FillPool
  <2>1. CASE Goto(Main, "create") /\ UNCHANGED flags
             /\ op' = [op EXCEPT ![Main] = "create_and_add"]
    BY <1>12, <2>1 DEF FillPool
  <2>2. CASE Goto(Main, "serving") /\ UNCHANGED op
             /\ flags' = flags \cup {"initialized"}
    BY <1>12, <2>2 DEF FillPool
  <2> QED
    BY <1>12, <2>1, <2>2 DEF FillPool
<1>13. ASSUME NEW n \in Names, RemoveStale(n) PROVE TypeInv'
  BY <1>13 DEF RemoveStale, Leftover
<1>14. CASE BeginShutdown
  BY <1>14 DEF BeginShutdown
<1>15. ASSUME NEW n \in Names, LateCreate(n) PROVE TypeInv'
  BY <1>15 DEF LateCreate
<1>16. CASE Restart
  BY <1>16, PoolSizeAssumption DEF Restart, BootPC
<1>17. CASE Stopped \/ UNCHANGED vars
  BY <1>17 DEF Stopped, vars
<1> QED
  BY <1>1, <1>2, <1>3, <1>4, <1>5, <1>6, <1>7, <1>8, <1>9, <1>10, <1>11,
     <1>12, <1>13, <1>14, <1>15, <1>16, <1>17, NextCases

\* The inductive form of type correctness: types, and full hands where the
\* code dereferences the container it works on.
THEOREM TypeInvariant == Spec => []TypeInv
BY TypeInit, TypeNext, PTL DEF Spec

\* Every variable keeps its type.
THEOREM TypeCorrect == Spec => []TypeOK
BY TypeInvariant, PTL DEF TypeInv

-----------------------------------------------------------------------------
(***************************************************************************)
(* Who holds which lock, and that creation and shutdown exclude each other *)
(***************************************************************************)
\* A thread that creates a container holds _create_shutdown_lock ...
Creating(t) == \/ pc[t] \in {"creating", "undo", "start"}
               \/ pc[t] = "forget_pending" /\ op[t] # "shutdown_pool"
CreatorHoldsLock == \A t \in Threads : Creating(t) => createLock = t

\* ... and one that takes a removed container out of the books _cleanup_lock.
RemoverHoldsLock ==
    \A t \in Threads : pc[t] \in {"forget", "unslot"} => cleanupLock = t

NoCreatorInShutdown == ShuttingDown => \A t \in Threads : ~Creating(t)

SweepIsShutdown ==
    /\ \A t \in Threads : op[t] = "shutdown_pool" => ShuttingDown
    /\ pc[Main] \in {"killing", "sweep", "stopped"} => ShuttingDown
    /\ pc[Main] = "sweep" => op[Main] = "shutdown_pool"

LockInv == /\ CreatorHoldsLock /\ RemoverHoldsLock
           /\ NoCreatorInShutdown /\ SweepIsShutdown

\* No lock is held and nobody is inside a locked region at the start.
LEMMA LockInit == Init => LockInv
BY WorkersAssumption
   DEF Init, BootPC, LockInv, CreatorHoldsLock, RemoverHoldsLock, Creating,
       NoCreatorInShutdown, SweepIsShutdown, ShuttingDown

\* The steps shared by all threads take and leave the two locks in pairs.
LEMMA LockThreadStep ==
    ASSUME TypeInv, LockInv, NEW t \in Threads, ThreadStep(t)
    PROVE  LockInv'
<1> USE DEF TypeInv, TypeOK, LockInv, CreatorHoldsLock, RemoverHoldsLock, Creating,
            NoCreatorInShutdown, SweepIsShutdown, ShuttingDown,
            Goto, Raise, Fault, lockVars, bookVars, worldVars
<1>1. CASE ReserveName(t)
  BY <1>1, WorkersAssumption DEF ReserveName
<1>2. CASE DockerCreate(t)
  BY <1>2 DEF DockerCreate
<1>3. CASE UndoCreate(t)
  BY <1>3 DEF UndoCreate
<1>4. CASE ForgetPendingName(t)
  BY <1>4 DEF ForgetPendingName, Unlock
<1>5. CASE StartContainer(t)
  BY <1>5 DEF StartContainer
<1>6. CASE AddToPool(t)
  BY <1>6 DEF AddToPool
<1>7. CASE RemoveContainer(t)
  BY <1>7, WorkersAssumption DEF RemoveContainer, AfterCleanup, Unlock
<1>8. CASE ForgetRemoved(t)
  BY <1>8 DEF ForgetRemoved, AfterCleanup, Unlock
<1>9. CASE ReturnSlot(t)
  BY <1>9 DEF ReturnSlot, AfterCleanup, Unlock
<1> QED
  BY <1>1, <1>2, <1>3, <1>4, <1>5, <1>6, <1>7, <1>8, <1>9 DEF ThreadStep

\* Every step keeps the locks in the hands of the thread that works under them.
LEMMA LockNext == TypeInv /\ LockInv /\ [Next]_vars => LockInv'
<1> SUFFICES ASSUME TypeInv, LockInv, [Next]_vars PROVE LockInv'
  OBVIOUS
<1> USE WorkersAssumption
        DEF TypeInv, TypeOK, LockInv, CreatorHoldsLock, RemoverHoldsLock, Creating,
            NoCreatorInShutdown, SweepIsShutdown, ShuttingDown,
            Goto, Raise, Fault, threadVars, lockVars, bookVars, worldVars
<1>1. ASSUME NEW w \in Workers, GetContainer(w) PROVE LockInv'
  BY <1>1 DEF GetContainer
<1>2. ASSUME NEW w \in Workers, ReleaseContainer(w) PROVE LockInv'
  BY <1>2 DEF ReleaseContainer
<1>3. ASSUME NEW w \in Workers, Replenish(w) PROVE LockInv'
  BY <1>3 DEF Replenish
<1>4. ASSUME NEW w \in Workers, MarkDegraded(w) PROVE LockInv'
  BY <1>4 DEF MarkDegraded, DegradedFlags
<1>5. ASSUME NEW t \in Threads, ThreadStep(t) PROVE LockInv'
  BY <1>5, LockThreadStep
<1>6. ASSUME NEW n \in Names, KillManaged(n) \/ SweepManaged(n) \/ SweepPending(n)
      PROVE  LockInv'
  BY <1>6 DEF KillManaged, SweepManaged, SweepPending
<1>7. CASE ListRemaining \/ Stop \/ ListStale \/ FillPool
  BY <1>7 DEF ListRemaining, Stop, ListStale, FillPool
<1>8. ASSUME NEW n \in Names, RemoveStale(n) \/ LateCreate(n) PROVE LockInv'
  BY <1>8 DEF RemoveStale, LateCreate
<1>9. CASE BeginShutdown
  BY <1>9 DEF BeginShutdown
<1>10. CASE Restart
  BY <1>10 DEF Restart, BootPC
<1>11. CASE Stopped \/ UNCHANGED vars
  BY <1>11 DEF Stopped, vars
<1> QED
  BY <1>1, <1>2, <1>3, <1>4, <1>5, <1>6, <1>7, <1>8, <1>9, <1>10, <1>11, NextCases

\* begin_shutdown and the creation of a container never overlap, and each
\* lock is in the hands of the thread that works under it.
THEOREM LockInvariant == Spec => []LockInv
BY LockInit, LockNext, TypeInvariant, PTL DEF Spec

-----------------------------------------------------------------------------
(***************************************************************************)
(* The slots                                                               *)
(***************************************************************************)
\* A name being created is in doubt, and no name is both known and in doubt.
BooksDisjoint ==
    /\ managed \cap pending = {}
    /\ \A t \in Threads : pc[t] = "creating" => at[t] \in pending

\* At most the owner of _cleanup_lock is between the entry and its slot.
TransitCount ==
    IF cleanupLock \in Threads /\ pc[cleanupLock] = "unslot" THEN 1 ELSE 0
Ledger ==
    slots + Cardinality(managed) + Cardinality(pending) + TransitCount = PoolSize

BookInv == TypeInv /\ LockInv /\ BooksDisjoint

\* The books are empty and balanced at the start.
LEMMA BookInit == Init => BooksDisjoint /\ Ledger
<1> SUFFICES ASSUME Init PROVE BooksDisjoint /\ Ledger
  OBVIOUS
<1>1. Cardinality(managed) = 0 /\ Cardinality(pending) = 0
  BY FS_EmptySet DEF Init
<1> QED
  BY <1>1, PoolSizeAssumption, WorkersAssumption
     DEF Init, BootPC, BooksDisjoint, Ledger, TransitCount

\* The sets of names are finite, and one element more or less is one more or less.
LEMMA NameSets ==
    ASSUME NEW S \in SUBSET Names
    PROVE  /\ Cardinality(S) \in Nat
           /\ \A n \in Names \ S : Cardinality(S \cup {n}) = Cardinality(S) + 1
           /\ \A n \in S : Cardinality(S \ {n}) = Cardinality(S) - 1
<1>1. IsFiniteSet(S)
  BY NamesAssumption, FS_Subset
<1> QED
  BY <1>1, FS_CardinalityType, FS_AddElement, FS_RemoveElement

\* A name is never both managed and in doubt: the move from _pending_names to
\* _managed is one step, and a fresh name is in neither.
LEMMA DisjointNext == BookInv /\ [Next]_vars => BooksDisjoint'
<1> SUFFICES ASSUME BookInv, [Next]_vars PROVE BooksDisjoint'
  OBVIOUS
<1> USE WorkersAssumption
        DEF BookInv, BooksDisjoint, TypeInv, TypeOK, HandsFull, HoldingPCs, LockInv,
            CreatorHoldsLock, NoCreatorInShutdown, SweepIsShutdown, Creating,
            Goto, Raise, threadVars, lockVars, bookVars, worldVars
<1>1. ASSUME NEW t \in Threads, ReserveName(t) PROVE BooksDisjoint'
  BY <1>1 DEF ReserveName, FreshNames
<1>2. ASSUME NEW t \in Threads, DockerCreate(t) PROVE BooksDisjoint'
  BY <1>2 DEF DockerCreate
<1>3. ASSUME NEW t \in Threads, ForgetPendingName(t) PROVE BooksDisjoint'
  BY <1>3 DEF ForgetPendingName
<1>4. ASSUME NEW t \in Threads, UndoCreate(t) \/ StartContainer(t) \/ AddToPool(t)
      PROVE  BooksDisjoint'
  BY <1>4 DEF UndoCreate, StartContainer, AddToPool
<1>5. ASSUME NEW t \in Threads, RemoveContainer(t) \/ ForgetRemoved(t) \/ ReturnSlot(t)
      PROVE  BooksDisjoint'
  BY <1>5 DEF RemoveContainer, ForgetRemoved, ReturnSlot, AfterCleanup
<1>6. ASSUME NEW w \in Workers, \/ GetContainer(w) \/ ReleaseContainer(w)
                                \/ Replenish(w) \/ MarkDegraded(w)
      PROVE  BooksDisjoint'
  BY <1>6 DEF GetContainer, ReleaseContainer, Replenish, MarkDegraded
<1>7. ASSUME NEW n \in Names, \/ KillManaged(n) \/ SweepManaged(n) \/ SweepPending(n)
                              \/ RemoveStale(n) \/ LateCreate(n)
      PROVE  BooksDisjoint'
  BY <1>7 DEF KillManaged, SweepManaged, SweepPending, RemoveStale, LateCreate
<1>8. CASE ListRemaining \/ Stop \/ ListStale \/ FillPool \/ BeginShutdown
  BY <1>8 DEF ListRemaining, Stop, ListStale, FillPool, BeginShutdown
<1>9. CASE Restart
  BY <1>9 DEF Restart, BootPC
<1>10. CASE Stopped \/ UNCHANGED vars
  BY <1>10 DEF Stopped, vars
<1> QED
  BY <1>1, <1>2, <1>3, <1>4, <1>5, <1>6, <1>7, <1>8, <1>9, <1>10, NextCases
     DEF ThreadStep

\* The steps shared by all threads keep the balance of slots and entries.
LEMMA LedgerThreadStep ==
    ASSUME BookInv, Ledger, NEW t \in Threads, ThreadStep(t)
    PROVE  Ledger'
<1> USE WorkersAssumption
        DEF BookInv, TypeInv, TypeOK, HandsFull, HoldingPCs, LockInv, RemoverHoldsLock,
            Ledger, TransitCount, Goto, Raise, lockVars, bookVars
<1>1. CASE ReserveName(t)
  <2>1. CASE UNCHANGED <<slots, pending>>
    BY <1>1, <2>1 DEF ReserveName
  <2>2. ASSUME SlotAvailable, slots' = slots - 1, pc' = [pc EXCEPT ![t] = "creating"],
               NEW n \in FreshNames, pending' = pending \cup {n}
        PROVE  Ledger'
    <3>1. Cardinality(pending') = Cardinality(pending) + 1
      BY <2>2, NameSets DEF FreshNames
    <3> QED
      BY <1>1, <2>2, <3>1, NameSets DEF ReserveName, SlotAvailable
  <2> QED
    BY <1>1, <2>1, <2>2 DEF ReserveName
<1>2. CASE DockerCreate(t)
  <2>1. CASE UNCHANGED <<pending, managed>>
    BY <1>2, <2>1 DEF DockerCreate
  <2>2. CASE pending' = pending \ {at[t]} /\ managed' = managed \cup {at[t]}
    <3>1. at[t] \in pending /\ at[t] \in Names \ managed
      BY <1>2 DEF DockerCreate, BooksDisjoint
    <3>2. /\ Cardinality(pending') = Cardinality(pending) - 1
          /\ Cardinality(managed') = Cardinality(managed) + 1
      BY <2>2, <3>1, NameSets
    <3> QED
      BY <1>2, <3>2, NameSets DEF DockerCreate
  <2> QED
    BY <1>2, <2>1, <2>2 DEF DockerCreate
<1>3. CASE ForgetPendingName(t)
  <2>1. CASE at[t] \in pending
    <3>1. Cardinality(pending') = Cardinality(pending) - 1
      BY <1>3, <2>1, NameSets DEF ForgetPendingName
    <3> QED
      BY <1>3, <2>1, <3>1, NameSets DEF ForgetPendingName, SlotsWithoutName
  <2>2. CASE at[t] \notin pending
    <3>1. pending' = pending
      BY <1>3, <2>2 DEF ForgetPendingName
    <3> QED
      BY <1>3, <2>2, <3>1 DEF ForgetPendingName, SlotsWithoutName
  <2> QED
    BY <2>1, <2>2
<1>4. CASE UndoCreate(t) \/ StartContainer(t) \/ AddToPool(t)
  BY <1>4 DEF UndoCreate, StartContainer, AddToPool
<1>5. CASE RemoveContainer(t)
  BY <1>5 DEF RemoveContainer, AfterCleanup
<1>6. CASE ForgetRemoved(t)
  <2>0. cleanupLock = t /\ TransitCount = 0
    BY <1>6 DEF ForgetRemoved
  <2>1. CASE at[t] \in managed
    <3>1. Cardinality(managed') = Cardinality(managed) - 1
      BY <1>6, <2>1, NameSets DEF ForgetRemoved
    <3>2. TransitCount' = 1
      BY <1>6, <2>0, <2>1 DEF ForgetRemoved
    <3> QED
      BY <1>6, <2>0, <3>1, <3>2, NameSets DEF ForgetRemoved
  <2>2. CASE at[t] \notin managed
    <3>1. managed' = managed /\ TransitCount' = 0
      BY <1>6, <2>0, <2>2 DEF ForgetRemoved, Unlock
    <3> QED
      BY <1>6, <2>0, <3>1 DEF ForgetRemoved
  <2> QED
    BY <2>1, <2>2
<1>7. CASE ReturnSlot(t)
  <2>1. TransitCount = 1
    BY <1>7 DEF ReturnSlot
  <2>2. TransitCount' = 0
    BY <1>7, <2>1 DEF ReturnSlot, Unlock
  <2> QED
    BY <1>7, <2>1, <2>2, NameSets DEF ReturnSlot
<1> QED
  BY <1>1, <1>2, <1>3, <1>4, <1>5, <1>6, <1>7 DEF ThreadStep

\* Every step keeps the balance, a restart by starting the books anew.
LEMMA LedgerNext == BookInv /\ Ledger /\ [Next]_vars => Ledger'
<1> SUFFICES ASSUME BookInv, Ledger, [Next]_vars PROVE Ledger'
  OBVIOUS
<1> USE WorkersAssumption
        DEF BookInv, TypeInv, TypeOK, LockInv, RemoverHoldsLock, Ledger, TransitCount,
            Goto, Raise, threadVars, lockVars, bookVars, worldVars
<1>1. ASSUME NEW t \in Threads, ThreadStep(t) PROVE Ledger'
  BY <1>1, LedgerThreadStep
<1>2. ASSUME NEW w \in Workers, \/ GetContainer(w) \/ ReleaseContainer(w)
                                \/ Replenish(w) \/ MarkDegraded(w)
      PROVE  Ledger'
  BY <1>2 DEF GetContainer, ReleaseContainer, Replenish, MarkDegraded
<1>3. ASSUME NEW n \in Names, \/ KillManaged(n) \/ SweepManaged(n) \/ SweepPending(n)
                              \/ RemoveStale(n) \/ LateCreate(n)
      PROVE  Ledger'
  BY <1>3 DEF KillManaged, SweepManaged, SweepPending, RemoveStale, LateCreate
<1>4. CASE ListRemaining \/ Stop \/ ListStale \/ FillPool \/ BeginShutdown
  BY <1>4 DEF ListRemaining, Stop, ListStale, FillPool, BeginShutdown
<1>5. CASE Restart
  BY <1>5, FS_EmptySet, PoolSizeAssumption DEF Restart
<1>6. CASE Stopped \/ UNCHANGED vars
  BY <1>6 DEF Stopped, vars
<1> QED
  BY <1>1, <1>2, <1>3, <1>4, <1>5, <1>6, NextCases

\* The books are disjoint and every slot is accounted for, with the one slot in
\* transit under _cleanup_lock counted as a number.
THEOREM BookInvariant == Spec => [](BookInv /\ Ledger)
BY BookInit, DisjointNext, LedgerNext, TypeInvariant, LockInvariant, PTL DEF Spec, BookInv

\* The number in transit is the number of threads returning a slot: at most one,
\* since they hold _cleanup_lock.
LEMMA LedgerIsSlotLedger == TypeInv /\ LockInv /\ Ledger => SlotLedger
<1> SUFFICES ASSUME TypeInv, LockInv, Ledger PROVE SlotLedger
  OBVIOUS
<1>1. Cardinality(InTransit) = TransitCount
  <2>1. CASE InTransit = {}
    BY <2>1, FS_EmptySet DEF InTransit, TransitCount
  <2>2. CASE InTransit # {}
    <3>1. PICK t \in Threads : pc[t] = "unslot"
      BY <2>2 DEF InTransit
    <3>2. cleanupLock = t
      BY <3>1 DEF LockInv, RemoverHoldsLock
    <3>3. InTransit = {t}
      BY <3>1, <3>2 DEF InTransit, LockInv, RemoverHoldsLock
    <3> QED
      BY <3>1, <3>2, <3>3, FS_Singleton DEF TransitCount
  <2> QED
    BY <2>1, <2>2
<1> QED
  BY <1>1 DEF Ledger, SlotLedger

\* A slot is never lost and never returned twice.
THEOREM SlotLedgerHolds == Spec => []SlotLedger
BY BookInvariant, LedgerIsSlotLedger, PTL DEF BookInv

-----------------------------------------------------------------------------
(***************************************************************************)
(* Until shutdown, a container is in one pair of hands or in the pool      *)
(***************************************************************************)
Exclusive == \A t, u \in Threads : t # u /\ at[t] # None => at[t] # at[u]
HandsOffPool == pool \subseteq managed /\ \A t \in Threads : at[t] \notin pool
KnownFromStart == \A t \in Threads : pc[t] \in {"start", "add"} => at[t] \in managed
DeadWhenForgotten == \A t \in Threads : pc[t] = "forget" => daemon[at[t]] # "running"
WorkersWaitForMain == pc[Main] # "serving" => \A w \in Workers : pc[w] = "idle"

OwnInv == ~ShuttingDown => /\ Exclusive /\ HandsOffPool /\ KnownFromStart
                           /\ DeadWhenForgotten /\ WorkersWaitForMain

\* Nobody owns a container at the start.
LEMMA OwnInit == Init => OwnInv
BY WorkersAssumption
   DEF Init, BootPC, OwnInv, Exclusive, HandsOffPool, KnownFromStart,
       DeadWhenForgotten, WorkersWaitForMain

\* The steps shared by all threads keep ownership exclusive.
LEMMA OwnThreadStep ==
    ASSUME BookInv, OwnInv, NEW t \in Threads, ThreadStep(t)
    PROVE  OwnInv'
<1> USE WorkersAssumption, NamesAssumption
        DEF BookInv, BooksDisjoint, TypeInv, TypeOK, HandsFull, HoldingPCs, ShuttingDown,
            OwnInv, Exclusive, HandsOffPool, KnownFromStart, DeadWhenForgotten,
            WorkersWaitForMain, Goto, Raise, lockVars, bookVars, worldVars
<1>1. CASE ReserveName(t)
  BY <1>1 DEF ReserveName, FreshNames
<1>2. CASE DockerCreate(t)
  BY <1>2 DEF DockerCreate
<1>3. CASE UndoCreate(t)
  BY <1>3 DEF UndoCreate, Leftover
<1>4. CASE ForgetPendingName(t)
  BY <1>4 DEF ForgetPendingName
<1>5. CASE StartContainer(t)
  BY <1>5 DEF StartContainer
<1>6. CASE AddToPool(t)
  BY <1>6 DEF AddToPool
<1>7. CASE RemoveContainer(t)
  BY <1>7 DEF RemoveContainer, AfterCleanup, Leftover
<1>8. CASE ForgetRemoved(t)
  BY <1>8 DEF ForgetRemoved, AfterCleanup
<1>9. CASE ReturnSlot(t)
  BY <1>9 DEF ReturnSlot, AfterCleanup
<1> QED
  BY <1>1, <1>2, <1>3, <1>4, <1>5, <1>6, <1>7, <1>8, <1>9 DEF ThreadStep

\* Every step keeps ownership exclusive until shutdown begins.
LEMMA OwnNext == BookInv /\ OwnInv /\ [Next]_vars => OwnInv'
<1> SUFFICES ASSUME BookInv, OwnInv, [Next]_vars PROVE OwnInv'
  OBVIOUS
<1> USE WorkersAssumption, NamesAssumption
        DEF BookInv, LockInv, SweepIsShutdown, TypeInv, TypeOK, HandsFull, HoldingPCs,
            ShuttingDown, OwnInv, Exclusive, HandsOffPool, KnownFromStart,
            DeadWhenForgotten, WorkersWaitForMain, Goto, Raise,
            threadVars, lockVars, bookVars, worldVars
<1>1. ASSUME NEW t \in Threads, ThreadStep(t) PROVE OwnInv'
  BY <1>1, OwnThreadStep
<1>2. ASSUME NEW w \in Workers, GetContainer(w) PROVE OwnInv'
  BY <1>2 DEF GetContainer
<1>3. ASSUME NEW w \in Workers, ReleaseContainer(w) \/ Replenish(w) \/ MarkDegraded(w)
      PROVE  OwnInv'
  BY <1>3 DEF ReleaseContainer, Replenish, MarkDegraded, DegradedFlags
<1>4. ASSUME NEW n \in Names, KillManaged(n) \/ SweepManaged(n) \/ SweepPending(n)
      PROVE  OwnInv'
  BY <1>4 DEF KillManaged, SweepManaged, SweepPending
<1>5. ASSUME NEW n \in Names, RemoveStale(n) \/ LateCreate(n) PROVE OwnInv'
  BY <1>5 DEF RemoveStale, LateCreate, Leftover
<1>6. CASE ListRemaining \/ Stop \/ BeginShutdown
  BY <1>6 DEF ListRemaining, Stop, BeginShutdown
<1>7. CASE ListStale \/ FillPool
  BY <1>7 DEF ListStale, FillPool
<1>8. CASE Restart
  BY <1>8 DEF Restart, BootPC
<1>9. CASE Stopped \/ UNCHANGED vars
  BY <1>9 DEF Stopped, vars
<1> QED
  BY <1>1, <1>2, <1>3, <1>4, <1>5, <1>6, <1>7, <1>8, <1>9, NextCases

\* Until shutdown begins a container has one owner, a thread or the pool, it is
\* in the books from its start on, and it is dead before it leaves them.
THEOREM OwnInvariant == Spec => []OwnInv
BY OwnInit, OwnNext, BookInvariant, PTL DEF Spec

-----------------------------------------------------------------------------
(***************************************************************************)
(* What runs in the daemon                                                 *)
(***************************************************************************)
\* Until reconciliation is over, what runs is what it still has to remove.
StaleListed == pc[Main] = "reconcile" => Running \subseteq todo
RunInv == RunningIsManaged /\ StaleListed

\* Only a start makes a sandbox run.
LEMMA RunningShrinks ==
    ASSUME TypeInv, [Next]_vars, \A t \in Threads : ~StartContainer(t)
    PROVE  Running' \subseteq Running
<1> USE NamesAssumption
        DEF TypeInv, TypeOK, HandsFull, HoldingPCs, Running, Leftover, Exists,
            threadVars, lockVars, bookVars, worldVars
<1>1. ASSUME NEW t \in Threads, \/ ReserveName(t) \/ DockerCreate(t) \/ UndoCreate(t)
                                \/ ForgetPendingName(t) \/ AddToPool(t)
      PROVE  Running' \subseteq Running
  BY <1>1 DEF ReserveName, DockerCreate, UndoCreate, ForgetPendingName, AddToPool
<1>2. ASSUME NEW t \in Threads, RemoveContainer(t) \/ ForgetRemoved(t) \/ ReturnSlot(t)
      PROVE  Running' \subseteq Running
  BY <1>2 DEF RemoveContainer, ForgetRemoved, ReturnSlot
<1>3. ASSUME NEW w \in Workers, \/ GetContainer(w) \/ ReleaseContainer(w)
                                \/ Replenish(w) \/ MarkDegraded(w)
      PROVE  Running' \subseteq Running
  BY <1>3 DEF GetContainer, ReleaseContainer, Replenish, MarkDegraded
<1>4. ASSUME NEW n \in Names, \/ KillManaged(n) \/ SweepManaged(n) \/ SweepPending(n)
                              \/ RemoveStale(n) \/ LateCreate(n)
      PROVE  Running' \subseteq Running
  BY <1>4 DEF KillManaged, SweepManaged, SweepPending, RemoveStale, LateCreate
<1>5. CASE ListRemaining \/ Stop \/ ListStale \/ FillPool \/ BeginShutdown
  BY <1>5 DEF ListRemaining, Stop, ListStale, FillPool, BeginShutdown
<1>6. CASE Restart
  BY <1>6 DEF Restart
<1>7. CASE Stopped \/ UNCHANGED vars
  BY <1>7 DEF Stopped, vars
<1> QED
  BY <1>1, <1>2, <1>3, <1>4, <1>5, <1>6, <1>7, NextCases DEF ThreadStep

\* Nothing runs at the start of the first process.
LEMMA RunInit == Init => RunInv /\ RunningBound
<1> SUFFICES ASSUME Init PROVE RunInv /\ RunningBound
  OBVIOUS
<1>1. Running = {}
  BY DEF Init, Running
<1> QED
  BY <1>1, FS_EmptySet, PoolSizeAssumption, WorkersAssumption
     DEF Init, BootPC, RunInv, RunningIsManaged, StaleListed, RunningBound

\* A start happens while the process serves or fills its pool, and what it
\* starts is in the books.
LEMMA StartedIsManaged ==
    ASSUME BookInv, OwnInv, RunInv, NEW t \in Threads, StartContainer(t)
    PROVE  /\ Running' \subseteq managed
           /\ managed' = managed
           /\ ~ShuttingDown'
           /\ pc'[Main] # "reconcile"
<1> USE DEF BookInv, TypeInv, TypeOK, HandsFull, HoldingPCs
<1>1. ~ShuttingDown
  BY DEF StartContainer, LockInv, NoCreatorInShutdown, Creating
<1>2. pc[Main] \in {"serving", "start"}
  BY <1>1 DEF StartContainer, OwnInv, WorkersWaitForMain
<1>3. at[t] \in managed /\ Running \subseteq managed
  BY <1>1, <1>2 DEF StartContainer, OwnInv, KnownFromStart, RunInv, RunningIsManaged
<1>4. Running' \subseteq Running \cup {at[t]}
  BY DEF StartContainer, Running
<1> QED
  BY <1>1, <1>2, <1>3, <1>4
     DEF StartContainer, ShuttingDown, bookVars, Goto

\* Every step, a crash and the reconciliation after it included, keeps what runs
\* within what is managed or listed for removal.
LEMMA RunNext == BookInv /\ OwnInv /\ RunInv /\ [Next]_vars => RunInv'
<1> SUFFICES ASSUME BookInv, OwnInv, RunInv, [Next]_vars PROVE RunInv'
  OBVIOUS
<1>1. ASSUME NEW t \in Threads, StartContainer(t) PROVE RunInv'
  BY <1>1, StartedIsManaged DEF RunInv, RunningIsManaged, StaleListed
<1>2. CASE \A t \in Threads : ~StartContainer(t)
  <2>0. Running' \subseteq Running
    BY <1>2, RunningShrinks DEF BookInv
  <2> USE <2>0, WorkersAssumption
          DEF BookInv, LockInv, SweepIsShutdown, TypeInv, TypeOK, HandsFull, HoldingPCs,
              ShuttingDown, RunInv, RunningIsManaged, StaleListed, Goto, Raise,
              threadVars, lockVars, bookVars, worldVars
  <2>1. ASSUME NEW t \in Threads, \/ ReserveName(t) \/ DockerCreate(t) \/ UndoCreate(t)
                                  \/ ForgetPendingName(t) \/ AddToPool(t)
        PROVE  RunInv'
    BY <2>1 DEF ReserveName, DockerCreate, UndoCreate, ForgetPendingName, AddToPool
  <2>2. ASSUME NEW t \in Threads, RemoveContainer(t) \/ ReturnSlot(t)
        PROVE  RunInv'
    BY <2>2 DEF RemoveContainer, ReturnSlot, AfterCleanup
  <2>3. ASSUME NEW t \in Threads, ForgetRemoved(t)
        PROVE  RunInv'
    <3>1. ~ShuttingDown => at[t] \notin Running'
      BY <2>3 DEF ForgetRemoved, OwnInv, DeadWhenForgotten, Running
    <3> QED
      BY <2>3, <3>1 DEF ForgetRemoved, AfterCleanup
  <2>4. ASSUME NEW w \in Workers, \/ GetContainer(w) \/ ReleaseContainer(w)
                                  \/ Replenish(w) \/ MarkDegraded(w)
        PROVE  RunInv'
    BY <2>4 DEF GetContainer, ReleaseContainer, Replenish, MarkDegraded, DegradedFlags
  <2>5. ASSUME NEW n \in Names, \/ KillManaged(n) \/ SweepManaged(n) \/ SweepPending(n)
                                \/ LateCreate(n)
        PROVE  RunInv'
    BY <2>5 DEF KillManaged, SweepManaged, SweepPending, LateCreate
  <2>6. ASSUME NEW n \in Names, RemoveStale(n)
        PROVE  RunInv'
    BY <2>6 DEF RemoveStale, Running
  <2>7. CASE ListRemaining \/ Stop \/ FillPool \/ BeginShutdown
    BY <2>7 DEF ListRemaining, Stop, FillPool, BeginShutdown
  <2>8. CASE ListStale
    BY <2>8 DEF ListStale, StaleContainers, Running, Exists
  <2>9. CASE Restart
    BY <2>9 DEF Restart, BootPC
  <2>10. CASE Stopped \/ UNCHANGED vars
    BY <2>10 DEF Stopped, vars, Running
  <2> QED
    BY <1>2, <2>1, <2>2, <2>3, <2>4, <2>5, <2>6, <2>7, <2>8, <2>9, <2>10, NextCases
       DEF ThreadStep
<1> QED
  BY <1>1, <1>2

\* Every step keeps the number of running sandboxes within PoolSize: a start
\* needs an entry, and the entries are bounded by the slots.
LEMMA BoundNext ==
    BookInv /\ Ledger /\ OwnInv /\ RunInv /\ RunningBound /\ [Next]_vars => RunningBound'
<1> SUFFICES ASSUME BookInv, Ledger, OwnInv, RunInv, RunningBound, [Next]_vars
             PROVE  RunningBound'
  OBVIOUS
<1>1. ASSUME NEW t \in Threads, StartContainer(t) PROVE RunningBound'
  <2>1. IsFiniteSet(managed) /\ Cardinality(managed) <= PoolSize
    BY NamesAssumption, FS_Subset, NameSets, PoolSizeAssumption
       DEF BookInv, TypeInv, TypeOK, Ledger, TransitCount
  <2>2. Cardinality(Running') <= Cardinality(managed) /\ Cardinality(Running') \in Nat
    BY <1>1, <2>1, StartedIsManaged, FS_Subset, FS_CardinalityType
  <2> QED
    BY <2>1, <2>2, FS_CardinalityType, PoolSizeAssumption DEF RunningBound
<1>2. CASE \A t \in Threads : ~StartContainer(t)
  <2>1. Running' \subseteq Running /\ Running \in SUBSET Names
    BY <1>2, RunningShrinks DEF BookInv, Running
  <2>2. /\ Cardinality(Running') <= Cardinality(Running)
        /\ Cardinality(Running) \in Nat /\ Cardinality(Running') \in Nat
    BY <2>1, NamesAssumption, FS_Subset, FS_CardinalityType
  <2> QED
    BY <2>2, PoolSizeAssumption DEF RunningBound
<1> QED
  BY <1>1, <1>2

\* Between reconciliation and shutdown everything that runs is in the books.
THEOREM RunningIsManagedHolds == Spec => []RunningIsManaged
BY RunInit, RunNext, BookInvariant, OwnInvariant, PTL DEF Spec, RunInv

\* Never more than PoolSize sandboxes run, across failures and restarts.
THEOREM RunningBoundHolds == Spec => []RunningBound
<1>1. Spec => []RunInv
  BY RunInit, RunNext, BookInvariant, OwnInvariant, PTL DEF Spec
<1> QED
  BY <1>1, RunInit, BoundNext, BookInvariant, OwnInvariant, PTL DEF Spec

-----------------------------------------------------------------------------
(***************************************************************************)
(* The phases: before serving, serving, shutdown                           *)
(***************************************************************************)
\* Main's program counter and the flags tell the same phase.
MainIsClosing ==
    \/ pc[Main] \in {"killing", "sweep", "stopped"}
    \/ op[Main] = "shutdown_pool" /\ pc[Main] \in {"cleanup", "forget", "unslot", "forget_pending"}
PhaseInv ==
    /\ ShuttingDown <=> MainIsClosing
    /\ ~ShuttingDown => (pc[Main] = "serving" <=> "initialized" \in flags)
    /\ ShuttingDown => pool = {}
    /\ op[Main] # "get_container"
    /\ pc[Main] \in {"boot", "reconcile"} => managed = {} /\ pool = {}

\* At the start Main boots, no flag is set and the books are empty.
LEMMA PhaseInit == Init => PhaseInv
BY WorkersAssumption DEF Init, BootPC, PhaseInv, MainIsClosing, ShuttingDown

\* The steps shared by all threads keep the phase: none sets a flag of it, and
\* Main leaves a removal to where it came from.
LEMMA PhaseThreadStep ==
    ASSUME BookInv, OwnInv, PhaseInv, NEW t \in Threads, ThreadStep(t)
    PROVE  PhaseInv'
<1> USE WorkersAssumption
        DEF BookInv, LockInv, NoCreatorInShutdown, Creating, SweepIsShutdown, TypeInv,
            TypeOK, ShuttingDown, OwnInv, WorkersWaitForMain,
            PhaseInv, MainIsClosing, Goto, Raise, lockVars, bookVars, worldVars
<1>1. CASE ReserveName(t)
  BY <1>1 DEF ReserveName
<1>2. CASE DockerCreate(t)
  BY <1>2 DEF DockerCreate
<1>3. CASE UndoCreate(t)
  BY <1>3 DEF UndoCreate
<1>4. CASE ForgetPendingName(t)
  BY <1>4 DEF ForgetPendingName
<1>5. CASE StartContainer(t)
  BY <1>5 DEF StartContainer
<1>6. CASE AddToPool(t)
  BY <1>6 DEF AddToPool
<1>7. CASE RemoveContainer(t)
  BY <1>7 DEF RemoveContainer, AfterCleanup
<1>8. CASE ForgetRemoved(t)
  BY <1>8 DEF ForgetRemoved, AfterCleanup
<1>9. CASE ReturnSlot(t)
  BY <1>9 DEF ReturnSlot, AfterCleanup
<1> QED
  BY <1>1, <1>2, <1>3, <1>4, <1>5, <1>6, <1>7, <1>8, <1>9 DEF ThreadStep

\* Every step keeps the phase that the flags and Main's program counter tell.
LEMMA PhaseNext == BookInv /\ OwnInv /\ PhaseInv /\ [Next]_vars => PhaseInv'
<1> SUFFICES ASSUME BookInv, OwnInv, PhaseInv, [Next]_vars PROVE PhaseInv'
  OBVIOUS
<1> USE WorkersAssumption
        DEF BookInv, LockInv, SweepIsShutdown, TypeInv, TypeOK,
            ShuttingDown, OwnInv, WorkersWaitForMain,
            PhaseInv, MainIsClosing, Goto, Raise, threadVars, lockVars, bookVars, worldVars
<1>1. ASSUME NEW t \in Threads, ThreadStep(t) PROVE PhaseInv'
  BY <1>1, PhaseThreadStep
<1>2. ASSUME NEW w \in Workers, GetContainer(w) PROVE PhaseInv'
  BY <1>2 DEF GetContainer
<1>3. ASSUME NEW w \in Workers, ReleaseContainer(w) \/ Replenish(w) \/ MarkDegraded(w)
      PROVE  PhaseInv'
  BY <1>3 DEF ReleaseContainer, Replenish, MarkDegraded, DegradedFlags
<1>4. ASSUME NEW n \in Names, KillManaged(n) \/ SweepManaged(n) \/ SweepPending(n)
      PROVE  PhaseInv'
  BY <1>4 DEF KillManaged, SweepManaged, SweepPending
<1>5. ASSUME NEW n \in Names, RemoveStale(n) \/ LateCreate(n) PROVE PhaseInv'
  BY <1>5 DEF RemoveStale, LateCreate
<1>6. CASE ListRemaining \/ Stop \/ BeginShutdown
  BY <1>6 DEF ListRemaining, Stop, BeginShutdown
<1>7. CASE ListStale \/ FillPool
  BY <1>7 DEF ListStale, FillPool
<1>8. CASE Restart
  BY <1>8 DEF Restart, BootPC
<1>9. CASE Stopped \/ UNCHANGED vars
  BY <1>9 DEF Stopped, vars
<1> QED
  BY <1>1, <1>2, <1>3, <1>4, <1>5, <1>6, <1>7, <1>8, <1>9, NextCases

-----------------------------------------------------------------------------
(***************************************************************************)
(* Which containers have served a command                                  *)
(***************************************************************************)
\* A container on its way to the pool or to a worker has not.
FreshHands == \A t \in Threads :
    pc[t] \in {"creating", "undo", "start", "add"} => at[t] \notin used
FreshPool == pool \cap used = {}
FreshRequests == \A n \in Names : daemon[n] = "requested" => n \notin used

\* A busy worker's has, and it is no other worker's.
BusyIsUsed == \A w \in Workers : pc[w] = "busy" => at[w] \in used
BusyIsExclusive == \A v, w \in Workers : v # w /\ at[v] # None => at[v] # at[w]

\* Before shutdown, what is in the pool or in use exists, and what leaves the
\* books does not.
PoolExists == \A n \in pool : Exists(n)
HeldExists == \A t \in Threads : pc[t] \in {"add", "busy"} => Exists(at[t])
ForgottenIsAbsent == \A t \in Threads : pc[t] = "forget" => daemon[at[t]] = "absent"

\* Before shutdown, what was used and exists is in the books, or about to be
\* removed with what the process before has left.
UsedIsKnown ==
    /\ pc[Main] \notin {"boot", "reconcile", "abort"}
          => \A n \in used : Exists(n) => n \in managed
    /\ pc[Main] = "reconcile" => \A n \in used : Exists(n) => n \in todo

UseInv ==
    /\ FreshHands /\ FreshPool /\ FreshRequests /\ BusyIsUsed /\ BusyIsExclusive
    /\ ~ShuttingDown => PoolExists /\ HeldExists /\ ForgottenIsAbsent /\ UsedIsKnown

\* Nothing is used at the start.
LEMMA UseInit == Init => UseInv
BY WorkersAssumption
   DEF Init, BootPC, UseInv, FreshHands, FreshPool, FreshRequests, BusyIsUsed,
       BusyIsExclusive, PoolExists, HeldExists, ForgottenIsAbsent, UsedIsKnown

\* The steps shared by all threads: a container is used only from the moment a
\* worker has it, and leaves the books only when it is gone.
LEMMA UseThreadStep ==
    ASSUME BookInv, OwnInv, PhaseInv, UseInv, NEW t \in Threads, ThreadStep(t)
    PROVE  UseInv'
<1> USE WorkersAssumption, NamesAssumption
        DEF BookInv, LockInv, NoCreatorInShutdown, Creating, TypeInv, TypeOK, HandsFull,
            HoldingPCs, ShuttingDown, OwnInv, Exclusive, HandsOffPool, KnownFromStart,
            WorkersWaitForMain, PhaseInv, MainIsClosing, UseInv, FreshHands, FreshPool,
            FreshRequests, BusyIsUsed, BusyIsExclusive, PoolExists, HeldExists,
            ForgottenIsAbsent, UsedIsKnown, Exists, Goto, Raise, lockVars, bookVars, worldVars
<1>1. CASE ReserveName(t)
  BY <1>1 DEF ReserveName, FreshNames
<1>2. CASE DockerCreate(t)
  BY <1>2 DEF DockerCreate
<1>3. CASE UndoCreate(t)
  BY <1>3 DEF UndoCreate, Leftover
<1>4. CASE ForgetPendingName(t)
  BY <1>4 DEF ForgetPendingName
<1>5. CASE StartContainer(t)
  BY <1>5 DEF StartContainer
<1>6. CASE AddToPool(t)
  BY <1>6 DEF AddToPool
<1>7. CASE RemoveContainer(t)
  BY <1>7 DEF RemoveContainer, AfterCleanup, Leftover
<1>8. CASE ForgetRemoved(t)
  BY <1>8 DEF ForgetRemoved, AfterCleanup
<1>9. CASE ReturnSlot(t)
  BY <1>9 DEF ReturnSlot, AfterCleanup
<1> QED
  BY <1>1, <1>2, <1>3, <1>4, <1>5, <1>6, <1>7, <1>8, <1>9 DEF ThreadStep

\* Every step keeps apart what has served a command and what may be leased.
LEMMA UseNext == BookInv /\ OwnInv /\ PhaseInv /\ UseInv /\ [Next]_vars => UseInv'
<1> SUFFICES ASSUME BookInv, OwnInv, PhaseInv, UseInv, [Next]_vars PROVE UseInv'
  OBVIOUS
<1> USE WorkersAssumption, NamesAssumption
        DEF BookInv, LockInv, SweepIsShutdown, TypeInv, TypeOK, HandsFull,
            HoldingPCs, ShuttingDown, OwnInv, Exclusive, HandsOffPool,
            WorkersWaitForMain, PhaseInv, MainIsClosing, UseInv, FreshHands, FreshPool,
            FreshRequests, BusyIsUsed, BusyIsExclusive, PoolExists, HeldExists,
            ForgottenIsAbsent, UsedIsKnown, Exists, Goto, Raise,
            threadVars, lockVars, bookVars, worldVars
<1>1. ASSUME NEW t \in Threads, ThreadStep(t) PROVE UseInv'
  BY <1>1, UseThreadStep
<1>2. ASSUME NEW w \in Workers, GetContainer(w) PROVE UseInv'
  BY <1>2 DEF GetContainer
<1>3. ASSUME NEW w \in Workers, ReleaseContainer(w) \/ Replenish(w) \/ MarkDegraded(w)
      PROVE  UseInv'
  BY <1>3 DEF ReleaseContainer, Replenish, MarkDegraded, DegradedFlags
<1>4. ASSUME NEW n \in Names, KillManaged(n) \/ SweepManaged(n) \/ SweepPending(n)
      PROVE  UseInv'
  BY <1>4 DEF KillManaged, SweepManaged, SweepPending, Leftover
<1>5. ASSUME NEW n \in Names, RemoveStale(n) \/ LateCreate(n) PROVE UseInv'
  BY <1>5 DEF RemoveStale, LateCreate, Leftover
<1>6. CASE ListRemaining \/ Stop \/ BeginShutdown
  BY <1>6 DEF ListRemaining, Stop, BeginShutdown
<1>7. CASE ListStale \/ FillPool
  BY <1>7 DEF ListStale, FillPool, StaleContainers
<1>8. CASE Restart
  BY <1>8 DEF Restart, BootPC
<1>9. CASE Stopped \/ UNCHANGED vars
  BY <1>9 DEF Stopped, vars
<1> QED
  BY <1>1, <1>2, <1>3, <1>4, <1>5, <1>6, <1>7, <1>8, <1>9, NextCases

\* What a worker or the pool holds is fresh; what leaves the books is gone.
THEOREM UseInvariant == Spec => [](PhaseInv /\ UseInv)
BY PhaseInit, PhaseNext, UseInit, UseNext, BookInvariant, OwnInvariant, PTL DEF Spec
\* A leased container has never served before, and nobody else has it.
THEOREM LeasesAreFreshHolds == Spec => []LeasesAreFresh
<1>1. BookInv /\ OwnInv /\ PhaseInv /\ UseInv => LeasesAreFresh
  BY NamesAssumption
     DEF LeasesAreFresh, BookInv, TypeInv, HandsFull, HoldingPCs, OwnInv, HandsOffPool,
         PhaseInv, UseInv, FreshPool, BusyIsExclusive
<1> QED
  BY <1>1, BookInvariant, OwnInvariant, UseInvariant, PTL

-----------------------------------------------------------------------------
(***************************************************************************)
(* Shutdown is quiet                                                       *)
(***************************************************************************)
\* Once the flag is set, the books only shrink: no thread is inside a creation,
\* and none can begin one.
LEMMA BooksShrink ==
    ASSUME BookInv, PhaseInv, ShuttingDown, ShuttingDown', [Next]_vars
    PROVE  managed' \subseteq managed /\ pending' \subseteq pending
<1> USE WorkersAssumption
        DEF BookInv, LockInv, NoCreatorInShutdown, Creating, TypeInv, TypeOK, ShuttingDown,
            threadVars, lockVars, bookVars, worldVars
<1>1. ASSUME NEW t \in Threads, ThreadStep(t)
      PROVE  managed' \subseteq managed /\ pending' \subseteq pending
  BY <1>1 DEF ThreadStep, ReserveName, DockerCreate, UndoCreate, ForgetPendingName,
              StartContainer, AddToPool, RemoveContainer, ForgetRemoved, ReturnSlot
<1>2. ASSUME NEW w \in Workers, \/ GetContainer(w) \/ ReleaseContainer(w)
                                \/ Replenish(w) \/ MarkDegraded(w)
      PROVE  managed' \subseteq managed /\ pending' \subseteq pending
  BY <1>2 DEF GetContainer, ReleaseContainer, Replenish, MarkDegraded
<1>3. ASSUME NEW n \in Names, \/ KillManaged(n) \/ SweepManaged(n) \/ SweepPending(n)
                              \/ RemoveStale(n) \/ LateCreate(n)
      PROVE  managed' \subseteq managed /\ pending' \subseteq pending
  BY <1>3 DEF KillManaged, SweepManaged, SweepPending, RemoveStale, LateCreate
<1>4. CASE ListRemaining \/ Stop \/ ListStale \/ FillPool \/ BeginShutdown
  BY <1>4 DEF ListRemaining, Stop, ListStale, FillPool, BeginShutdown
<1>5. CASE Restart
  BY <1>5 DEF Restart
<1>6. CASE Stopped \/ UNCHANGED vars
  BY <1>6 DEF Stopped, vars
<1> QED
  BY <1>1, <1>2, <1>3, <1>4, <1>5, <1>6, NextCases

\* After begin_shutdown nothing is created, started or put in the pool.
THEOREM QuietShutdownHolds == Spec => QuietShutdown
<1>1. BookInv /\ OwnInv /\ PhaseInv /\ [Next]_vars
        => [(ShuttingDown /\ ShuttingDown') => /\ managed' \subseteq managed
                                              /\ pending' \subseteq pending
                                              /\ pool' = {}
                                              /\ Running' \subseteq Running]_vars
  <2> SUFFICES ASSUME BookInv, OwnInv, PhaseInv, [Next]_vars, ShuttingDown, ShuttingDown'
               PROVE  /\ managed' \subseteq managed /\ pending' \subseteq pending
                      /\ pool' = {} /\ Running' \subseteq Running
    OBVIOUS
  <2>1. PhaseInv'
    BY PhaseNext
  <2>2. \A t \in Threads : ~StartContainer(t)
    BY DEF BookInv, LockInv, NoCreatorInShutdown, Creating, StartContainer
  <2>3. Running' \subseteq Running
    BY <2>2, RunningShrinks DEF BookInv
  <2> QED
    BY <2>1, <2>3, BooksShrink DEF PhaseInv
<1> QED
  BY <1>1, BookInvariant, OwnInvariant, UseInvariant, PTL DEF Spec, QuietShutdown

-----------------------------------------------------------------------------
(***************************************************************************)
(* A healthy pool serves every worker                                      *)
(***************************************************************************)
\* Nothing has gone wrong since startup.
Healthy == ~ShuttingDown /\ "degraded" \notin flags

\* Who is about to ask for a container has none, and who is about to replace
\* one no longer counts it.
EmptyHands ==
    /\ \A t \in Threads : 
          pc[t] \in {"idle", "create", "boot", "reconcile", "fill", "serving"} => at[t] = None
    /\ Healthy => \A w \in Workers : pc[w] \in {"unslot", "replenish"} => at[w] \notin managed

\* What is managed is in the pool or in somebody's hands.
Held ==
    Healthy /\ pc[Main] # "abort" =>
        \A n \in managed : n \in pool \/ \E t \in Threads : at[t] = n

\* Each worker out of its rest stands for at most one container that is not in
\* the pool, and none has to create one to be served.
Away == {w \in Workers : pc[w] # "idle"}
PoolAndAway == pc[Main] = "serving" /\ Healthy => Cardinality(pool) + Cardinality(Away) >= PoolSize
ServedFromPool ==
    \A w \in Workers : pc[w] = "create" /\ op[w] = "get_container" => ~Healthy

HealthInv == EmptyHands /\ Held /\ PoolAndAway /\ ServedFromPool

\* The part of it that counts nothing.
HandInv == EmptyHands /\ Held /\ ServedFromPool

\* Nobody has anything at the start.
LEMMA HealthInit == Init => HealthInv
<1> SUFFICES ASSUME Init PROVE HealthInv
  OBVIOUS
<1>1. pc[Main] = "boot"
  BY DEF Init, BootPC
<1> QED
  BY <1>1, WorkersAssumption
     DEF Init, BootPC, HealthInv, EmptyHands, Held, PoolAndAway, ServedFromPool, Healthy

\* The steps shared by all threads: a container passes from hand to hand, and
\* one that is dropped is dropped by a thread on its way to _mark_degraded.
LEMMA HandThreadStep ==
    ASSUME BookInv, OwnInv, PhaseInv, HandInv, NEW t \in Threads, ThreadStep(t)
    PROVE  HandInv'
<1> USE WorkersAssumption, NamesAssumption
        DEF BookInv, LockInv, NoCreatorInShutdown, SweepIsShutdown, TypeInv, TypeOK, HandsFull,
            HoldingPCs, ShuttingDown, OwnInv, Exclusive, HandsOffPool, WorkersWaitForMain,
            PhaseInv, MainIsClosing, HandInv, EmptyHands, Held, ServedFromPool, Healthy,
            Goto, Raise, lockVars, bookVars, worldVars
<1>1. CASE ReserveName(t)
  BY <1>1 DEF ReserveName, FreshNames
<1>2. CASE DockerCreate(t)
  BY <1>2 DEF DockerCreate
<1>3. CASE UndoCreate(t)
  BY <1>3 DEF UndoCreate
<1>4. CASE ForgetPendingName(t)
  BY <1>4 DEF ForgetPendingName
<1>5. CASE StartContainer(t)
  BY <1>5 DEF StartContainer
<1>6. CASE AddToPool(t)
  BY <1>6 DEF AddToPool
<1>7. CASE RemoveContainer(t)
  BY <1>7 DEF RemoveContainer, AfterCleanup
<1>8. CASE ForgetRemoved(t)
  BY <1>8 DEF ForgetRemoved, AfterCleanup
<1>9. CASE ReturnSlot(t)
  BY <1>9 DEF ReturnSlot, AfterCleanup
<1> QED
  BY <1>1, <1>2, <1>3, <1>4, <1>5, <1>6, <1>7, <1>8, <1>9 DEF ThreadStep

\* Pool and workers are finite, so that containers can be counted from one to the other.
LEMMA CountedSets ==
    ASSUME TypeOK
    PROVE  /\ IsFiniteSet(pool) /\ Cardinality(pool) \in Nat
           /\ IsFiniteSet(Away) /\ Cardinality(Away) \in Nat
<1>1. IsFiniteSet(pool)
  BY NamesAssumption, FS_Subset DEF TypeOK
<1>2. IsFiniteSet(Away)
  BY ExecutorAssumption, FS_Subset DEF Away
<1> QED
  BY <1>1, <1>2, FS_CardinalityType

\* While the pool is healthy and serving it is not empty for an idle worker: the
\* others, fewer than pool_size, stand for one container each.
LEMMA IdleIsServed ==
    ASSUME TypeOK, PoolAndAway, Healthy, pc[Main] = "serving", NEW w \in Workers, pc[w] = "idle"
    PROVE  pool # {}
<1>1. Cardinality(Away) < Cardinality(Workers)
  <2>1. Away \subseteq Workers /\ Away # Workers
    BY DEF Away
  <2>2. IsFiniteSet(Away) /\ Cardinality(Away) <= Cardinality(Workers)
    BY <2>1, ExecutorAssumption, FS_Subset
  <2>3. Cardinality(Away) # Cardinality(Workers)
    BY <2>1, ExecutorAssumption, FS_Subset
  <2> QED
    BY <2>2, <2>3, ExecutorAssumption, FS_CardinalityType
<1>2. Cardinality(pool) > 0
  <2>1. Cardinality(Workers) \in Nat
    BY ExecutorAssumption, FS_CardinalityType
  <2>2. Cardinality(pool) + Cardinality(Away) >= PoolSize
    BY DEF PoolAndAway
  <2> QED
    BY <1>1, <2>1, <2>2, CountedSets, ExecutorAssumption, PoolSizeAssumption
<1> QED
  BY <1>2, CountedSets, FS_EmptySet

\* Every step keeps what is managed in the pool or in hands.
LEMMA HandNext ==
    ASSUME BookInv, OwnInv, PhaseInv, HandInv, PoolAndAway, [Next]_vars
    PROVE  HandInv'
<1> USE WorkersAssumption, NamesAssumption
        DEF BookInv, LockInv, SweepIsShutdown, TypeInv, TypeOK, ShuttingDown, OwnInv,
            WorkersWaitForMain, PhaseInv, MainIsClosing, HandInv, EmptyHands, Held,
            ServedFromPool, Healthy, Goto, Raise, threadVars, lockVars, bookVars, worldVars
<1>1. ASSUME NEW t \in Threads, ThreadStep(t) PROVE HandInv'
  BY <1>1, HandThreadStep
<1>2. ASSUME NEW w \in Workers, GetContainer(w) PROVE HandInv'
  <2>1. pc[w] = "idle" /\ pc[Main] = "serving"
    BY <1>2 DEF GetContainer
  <2>2. CASE pool = {}
    <3>1. ~Healthy
      BY <2>1, <2>2, IdleIsServed
    <3> QED
      BY <1>2, <2>1, <2>2, <3>1 DEF GetContainer
  <2>3. ASSUME NEW n \in pool, at' = [at EXCEPT ![w] = n], pool' = pool \ {n}, Goto(w, "busy")
        PROVE  HandInv'
    <3>1. /\ op' = [op EXCEPT ![w] = "get_container"]
          /\ UNCHANGED <<managed, flags>>
      BY <1>2 DEF GetContainer
    <3>2. EmptyHands'
      BY <2>1, <2>3, <3>1
    <3>3. Held'
      BY <2>1, <2>3, <3>1
    <3>4. ServedFromPool'
      BY <2>1, <2>3, <3>1
    <3> QED
      BY <3>2, <3>3, <3>4
  <2> QED
    BY <1>2, <2>2, <2>3 DEF GetContainer
<1>3. ASSUME NEW w \in Workers, ReleaseContainer(w) PROVE HandInv'
  BY <1>3 DEF ReleaseContainer
<1>4. ASSUME NEW w \in Workers, Replenish(w) PROVE HandInv'
  BY <1>4 DEF Replenish
<1>5. ASSUME NEW w \in Workers, MarkDegraded(w) PROVE HandInv'
  BY <1>5 DEF MarkDegraded, DegradedFlags
<1>6. ASSUME NEW n \in Names, KillManaged(n) \/ SweepManaged(n) \/ SweepPending(n)
      PROVE  HandInv'
  BY <1>6 DEF KillManaged, SweepManaged, SweepPending
<1>7. ASSUME NEW n \in Names, RemoveStale(n) \/ LateCreate(n) PROVE HandInv'
  BY <1>7 DEF RemoveStale, LateCreate
<1>8. CASE ListRemaining \/ Stop \/ BeginShutdown
  BY <1>8 DEF ListRemaining, Stop, BeginShutdown
<1>9. CASE ListStale \/ FillPool
  BY <1>9 DEF ListStale, FillPool
<1>10. CASE Restart
  BY <1>10 DEF Restart, BootPC
<1>11. CASE Stopped \/ UNCHANGED vars
  BY <1>11 DEF Stopped, vars
<1> QED
  BY <1>1, <1>2, <1>3, <1>4, <1>5, <1>6, <1>7, <1>8, <1>9, <1>10, <1>11, NextCases

\* The steps of a worker that leave it away from its rest and the pool as it is.
LEMMA StillAway ==
    ASSUME NEW w \in Workers, PoolAndAway, TypeOK, pc[Main] = "serving", Healthy,
           pool' = pool, pc[w] # "idle", \E l : l # "idle" /\ Goto(w, l)
    PROVE  PoolAndAway'
<1>1. Away' = Away
  BY DEF Away, Goto, TypeOK
<1> QED
  BY <1>1 DEF PoolAndAway

\* A worker's step that is shared with Main: only one that puts a container in
\* the pool ends at rest.
LEMMA CountThreadStep ==
    ASSUME BookInv, OwnInv, PhaseInv, HandInv, PoolAndAway, pc[Main] = "serving", Healthy,
           NEW w \in Workers, ThreadStep(w)
    PROVE  PoolAndAway'
<1> USE WorkersAssumption DEF BookInv, TypeInv
<1>1. CASE ReserveName(w)
  <2>1. pc[w] = "create" /\ pool' = pool /\ op[w] # "get_container" /\ w # Main
    BY <1>1 DEF ReserveName, HandInv, ServedFromPool
  <2>2. Goto(w, "degrade") \/ Goto(w, "creating")
    BY <1>1, <2>1 DEF ReserveName, Raise
  <2> QED
    BY <2>1, <2>2, StillAway
<1>2. CASE AddToPool(w)
  <2>1. /\ pc[w] = "add" /\ at[w] \notin pool
        /\ pool' = pool \cup {at[w]} /\ Goto(w, "idle")
    BY <1>2 DEF AddToPool, Healthy, ShuttingDown, OwnInv, HandsOffPool
  <2>2. Away' = Away \ {w} /\ w \in Away
    BY <2>1 DEF Away, Goto, TypeOK
  <2>3. Cardinality(pool') = Cardinality(pool) + 1
    BY <2>1, CountedSets, FS_AddElement
  <2>4. Cardinality(Away') = Cardinality(Away) - 1
    BY <2>2, CountedSets, FS_RemoveElement
  <2>5. Cardinality(pool) + Cardinality(Away) >= PoolSize
    BY DEF PoolAndAway
  <2> QED
    BY <2>3, <2>4, <2>5, CountedSets DEF PoolAndAway
<1>3. ASSUME ~ReserveName(w), ~AddToPool(w) PROVE PoolAndAway'
  <2>1. pc[w] # "idle" /\ pool' = pool /\ w # Main
    BY <1>3 DEF ThreadStep, DockerCreate, UndoCreate, ForgetPendingName, StartContainer,
                RemoveContainer, ForgetRemoved, ReturnSlot, bookVars
  <2>2. \/ Goto(w, "start") \/ Goto(w, "undo") \/ Goto(w, "forget_pending")
        \/ Goto(w, "degrade") \/ Goto(w, "sweep") \/ Goto(w, "busy") \/ Goto(w, "add")
        \/ Goto(w, "cleanup") \/ Goto(w, "forget") \/ Goto(w, "unslot") \/ Goto(w, "replenish")
    BY <1>3, <2>1 DEF ThreadStep, DockerCreate, UndoCreate, ForgetPendingName, StartContainer,
                      RemoveContainer, ForgetRemoved, ReturnSlot, AfterCleanup, Raise
  <2> QED
    BY <2>1, <2>2, StillAway
<1> QED
  BY <1>1, <1>2, <1>3

\* A worker takes one container from the pool as it leaves its rest.
LEMMA CountGet ==
    ASSUME BookInv, PhaseInv, PoolAndAway, Healthy, NEW w \in Workers, GetContainer(w)
    PROVE  PoolAndAway'
<1> USE WorkersAssumption DEF BookInv, TypeInv
<1>1. pool # {} /\ pc[Main] = "serving" /\ pc[w] = "idle"
  BY IdleIsServed DEF GetContainer
<1>2. PICK n \in pool : pool' = pool \ {n} /\ Goto(w, "busy")
  BY <1>1 DEF GetContainer
<1>3. Away' = Away \cup {w} /\ w \notin Away
  BY <1>1, <1>2 DEF Away, Goto, TypeOK
<1>4. Cardinality(pool') = Cardinality(pool) - 1
  BY <1>2, CountedSets, FS_RemoveElement
<1>5. Cardinality(Away') = Cardinality(Away) + 1
  BY <1>3, CountedSets, FS_AddElement
<1>6. Cardinality(pool) + Cardinality(Away) >= PoolSize
  BY <1>1 DEF PoolAndAway
<1> QED
  BY <1>4, <1>5, <1>6, CountedSets DEF PoolAndAway

\* Every step keeps, while a healthy pool serves, as many containers in it as
\* there are workers at rest.
LEMMA CountNext ==
    ASSUME BookInv, OwnInv, PhaseInv, HandInv, PoolAndAway, [Next]_vars
    PROVE  PoolAndAway'
<1> SUFFICES ASSUME pc'[Main] = "serving", Healthy' PROVE PoolAndAway'
  BY DEF PoolAndAway
<1> USE WorkersAssumption DEF BookInv, TypeInv
<1>1. CASE FillPool
  <2>1. pool' = pool /\ Away' = Away /\ Cardinality(pool) >= PoolSize
    BY <1>1, CountedSets, PoolSizeAssumption DEF FillPool, Goto, Away, TypeOK
  <2> QED
    BY <2>1, CountedSets, PoolSizeAssumption DEF PoolAndAway
<1>2. CASE UNCHANGED vars \/ Stopped
  BY <1>2 DEF Stopped, vars, threadVars, bookVars, PoolAndAway, Away, Healthy, ShuttingDown
<1>3. ASSUME NEW n \in Names, LateCreate(n) PROVE PoolAndAway'
  BY <1>3 DEF LateCreate, threadVars, bookVars, PoolAndAway, Away, Healthy, ShuttingDown
<1>4. ASSUME NEW w \in Workers, GetContainer(w) PROVE PoolAndAway'
  BY <1>4, CountGet DEF GetContainer, Healthy, ShuttingDown
<1>5. ASSUME NEW w \in Workers, ThreadStep(w) PROVE PoolAndAway'
  <2>1. pc[Main] = "serving" /\ Healthy
    BY <1>5 DEF ThreadStep, ReserveName, DockerCreate, UndoCreate, ForgetPendingName,
                StartContainer, AddToPool, RemoveContainer, ForgetRemoved, ReturnSlot,
                AfterCleanup, Raise, Goto, Healthy, ShuttingDown, TypeOK, bookVars
  <2> QED
    BY <1>5, <2>1, CountThreadStep
<1>6. ASSUME NEW w \in Workers, ReleaseContainer(w) \/ Replenish(w) PROVE PoolAndAway'
  <2>1. /\ pc[Main] = "serving" /\ Healthy /\ pool' = pool /\ pc[w] # "idle"
        /\ Goto(w, "cleanup") \/ Goto(w, "create")
    BY <1>6 DEF ReleaseContainer, Replenish, Goto, Healthy, ShuttingDown, TypeOK, bookVars
  <2> QED
    BY <2>1, StillAway
<1>7. ASSUME NEW w \in Workers, MarkDegraded(w) PROVE FALSE
  BY <1>7 DEF MarkDegraded, DegradedFlags, Healthy, ShuttingDown
<1>8. ASSUME ThreadStep(Main) PROVE FALSE
  BY <1>8 DEF ThreadStep, ReserveName, DockerCreate, UndoCreate, ForgetPendingName,
              StartContainer, AddToPool, RemoveContainer, ForgetRemoved, ReturnSlot,
              AfterCleanup, Raise, Goto, TypeOK, PhaseInv, MainIsClosing, ShuttingDown
<1>9. CASE ListStale \/ ListRemaining \/ Stop \/ BeginShutdown \/ Restart
  BY <1>9 DEF ListStale, ListRemaining, Stop, BeginShutdown, Restart, BootPC, Goto, Raise, TypeOK
<1>10. ASSUME NEW n \in Names, KillManaged(n) \/ SweepManaged(n) \/ SweepPending(n) \/ RemoveStale(n)
       PROVE  FALSE
  BY <1>10 DEF KillManaged, SweepManaged, SweepPending, RemoveStale, Goto, Raise, TypeOK
<1> QED
  BY <1>1, <1>2, <1>3, <1>4, <1>5, <1>6, <1>7, <1>8, <1>9, <1>10, NextCases

\* What is managed is in hand and no worker goes short, in every reachable state.
THEOREM HealthInvariant == Spec => []HealthInv
<1>1. Init => HealthInv
  BY HealthInit
<1>2. BookInv /\ OwnInv /\ PhaseInv /\ HealthInv /\ [Next]_vars => HealthInv'
  BY HandNext, CountNext DEF HealthInv, HandInv
<1> QED
  BY <1>1, <1>2, BookInvariant, OwnInvariant, UseInvariant, PTL DEF Spec

\* A pool that reports itself ready has each of its containers in the pool or in
\* a worker's hands, and an undegraded one in service has one for every idle
\* worker: get_container creates none itself (is_ready, get_container).
THEOREM HealthyPoolServesEveryWorkerHolds == Spec => []HealthyPoolServesEveryWorker
<1>1. BookInv /\ PhaseInv /\ HealthInv => HealthyPoolServesEveryWorker
  <2> SUFFICES ASSUME BookInv, PhaseInv, HealthInv PROVE HealthyPoolServesEveryWorker
    OBVIOUS
  <2> USE WorkersAssumption, NamesAssumption DEF BookInv, TypeInv, HealthInv
  <2>1. ASSUME IsReady, NEW n \in managed PROVE n \in pool \cup {at[w] : w \in Workers}
    <3>1. Healthy /\ pc[Main] = "serving"
      BY <2>1 DEF IsReady, Healthy, ShuttingDown, PhaseInv
    <3>2. n \in pool \/ \E t \in Threads : at[t] = n
      BY <3>1 DEF Held
    <3>3. at[Main] = None /\ n # None
      BY <3>1 DEF EmptyHands, TypeOK
    <3> QED
      BY <3>2, <3>3
  <2>2. ASSUME pc[Main] = "serving", "degraded" \notin flags, NEW w \in Workers, pc[w] = "idle"
        PROVE  pool # {}
    <3>1. Healthy
      BY <2>2 DEF Healthy, PhaseInv, MainIsClosing
    <3> QED
      BY <2>2, <3>1, IdleIsServed
  <2> QED
    BY <2>1, <2>2 DEF HealthyPoolServesEveryWorker
<1> QED
  BY <1>1, BookInvariant, UseInvariant, HealthInvariant, PTL

-----------------------------------------------------------------------------
(***************************************************************************)
(* A stop after no failure is clean                                        *)
(***************************************************************************)
Sweeping ==
    \/ pc[Main] \in {"sweep", "stopped"}
    \/ op[Main] = "shutdown_pool" /\ pc[Main] \in {"cleanup", "forget", "unslot", "forget_pending"}

\* A name is in doubt only while its create is under way.
DoubtIsCreation == \A n \in pending : \E t \in Threads : pc[t] = "creating" /\ at[t] = n

\* What leaves the books is gone, in shutdown as well.
GoneWhenForgotten == \A t \in Threads : pc[t] = "forget" => daemon[at[t]] = "absent"

\* What has run is in the books, or on the list of what a dead process left;
\* and without a crash whatever exists is.
RanIsKnown ==
    \A n \in Names : daemon[n] \in {"running", "exited"} =>
        n \in managed \/ pc[Main] = "boot" \/ (pc[Main] = "reconcile" /\ n \in todo)
ExistsIsKnown == restarts = 0 => \A n \in Names : daemon[n] # "absent" => n \in managed

\* What is left of the books is on the list of shutdown_pool or in its hands.
SweepCovers ==
    Sweeping => \A n \in managed :
                   n \in todo \/ (pc[Main] \in {"cleanup", "forget"} /\ at[Main] = n)

StoppedIsDone == pc[Main] = "stopped" => todo = {}

StopInv ==
    faults = 0 => /\ DoubtIsCreation /\ GoneWhenForgotten /\ RanIsKnown /\ ExistsIsKnown
                  /\ SweepCovers /\ StoppedIsDone

\* Nothing exists at the start.
LEMMA StopInit == Init => StopInv
<1> SUFFICES ASSUME Init PROVE StopInv
  OBVIOUS
<1>1. pc[Main] = "boot" /\ op[Main] = "none" /\ \A t \in Threads : pc[t] # "forget"
  BY DEF Init, BootPC
<1> QED
  BY <1>1 DEF Init, StopInv, DoubtIsCreation, GoneWhenForgotten, RanIsKnown, ExistsIsKnown,
              SweepCovers, Sweeping, StoppedIsDone

\* Failing calls are only ever counted up.
LEMMA FaultsGrow == TypeInv /\ [Next]_vars /\ faults' = 0 => faults = 0
<1> SUFFICES ASSUME TypeInv, [Next]_vars, faults' = 0 PROVE faults = 0
  OBVIOUS
<1>1. faults \in Nat
  BY DEF TypeInv, TypeOK
<1> USE DEF Fault, worldVars
<1>2. ASSUME NEW t \in Threads, ThreadStep(t) PROVE faults = 0
  <2>1. CASE ReserveName(t) \/ DockerCreate(t) \/ UndoCreate(t) \/ ForgetPendingName(t)
    BY <1>1, <2>1 DEF ReserveName, DockerCreate, UndoCreate, ForgetPendingName
  <2>2. CASE StartContainer(t) \/ RemoveContainer(t)
    BY <1>1, <2>2 DEF StartContainer, RemoveContainer, AfterCleanup
  <2>3. CASE AddToPool(t) \/ ForgetRemoved(t) \/ ReturnSlot(t)
    BY <2>3 DEF AddToPool, ForgetRemoved, ReturnSlot
  <2> QED
    BY <1>2, <2>1, <2>2, <2>3 DEF ThreadStep
<1>3. ASSUME NEW w \in Workers, \/ GetContainer(w) \/ ReleaseContainer(w)
                                \/ Replenish(w) \/ MarkDegraded(w)
      PROVE  faults = 0
  BY <1>3 DEF GetContainer, ReleaseContainer, Replenish, MarkDegraded
<1>4. ASSUME NEW n \in Names, \/ KillManaged(n) \/ SweepManaged(n) \/ SweepPending(n)
                              \/ RemoveStale(n) \/ LateCreate(n)
      PROVE  faults = 0
  BY <1>1, <1>4 DEF KillManaged, SweepManaged, SweepPending, RemoveStale, LateCreate
<1>5. CASE ListRemaining \/ Stop \/ ListStale \/ FillPool \/ BeginShutdown
  BY <1>1, <1>5 DEF ListRemaining, Stop, ListStale, FillPool, BeginShutdown
<1>6. CASE Restart \/ Stopped \/ UNCHANGED vars
  BY <1>6 DEF Restart, Stopped, vars
<1> QED
  BY <1>2, <1>3, <1>4, <1>5, <1>6, NextCases

\* The steps shared by all threads, when no call fails.
LEMMA StopThreadStep ==
    ASSUME BookInv, OwnInv, PhaseInv, UseInv, StopInv, faults = 0, faults' = 0,
           NEW t \in Threads, ThreadStep(t)
    PROVE  StopInv'
<1> USE WorkersAssumption, NamesAssumption
        DEF BookInv, LockInv, CreatorHoldsLock, NoCreatorInShutdown, Creating, SweepIsShutdown,
            BooksDisjoint, TypeInv, TypeOK, HandsFull, HoldingPCs, ShuttingDown, OwnInv,
            Exclusive, KnownFromStart, PhaseInv, MainIsClosing, StopInv, DoubtIsCreation,
            GoneWhenForgotten, RanIsKnown, ExistsIsKnown, SweepCovers, Sweeping, StoppedIsDone,
            Fault, Goto, Raise, lockVars, bookVars, worldVars
<1>1. CASE ReserveName(t)
  BY <1>1 DEF ReserveName, FreshNames
<1>2. CASE DockerCreate(t)
  BY <1>2 DEF DockerCreate
<1>3. CASE UndoCreate(t)
  BY <1>3 DEF UndoCreate
<1>4. CASE ForgetPendingName(t)
  BY <1>4 DEF ForgetPendingName
<1>5. CASE StartContainer(t)
  BY <1>5 DEF StartContainer
<1>6. CASE AddToPool(t)
  BY <1>6 DEF AddToPool
<1>7. CASE RemoveContainer(t)
  BY <1>7 DEF RemoveContainer, AfterCleanup
<1>8. CASE ForgetRemoved(t)
  BY <1>8 DEF ForgetRemoved, AfterCleanup
<1>9. CASE ReturnSlot(t)
  BY <1>9 DEF ReturnSlot, AfterCleanup
<1> QED
  BY <1>1, <1>2, <1>3, <1>4, <1>5, <1>6, <1>7, <1>8, <1>9 DEF ThreadStep

\* Every step keeps the accounts while no call has failed.
LEMMA StopNext == BookInv /\ OwnInv /\ PhaseInv /\ UseInv /\ StopInv /\ [Next]_vars => StopInv'
<1> SUFFICES ASSUME BookInv, OwnInv, PhaseInv, UseInv, StopInv, [Next]_vars, faults' = 0
             PROVE  StopInv'
  BY DEF StopInv
<1>0. faults = 0
  BY FaultsGrow DEF BookInv
<1> USE <1>0, WorkersAssumption, NamesAssumption
        DEF BookInv, LockInv, NoCreatorInShutdown, Creating, SweepIsShutdown,
            TypeInv, TypeOK, HandsFull, HoldingPCs, ShuttingDown, OwnInv, WorkersWaitForMain,
            PhaseInv, MainIsClosing, StopInv, DoubtIsCreation,
            GoneWhenForgotten, RanIsKnown, ExistsIsKnown, SweepCovers, Sweeping, StoppedIsDone,
            Fault, Goto, Raise, threadVars, lockVars, bookVars, worldVars
<1>1. ASSUME NEW t \in Threads, ThreadStep(t) PROVE StopInv'
  BY <1>1, StopThreadStep
<1>2. ASSUME NEW w \in Workers, GetContainer(w) PROVE StopInv'
  BY <1>2 DEF GetContainer
<1>3. ASSUME NEW w \in Workers, ReleaseContainer(w) PROVE StopInv'
  BY <1>3 DEF ReleaseContainer
<1>4. ASSUME NEW w \in Workers, Replenish(w) \/ MarkDegraded(w) PROVE StopInv'
  BY <1>4 DEF Replenish, MarkDegraded
<1>5. ASSUME NEW n \in Names, KillManaged(n) PROVE StopInv'
  BY <1>5 DEF KillManaged
<1>6. ASSUME NEW n \in Names, SweepManaged(n) PROVE StopInv'
  BY <1>6 DEF SweepManaged
<1>7. ASSUME NEW n \in Names, SweepPending(n) PROVE FALSE
  BY <1>7 DEF SweepPending
<1>8. ASSUME NEW n \in Names, RemoveStale(n) PROVE StopInv'
  BY <1>8 DEF RemoveStale
<1>9. ASSUME NEW n \in Names, LateCreate(n) PROVE StopInv'
  BY <1>9 DEF LateCreate
<1>10. CASE ListRemaining
  BY <1>10 DEF ListRemaining, Remaining
<1>11. CASE Stop
  BY <1>11 DEF Stop
<1>12. CASE BeginShutdown
  BY <1>12 DEF BeginShutdown
<1>13. CASE ListStale
  BY <1>13 DEF ListStale, StaleContainers, Exists
<1>14. CASE FillPool
  BY <1>14 DEF FillPool
<1>15. CASE Restart
  BY <1>15 DEF Restart, BootPC
<1>16. CASE Stopped \/ UNCHANGED vars
  BY <1>16 DEF Stopped, vars
<1> QED
  BY <1>1, <1>2, <1>3, <1>4, <1>5, <1>6, <1>7, <1>8, <1>9, <1>10, <1>11, <1>12, <1>13, <1>14,
     <1>15, <1>16, NextCases

\* As long as no call has failed, the books and the daemon agree.
THEOREM StopInvariant == Spec => []StopInv
<1>1. BookInv /\ OwnInv /\ PhaseInv /\ UseInv /\ StopInv /\ [Next]_vars => StopInv'
  BY StopNext
<1> QED
  BY <1>1, StopInit, BookInvariant, OwnInvariant, UseInvariant, PTL DEF Spec

\* When no Docker call failed, shutdown_pool leaves nothing in the books and, but
\* for an unstarted container of a create that a crash cut off, nothing in the
\* daemon, whatever release_container was doing.
THEOREM CleanStopHolds == Spec => []CleanStop
<1>1. BookInv /\ StopInv => CleanStop
  <2> SUFFICES ASSUME BookInv, StopInv, pc[Main] = "stopped", faults = 0
               PROVE  CleanStop
    BY DEF CleanStop
  <2> USE DEF BookInv, TypeInv, TypeOK, StopInv
  <2>1. managed = {}
    BY DEF StoppedIsDone, SweepCovers, Sweeping
  <2>2. pending = {}
    BY DEF LockInv, SweepIsShutdown, NoCreatorInShutdown, Creating, DoubtIsCreation
  <2>3. \A n \in Names : daemon[n] \notin {"running", "exited"}
    BY <2>1 DEF RanIsKnown
  <2>4. restarts = 0 => \A n \in Names : daemon[n] = "absent"
    BY <2>1 DEF ExistsIsKnown
  <2> QED
    BY <2>1, <2>2, <2>3, <2>4 DEF CleanStop
<1> QED
  BY <1>1, BookInvariant, StopInvariant, PTL

-----------------------------------------------------------------------------
(***************************************************************************)
(* Refinement                                                              *)
(***************************************************************************)
RefInv == BookInv /\ Ledger /\ OwnInv /\ PhaseInv /\ UseInv

USE DEF Lease!Leased, Lease!Present

\* The manager starts as the abstract one does.
LEMMA LeaseInit == Init => Lease!Init
BY WorkersAssumption
   DEF Init, BootPC, Lease!Init, Lease!NoLease, leasePhase, leaseOf, leaseSpent, ShuttingDown

\* SandboxLease counts as ContainerManager does.
LEMMA SameCardinality == \A S : Lease!Cardinality(S) = Cardinality(S)
BY DEF Lease!Cardinality, Cardinality

\* Before shutdown, a managed container that is not in the pool, not leased and
\* not used is new to the abstract manager, and there is room for it.
LEMMA RoomForNew ==
    ASSUME RefInv, ~ShuttingDown, pc[Main] \notin {"boot", "reconcile", "abort"},
           NEW n \in managed, n \notin pool, n \notin used
    PROVE  Lease!New(n)
<1> USE WorkersAssumption, NamesAssumption, PoolSizeAssumption
        DEF RefInv, BookInv, TypeInv, TypeOK, HandsFull, HoldingPCs
<1>1. Lease!Present \subseteq managed \ {n}
  <2>1. \A w \in Workers : pc[w] = "busy" => at[w] \in managed \ {n}
    BY DEF UseInv, HeldExists, UsedIsKnown, BusyIsUsed
  <2>2. leaseSpent \subseteq managed \ {n}
    BY DEF leaseSpent, UseInv, UsedIsKnown
  <2> QED
    BY <2>1, <2>2 DEF leaseOf, OwnInv, HandsOffPool
<1>2. Cardinality(managed) <= PoolSize
  BY NameSets DEF Ledger, TransitCount
<1>3. IsFiniteSet(managed \ {n}) /\ Cardinality(managed \ {n}) < PoolSize
  <2>1. Cardinality(managed \ {n}) = Cardinality(managed) - 1 /\ Cardinality(managed) \in Nat
    BY NameSets
  <2> QED
    BY <1>2, <2>1, FS_Subset
<1>4. Cardinality(Lease!Present) < PoolSize
  <2>1. Cardinality(Lease!Present) <= Cardinality(managed \ {n})
    BY <1>1, <1>3, FS_Subset
  <2>2. Cardinality(Lease!Present) \in Nat /\ Cardinality(managed \ {n}) \in Nat
    BY <1>1, <1>3, FS_Subset, FS_CardinalityType
  <2> QED
    BY <1>3, <2>1, <2>2
<1> QED
  BY <1>1, <1>4, SameCardinality DEF Lease!New
LeaseStep == [Lease!Next]_(Lease!vars)

\* A step that changes neither the phase, the pool, the leases nor which used
\* containers exist, or ends the existence of one of them.
LEMMA SpentStep ==
    ASSUME RefInv, leasePhase' = leasePhase, pool' = pool, leaseOf' = leaseOf,
           \/ leaseSpent' = leaseSpent
           \/ \E n \in leaseSpent : leaseSpent' = leaseSpent \ {n}
    PROVE  LeaseStep
<1>1. leaseSpent \subseteq Names
  BY DEF RefInv, BookInv, TypeInv, TypeOK, leaseSpent
<1> QED
  BY <1>1 DEF LeaseStep, Lease!Next, Lease!vars, Lease!Destroy

\* A creation, up to the start, is invisible; an undone one too.
LEMMA CreateStep ==
    ASSUME RefInv, NEW t \in Threads,
           \/ ReserveName(t) \/ DockerCreate(t) \/ UndoCreate(t) \/ ForgetPendingName(t)
    PROVE  LeaseStep
<1> USE WorkersAssumption, NamesAssumption
        DEF RefInv, BookInv, TypeInv, TypeOK, HandsFull, HoldingPCs, UseInv, FreshHands
<1>1. leasePhase' = leasePhase /\ pool' = pool
  BY DEF ReserveName, DockerCreate, UndoCreate, ForgetPendingName, leasePhase,
         ShuttingDown, bookVars
<1>2. leaseOf' = leaseOf
  BY DEF ReserveName, DockerCreate, UndoCreate, ForgetPendingName, leaseOf, Goto, Raise
<1>3. leaseSpent' = leaseSpent
  <2>1. CASE ReserveName(t)
    BY <1>2, <2>1 DEF ReserveName, FreshNames, leaseSpent, Exists
  <2>2. CASE DockerCreate(t)
    BY <1>2, <2>2 DEF DockerCreate, leaseSpent, Exists
  <2>3. CASE UndoCreate(t)
    BY <1>2, <2>3 DEF UndoCreate, leaseSpent, Exists
  <2>4. CASE ForgetPendingName(t)
    BY <1>2, <2>4 DEF ForgetPendingName, leaseSpent, Exists, worldVars
  <2> QED
    BY <2>1, <2>2, <2>3, <2>4
<1> QED
  BY <1>1, <1>2, <1>3, SpentStep
\* A removal ends the existence of one spent container, or of none.
LEMMA RemoveStep ==
    ASSUME RefInv, NEW t \in Threads,
           RemoveContainer(t) \/ ForgetRemoved(t) \/ ReturnSlot(t)
    PROVE  LeaseStep
<1> USE WorkersAssumption, NamesAssumption
        DEF RefInv, BookInv, TypeInv, TypeOK, HandsFull, HoldingPCs
<1>1. leasePhase' = leasePhase /\ pool' = pool /\ used' = used
  BY DEF RemoveContainer, ForgetRemoved, ReturnSlot, leasePhase, ShuttingDown, bookVars,
         worldVars
<1>2. leaseOf' = leaseOf
  BY DEF RemoveContainer, ForgetRemoved, ReturnSlot, AfterCleanup, leaseOf, Goto, Raise
<1>3. /\ at[t] \in Names
      /\ \A n \in Names : Exists(n)' => Exists(n)
      /\ \A n \in Names \ {at[t]} : Exists(n) => Exists(n)'
  <2>1. at[t] \in Names
    BY DEF RemoveContainer, ForgetRemoved, ReturnSlot
  <2>2. \/ daemon' = daemon
        \/ \E s \in {"absent"} \cup Leftover(at[t]) : daemon' = [daemon EXCEPT ![at[t]] = s]
    BY DEF RemoveContainer, ForgetRemoved, ReturnSlot, worldVars
  <2>3. ASSUME NEW s \in {"absent"} \cup Leftover(at[t]), daemon' = [daemon EXCEPT ![at[t]] = s]
        PROVE  /\ \A n \in Names : Exists(n)' => Exists(n)
               /\ \A n \in Names \ {at[t]} : Exists(n) => Exists(n)'
    BY <2>1, <2>3 DEF Leftover, Exists
  <2> QED
    BY <2>1, <2>2, <2>3 DEF Exists
<1>4. leaseSpent' \subseteq leaseSpent /\ leaseSpent \ {at[t]} \subseteq leaseSpent'
  BY <1>1, <1>2, <1>3 DEF leaseSpent
<1>5. \/ leaseSpent' = leaseSpent
      \/ at[t] \in leaseSpent /\ leaseSpent' = leaseSpent \ {at[t]}
  <2>1. CASE at[t] \in leaseSpent'
    BY <1>4, <2>1
  <2>2. CASE at[t] \notin leaseSpent'
    BY <1>4, <2>2
  <2> QED
    BY <2>1, <2>2
<1> QED
  BY <1>1, <1>2, <1>5, SpentStep

\* A container started for a worker is a lease of a new one, any other start is
\* invisible.
LEMMA StartStep ==
    ASSUME RefInv, NEW t \in Threads, StartContainer(t)
    PROVE  LeaseStep
<1> USE WorkersAssumption, NamesAssumption
        DEF RefInv, BookInv, TypeInv, TypeOK, HandsFull, HoldingPCs, StartContainer, bookVars
<1>1. leasePhase' = leasePhase /\ pool' = pool /\ at' = at /\ at[t] \in Names
  BY DEF leasePhase, ShuttingDown
<1>2. at[t] \notin used /\ at[t] \notin pool /\ at[t] \in managed /\ ~ShuttingDown
  BY DEF UseInv, FreshHands, OwnInv, HandsOffPool, KnownFromStart, LockInv,
         NoCreatorInShutdown, Creating
<1>3. CASE t \in Workers /\ pc'[t] = "busy"
  <2>1. leaseOf' = [leaseOf EXCEPT ![t] = at[t]] /\ leaseOf[t] = None
    BY <1>1, <1>3 DEF leaseOf, Goto
  <2>2. leaseSpent' = leaseSpent
    <3>1. \A n \in Names \ {at[t]} : Exists(n)' = Exists(n)
      BY DEF Exists
    <3>2. \A w \in Workers : leaseOf'[w] = IF w = t THEN at[t] ELSE leaseOf[w]
      BY <2>1 DEF leaseOf
    <3>3. used' \subseteq used \cup {at[t]} /\ used \subseteq used' /\ at[t] \notin leaseSpent'
      BY <1>1, <1>3, <3>2 DEF leaseSpent
    <3> QED
      BY <1>1, <1>2, <1>3, <2>1, <3>1, <3>2, <3>3 DEF leaseSpent
  <2>3. leasePhase = "open" /\ pc[Main] = "serving"
    BY <1>2, <1>3 DEF leasePhase, PhaseInv, OwnInv, WorkersWaitForMain
  <2>4. Lease!New(at[t])
    BY <1>2, <2>3, RoomForNew
  <2>5. Lease!Lease(t, at[t])
    BY <1>1, <1>2, <2>1, <2>2, <2>3, <2>4 DEF Lease!Lease
  <2> QED
    BY <1>1, <1>3, <2>5 DEF LeaseStep, Lease!Next
<1>4. CASE ~(t \in Workers /\ pc'[t] = "busy")
  <2>1. leaseOf' = leaseOf
    BY <1>1, <1>4 DEF leaseOf, Goto
  <2>2. used' = used
    BY <1>4, WorkersAssumption DEF PhaseInv, Goto
  <2>3. \A n \in Names \ {at[t]} : Exists(n)' = Exists(n)
    BY DEF Exists
  <2>4. leaseSpent' = leaseSpent
    BY <1>1, <1>2, <2>1, <2>2, <2>3 DEF leaseSpent
  <2> QED
    BY <1>1, <2>1, <2>4, SpentStep
<1> QED
  BY <1>3, <1>4
\* A container enters the pool as a new one; one that shutdown has overtaken
\* does not.
LEMMA AddStep ==
    ASSUME RefInv, NEW t \in Threads, AddToPool(t)
    PROVE  LeaseStep
<1> USE WorkersAssumption, NamesAssumption
        DEF RefInv, BookInv, TypeInv, TypeOK, HandsFull, HoldingPCs, AddToPool, worldVars
<1>1. leasePhase' = leasePhase /\ at[t] \in Names
  BY DEF leasePhase, ShuttingDown
<1>2. leaseOf' = leaseOf
  BY DEF leaseOf, Goto
<1>3. leaseSpent' = leaseSpent
  BY <1>2 DEF leaseSpent, Exists
<1>4. CASE ShuttingDown
  BY <1>1, <1>2, <1>3, <1>4, SpentStep
<1>5. CASE ~ShuttingDown
  <2>1. at[t] \notin used /\ at[t] \notin pool /\ at[t] \in managed
    BY <1>5 DEF UseInv, FreshHands, OwnInv, HandsOffPool, KnownFromStart
  <2>2. pc[Main] \notin {"boot", "reconcile", "abort"}
    BY <1>5 DEF OwnInv, WorkersWaitForMain
  <2>3. Lease!New(at[t])
    BY <1>5, <2>1, <2>2, RoomForNew
  <2>4. leasePhase # "closed" /\ pool' = pool \cup {at[t]}
    BY <1>5 DEF leasePhase
  <2>5. Lease!Provide(at[t])
    BY <1>1, <1>2, <1>3, <2>3, <2>4 DEF Lease!Provide
  <2> QED
    BY <1>1, <2>5 DEF LeaseStep, Lease!Next
<1> QED
  BY <1>4, <1>5

\* get_container leases a container of the pool, or begins to create one.
LEMMA GetStep ==
    ASSUME RefInv, NEW w \in Workers, GetContainer(w)
    PROVE  LeaseStep
<1> USE WorkersAssumption, NamesAssumption
        DEF RefInv, BookInv, TypeInv, TypeOK, HandsFull, HoldingPCs, GetContainer
<1>1. leasePhase' = leasePhase /\ leasePhase = "open" /\ daemon' = daemon
  BY DEF leasePhase, ShuttingDown, PhaseInv, MainIsClosing
<1>2. ASSUME NEW n \in pool, pool' = pool \ {n}, at' = [at EXCEPT ![w] = n],
             used' = used \cup {n}, Goto(w, "busy")
      PROVE  LeaseStep
  <2>1. leaseOf' = [leaseOf EXCEPT ![w] = n] /\ leaseOf[w] = None
    BY <1>2 DEF leaseOf, Goto
  <2>2. leaseSpent' = leaseSpent
    <3>1. \A v \in Workers : leaseOf'[v] = IF v = w THEN n ELSE leaseOf[v]
      BY <2>1 DEF leaseOf
    <3>2. n \notin leaseSpent' /\ n \notin leaseSpent
      BY <1>2, <3>1 DEF leaseSpent, UseInv, FreshPool
    <3> QED
      BY <1>1, <1>2, <2>1, <3>1, <3>2 DEF leaseSpent, Exists
  <2>3. Lease!Lease(w, n)
    BY <1>1, <1>2, <2>1, <2>2 DEF Lease!Lease
  <2> QED
    BY <2>3 DEF LeaseStep, Lease!Next
<1>3. CASE pool' = pool /\ at' = at /\ used' = used /\ Goto(w, "create")
  <2>1. leaseOf' = leaseOf
    BY <1>3 DEF leaseOf, Goto
  <2>2. leaseSpent' = leaseSpent
    BY <1>1, <1>3, <2>1 DEF leaseSpent, Exists
  <2> QED
    BY <1>1, <1>3, <2>1, <2>2, SpentStep
<1> QED
  BY <1>2, <1>3
\* release_container gives the container back; after shutdown has begun it may
\* not exist any more.
LEMMA GiveBackStep ==
    ASSUME RefInv, NEW w \in Workers, ReleaseContainer(w)
    PROVE  LeaseStep
<1> USE WorkersAssumption, NamesAssumption
        DEF RefInv, BookInv, TypeInv, TypeOK, HandsFull, HoldingPCs, ReleaseContainer, bookVars
<1>1. leasePhase' = leasePhase /\ pool' = pool /\ used' = used /\ at' = at
  BY DEF leasePhase, ShuttingDown
<1>2. leaseOf' = [leaseOf EXCEPT ![w] = None] /\ leaseOf[w] = at[w] /\ at[w] \in Names
  BY <1>1 DEF leaseOf, Goto
<1>3. \A n \in Names : Exists(n)' <=> Exists(n)
  BY DEF Exists
<1>4. \A v \in Workers : leaseOf'[v] = IF v = w THEN None ELSE leaseOf[v]
  BY <1>2 DEF leaseOf
<1>5. at[w] \in used /\ \A v \in Workers \ {w} : leaseOf[v] # at[w]
  BY <1>2 DEF UseInv, BusyIsUsed, BusyIsExclusive, leaseOf
<1>6. CASE Exists(at[w])
  <2>1. leaseSpent' = leaseSpent \cup {at[w]}
    BY <1>1, <1>2, <1>3, <1>4, <1>5, <1>6 DEF leaseSpent
  <2>2. Lease!GiveBack(w)
    BY <1>1, <1>2, <2>1 DEF Lease!GiveBack
  <2> QED
    BY <2>2 DEF LeaseStep, Lease!Next
<1>7. CASE ~Exists(at[w])
  <2>1. leaseSpent' = leaseSpent
    BY <1>1, <1>2, <1>3, <1>4, <1>5, <1>7 DEF leaseSpent
  <2>2. leasePhase = "closed"
    BY <1>7 DEF leasePhase, UseInv, HeldExists
  <2>3. Lease!GiveBack(w)
    BY <1>1, <1>2, <2>1, <2>2 DEF Lease!GiveBack
  <2> QED
    BY <2>3 DEF LeaseStep, Lease!Next
<1> QED
  BY <1>6, <1>7

\* The steps of Main's that touch one container, and a late create: each ends
\* the existence of a spent container or of none.
LEMMA NameStep ==
    ASSUME RefInv, NEW n \in Names,
           \/ KillManaged(n) \/ SweepManaged(n) \/ SweepPending(n)
           \/ RemoveStale(n) \/ LateCreate(n)
    PROVE  LeaseStep
<1> USE WorkersAssumption, NamesAssumption
        DEF RefInv, BookInv, TypeInv, TypeOK
<1>1. leasePhase' = leasePhase /\ pool' = pool /\ used' = used
  BY DEF KillManaged, SweepManaged, SweepPending, RemoveStale, LateCreate, leasePhase,
         ShuttingDown, bookVars, worldVars
<1>2. leaseOf' = leaseOf
  BY DEF KillManaged, SweepManaged, SweepPending, RemoveStale, LateCreate, leaseOf, Goto,
         Raise, threadVars
<1>3. /\ \A m \in used : Exists(m)' => Exists(m)
      /\ \A m \in Names \ {n} : Exists(m) => Exists(m)'
  <2>1. CASE LateCreate(n)
    BY <2>1 DEF LateCreate, Exists, UseInv, FreshRequests
  <2>2. CASE KillManaged(n) \/ SweepManaged(n) \/ SweepPending(n) \/ RemoveStale(n)
    BY <2>2 DEF KillManaged, SweepManaged, SweepPending, RemoveStale, Leftover, Exists,
                worldVars
  <2> QED
    BY <2>1, <2>2
<1>4. leaseSpent' \subseteq leaseSpent /\ leaseSpent \ {n} \subseteq leaseSpent'
  BY <1>1, <1>2, <1>3 DEF leaseSpent
<1>5. \/ leaseSpent' = leaseSpent
      \/ n \in leaseSpent /\ leaseSpent' = leaseSpent \ {n}
  <2>1. CASE n \in leaseSpent'
    BY <1>4, <2>1
  <2>2. CASE n \notin leaseSpent'
    BY <1>4, <2>2
  <2> QED
    BY <2>1, <2>2
<1> QED
  BY <1>1, <1>2, <1>5, SpentStep
\* The steps of a worker between a removal and its next lease are invisible.
LEMMA WorkerStepHidden ==
    ASSUME RefInv, NEW w \in Workers, Replenish(w) \/ MarkDegraded(w)
    PROVE  LeaseStep
<1> USE WorkersAssumption DEF RefInv, BookInv, TypeInv, TypeOK
<1>1. leasePhase' = leasePhase /\ pool' = pool
  BY DEF Replenish, MarkDegraded, DegradedFlags, leasePhase, ShuttingDown, bookVars
<1>2. leaseOf' = leaseOf
  BY DEF Replenish, MarkDegraded, leaseOf, Goto
<1>3. leaseSpent' = leaseSpent
  BY <1>2 DEF Replenish, MarkDegraded, leaseSpent, Exists, worldVars
<1> QED
  BY <1>1, <1>2, <1>3, SpentStep

\* The manager opens when its pool is full, and closes when shutdown begins;
\* Main's other steps are invisible.
LEMMA MainStepHidden ==
    ASSUME RefInv,
           ListRemaining \/ Stop \/ ListStale \/ FillPool \/ BeginShutdown
    PROVE  LeaseStep
<1> USE WorkersAssumption, NamesAssumption, PoolSizeAssumption
        DEF RefInv, BookInv, TypeInv, TypeOK
<1>1. leaseOf' = leaseOf
  BY DEF ListRemaining, Stop, ListStale, FillPool, BeginShutdown, leaseOf, Goto, Raise
<1>2. leaseSpent' = leaseSpent
  BY <1>1 DEF ListRemaining, Stop, ListStale, FillPool, BeginShutdown, leaseSpent, Exists,
              worldVars
<1>3. CASE ListRemaining \/ Stop \/ ListStale
  <2>1. leasePhase' = leasePhase /\ pool' = pool
    BY <1>3 DEF ListRemaining, Stop, ListStale, leasePhase, ShuttingDown, bookVars
  <2> QED
    BY <1>1, <1>2, <2>1, SpentStep
<1>4. CASE FillPool /\ Cardinality(pool) < PoolSize
  <2>1. leasePhase' = leasePhase /\ pool' = pool
    BY <1>4 DEF FillPool, leasePhase, ShuttingDown
  <2> QED
    BY <1>1, <1>2, <2>1, SpentStep
<1>5. CASE FillPool /\ ~(Cardinality(pool) < PoolSize)
  <2>1. leasePhase = "starting" /\ leasePhase' = "open" /\ pool' = pool /\ ~ShuttingDown
    BY <1>5 DEF FillPool, leasePhase, ShuttingDown, PhaseInv, MainIsClosing
  <2>2. Cardinality(managed) <= PoolSize /\ Cardinality(managed) \in Nat
    BY NameSets DEF Ledger, TransitCount
  <2>3. Cardinality(pool) <= Cardinality(managed) /\ Cardinality(pool) \in Nat
    BY <2>1, FS_Subset, FS_CardinalityType DEF OwnInv, HandsOffPool
  <2>4. Lease!Cardinality(pool) = PoolSize
    BY <1>5, <2>2, <2>3, SameCardinality
  <2> QED
    BY <1>1, <1>2, <2>1, <2>4 DEF LeaseStep, Lease!Next, Lease!Open
<1>6. CASE BeginShutdown
  <2>1. leasePhase # "closed"
    BY <1>6 DEF BeginShutdown, leasePhase, PhaseInv, MainIsClosing
  <2>2. leasePhase' = "closed" /\ pool' = {}
    BY <1>6 DEF BeginShutdown, leasePhase, ShuttingDown
  <2> QED
    BY <1>1, <1>2, <2>1, <2>2 DEF LeaseStep, Lease!Next, Lease!Close
<1> QED
  BY <1>3, <1>4, <1>5, <1>6

\* A restart is a crash of the abstract manager.
LEMMA RestartStep ==
    ASSUME RefInv, Restart
    PROVE  LeaseStep
<1> USE WorkersAssumption, NamesAssumption
        DEF RefInv, BookInv, TypeInv, TypeOK, HandsFull, HoldingPCs
<1> DEFINE gone == {n \in Lease!Leased : ~Exists(n)}
<1>1. leasePhase' = "starting" /\ pool' = {} /\ used' = used
  BY DEF Restart, leasePhase, ShuttingDown
<1>2. leaseOf' = Lease!NoLease
  BY DEF Restart, BootPC, leaseOf, Lease!NoLease
<1>3. \A n \in used : Exists(n)' <=> Exists(n)
  BY DEF Restart, Exists, UseInv, FreshHands, BookInv, BooksDisjoint
<1>4. Lease!Leased \subseteq used
  BY DEF UseInv, BusyIsUsed, leaseOf
<1>5. leaseSpent' = {n \in used : Exists(n)}
  BY <1>1, <1>2, <1>3 DEF leaseSpent, Lease!NoLease
<1>6. leaseSpent' = leaseSpent \cup (Lease!Leased \ gone)
  BY <1>4, <1>5 DEF leaseSpent
<1>7. leasePhase # "closed" => gone = {}
  BY DEF leasePhase, UseInv, HeldExists, leaseOf
<1>8. Lease!Crash
  BY <1>1, <1>2, <1>6, <1>7 DEF Lease!Crash
<1> QED
  BY <1>8 DEF LeaseStep, Lease!Next

\* Every step of the manager is a step of the abstract one, or invisible to it.
LEMMA LeaseNext == RefInv /\ [Next]_vars => LeaseStep
<1> SUFFICES ASSUME RefInv, [Next]_vars PROVE LeaseStep
  OBVIOUS
<1>1. CASE Stopped \/ UNCHANGED vars
  <2>1. UNCHANGED <<leasePhase, pool, leaseOf, leaseSpent>>
    BY <1>1 DEF Stopped, vars, threadVars, lockVars, bookVars, worldVars, leasePhase,
                ShuttingDown, leaseOf, leaseSpent, Exists
  <2> QED
    BY <2>1, SpentStep
<1> QED
  BY <1>1, NextCases, CreateStep, RemoveStep, StartStep, AddStep, GetStep, GiveBackStep,
     NameStep, WorkerStepHidden, MainStepHidden, RestartStep DEF ThreadStep

\* Across failing calls, crashes and shutdowns the manager keeps what it promises
\* the workers: fresh, exclusive sandboxes, at most PoolSize, none after closing.
THEOREM Implementation == Spec => ImplementsLease
BY LeaseInit, LeaseNext, BookInvariant, OwnInvariant, UseInvariant, PTL
   DEF Spec, ImplementsLease, Lease!Spec, LeaseStep, RefInv
=============================================================================
