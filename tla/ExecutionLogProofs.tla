------------------------- MODULE ExecutionLogProofs -------------------------
(***************************************************************************)
(* Proofs about ExecutionLog, for every number of saves, workers, rows,    *)
(* failures, process starts and rows that reach the retention age.         *)
(***************************************************************************)
EXTENDS ExecutionLog, FiniteSetTheorems, TLAPS

(***************************************************************************)
(* The executor.                                                           *)
(***************************************************************************)
\* A save that nobody will return a slot for: its submit raised.
Orphans == {r \in Requests : save[r] \in Unfinished} \ holders

\* Every slot is free or has a holder, and only a closed executor has an orphan,
\* next to which a slot stays free.
SlotInv ==
    /\ slots + Cardinality(holders) = Capacity
    /\ Cardinality(Orphans) <= 1
    /\ Orphans # {} => closing /\ slots > 0

SaveInv ==
    /\ \A r \in holders : save[r] \in Unfinished \cup {"saved", "failed"}
    /\ \A r \in Requests : request[r] = "new" => save[r] = "none"
    /\ \A r \in Requests : request[r] = "saved" => save[r] = "saved"
    /\ phase \in {"starting", "down"} => \A r \in Requests : save[r] \notin Unfinished
    /\ phase = "stopping" => Queued = {}
    /\ Cardinality(Busy) <= threads

(***************************************************************************)
(* The transactions.                                                       *)
(***************************************************************************)
\* Transactions that have their id and may still commit.
Open    == {r \in Requests : save[r] \in {"select", "delete", "lock", "commit"}}
OpenIds == {tx[r].id : r \in Open}
Deleting(r) == save[r] \in {"lock", "commit"}

\* Ids are drawn once; an open transaction's is not stored, a saved one's is.
IdInv ==
    /\ \A r \in Open : tx[r].id \in (1..nextId - 1) \ stored
    /\ \A r, s \in Open : tx[r].id = tx[s].id => r = s
    /\ \A r \in Requests : save[r] = "saved" => tx[r].id \in stored

\* What a transaction takes for the newest id is its own or one that is stored,
\* and what it deletes is expired or outside the window of that id.
VictimInv ==
    /\ \A r \in Requests : save[r] \in {"delete", "lock", "commit"} =>
          tx[r].newest \in stored \cup {tx[r].id} /\ tx[r].id <= tx[r].newest
    /\ \A r \in Requests : Deleting(r) =>
          /\ tx[r].victims \subseteq stored \cup {tx[r].id}
          /\ \A n \in tx[r].victims : n \in expired \/ n + MaxRows <= tx[r].newest

(***************************************************************************)
(* The window.                                                             *)
(***************************************************************************)
\* Rows, and rows to come, that are outside the window of an id.
Late(m) == {n \in rows \cup OpenIds : n + MaxRows <= m}

\* Those that a transaction leaves were open when it deleted: one for each
\* other worker.
WindowInv ==
    /\ \A n \in stored \ rows : n \in expired \/ n + MaxRows <= Newest(stored)
    /\ Cardinality(Late(Newest(stored))) <= Capacity - 1
    /\ \A r \in Requests : Deleting(r) =>
          Cardinality(Late(tx[r].id) \ tx[r].victims) <= Capacity - 1

\* The inductive invariant.
IInv == TypeOK /\ SlotInv /\ SaveInv /\ IdInv /\ VictimInv /\ WindowInv

-----------------------------------------------------------------------------
(***************************************************************************)
(* Numbers and finite sets.                                                *)
(***************************************************************************)
\* A set of natural numbers that is not empty has a least element.
LEMMA LeastNatural ==
    ASSUME NEW B \in SUBSET Nat, B # {}
    PROVE  \E x \in B : \A y \in B : x <= y
<1> DEFINE Less == OpToRel(<, Nat)
<1>1. Less = {ss \in Nat \X Nat : ss[1] < ss[2]}
  BY DEF OpToRel
<1>2. IsWellFoundedOn(Less, Nat)
  BY NatLessThanWellFounded
<1> HIDE DEF Less
<1>3. PICK x \in B : \A y \in B : <<y, x>> \notin Less
  BY <1>2, WFMin
<1>4. \A y \in B : ~(y < x)
  BY <1>1, <1>3
<1> QED
  BY <1>3, <1>4

\* Newest is the greatest id, or 0 where there is none.
LEMMA NewestId ==
    ASSUME NEW S \in SUBSET Nat, NEW k \in Nat, \A n \in S : n <= k
    PROVE  /\ Newest(S) \in S \cup {0} /\ Newest(S) \in Nat
           /\ \A n \in S : n <= Newest(S)
<1>1. \E n \in S \cup {0} : \A m \in S : m <= n
  <2> DEFINE B == {b \in Nat : \A n \in S : n <= b}
  <2>1. PICK x \in B : \A y \in B : x <= y
    BY LeastNatural
  <2>2. CASE x \in S \cup {0}
    BY <2>1, <2>2
  <2>3. CASE x \notin S \cup {0}
    <3>1. x \in Nat /\ x - 1 \in B
      BY <2>1, <2>3
    <3>2. x <= x - 1
      BY <2>1, <3>1
    <3> QED
      BY <3>1, <3>2
  <2> QED
    BY <2>2, <2>3
<1>2. \A m \in S : m <= Newest(S)
  BY <1>1 DEF Newest
<1>3. Newest(S) \in S \cup {0}
  BY <1>1 DEF Newest
<1>4. S \cup {0} \subseteq Nat
  OBVIOUS
<1>5. Newest(S) \in Nat
  BY <1>3, <1>4
<1> QED
  BY <1>2, <1>3, <1>5

\* One element more or less is one more or less, a part has no more elements
\* than the whole.
LEMMA Counting ==
    ASSUME NEW S, IsFiniteSet(S)
    PROVE  /\ Cardinality(S) \in Nat
           /\ \A x : x \notin S => Cardinality(S \cup {x}) = Cardinality(S) + 1
           /\ \A x \in S : Cardinality(S \ {x}) = Cardinality(S) - 1
           /\ \A T \in SUBSET S : /\ IsFiniteSet(T) /\ Cardinality(T) \in Nat
                                  /\ Cardinality(T) <= Cardinality(S)
           /\ \A T : Cardinality(S \ T) = Cardinality(S) - Cardinality(S \cap T)
<1>1. \A T \in SUBSET S : IsFiniteSet(T) /\ Cardinality(T) <= Cardinality(S)
  BY FS_Subset
<1>2. \A T : Cardinality(S \ T) = Cardinality(S) - Cardinality(S \cap T)
  BY FS_Difference
<1> QED
  BY <1>1, <1>2, FS_CardinalityType, FS_AddElement, FS_RemoveElement

\* Two sets have together no more elements than each of them added up.
LEMMA Together ==
    ASSUME NEW S, NEW T, IsFiniteSet(S), IsFiniteSet(T)
    PROVE  /\ Cardinality(S) \in Nat /\ Cardinality(T) \in Nat /\ Cardinality(S \cup T) \in Nat
           /\ Cardinality(S \cup T) <= Cardinality(S) + Cardinality(T)
<1>1. IsFiniteSet(S \cap T)
  BY FS_Intersection
<1>2. IsFiniteSet(S \cup T)
      /\ Cardinality(S \cup T) = Cardinality(S) + Cardinality(T) - Cardinality(S \cap T)
  BY FS_Union
<1>3. /\ Cardinality(S) \in Nat /\ Cardinality(T) \in Nat /\ Cardinality(S \cap T) \in Nat
      /\ Cardinality(S \cup T) \in Nat
  BY <1>1, <1>2, FS_CardinalityType
<1> QED
  BY <1>2, <1>3

\* Sets of requests are finite, and so are sets of ids that have been drawn.
LEMMA FiniteParts ==
    ASSUME TypeOK, IdInv
    PROVE  /\ \A S \in SUBSET Requests : IsFiniteSet(S)
           /\ \A S \in SUBSET (1..nextId - 1) : IsFiniteSet(S)
<1>1. IsFiniteSet(1..nextId - 1)
  BY FS_Interval DEF TypeOK
<1> QED
  BY <1>1, RequestsAssumption, FS_Subset

-----------------------------------------------------------------------------
(***************************************************************************)
(* The executor.                                                           *)
(***************************************************************************)
\* What a worker does between taking a save and the end of its transaction.
Statement(r) ==
    \/ Insert(r) \/ SelectNewest(r) \/ StartDelete(r) \/ DeleteRows(r)
    \/ StatementFails(r) \/ CommitFails(r)

\* The steps, one disjunct for each kind.
LEMMA NextCases ==
    ASSUME [Next]_vars
    PROVE  \/ \E r \in Requests :
                 \/ Submit(r) \/ Refuse(r) \/ SubmitRaises(r) \/ Answer(r) \/ Cancel(r)
                 \/ Take(r) \/ Statement(r) \/ Commit(r) \/ Rollback(r) \/ ReleaseSlot(r)
           \/ StartupPrune \/ StartupFails \/ Shutdown \/ Joined \/ Crash \/ Restart
           \/ \E n \in rows : Expire(n)
           \/ UNCHANGED vars
BY DEF Next, Work, Statement, AtRest

\* Which sets are counted.
LEMMA ExecutorSets ==
    ASSUME IInv
    PROVE  /\ \A S \in SUBSET Requests : IsFiniteSet(S)
           /\ holders \in SUBSET Requests /\ Orphans \in SUBSET Requests
           /\ Busy \in SUBSET Requests /\ Queued \in SUBSET Requests
BY FiniteParts DEF IInv, TypeOK, Orphans, Busy, Queued

\* Slots and holders that stay as they are, with no more orphans.
LEMMA SlotsKept ==
    ASSUME IInv, UNCHANGED slots, holders' = holders, Orphans' \subseteq Orphans, closing => closing'
    PROVE  SlotInv' /\ slots' \in 0..Capacity
<1>1. Cardinality(Orphans') <= Cardinality(Orphans) /\ Cardinality(Orphans') \in Nat
      /\ Cardinality(Orphans) \in Nat
  BY ExecutorSets, Counting
<1> QED
  BY <1>1 DEF IInv, TypeOK, SlotInv

\* A new executor.
LEMMA SlotsReset ==
    ASSUME slots' = Capacity, holders' = {}, Orphans' = {}
    PROVE  SlotInv' /\ slots' \in 0..Capacity
BY FS_EmptySet, CapacityAssumption DEF SlotInv

\* The slots through every step: a failing submit closes the executor while its
\* own slot is free, so that no later save takes it.
LEMMA SlotsNext ==
    ASSUME IInv, [Next]_vars
    PROVE  SlotInv' /\ slots' \in 0..Capacity
<1> DEFINE Goal == SlotInv' /\ slots' \in 0..Capacity
<1> USE DEF Orphans, executorVars
<1>0. /\ SlotInv /\ slots \in 0..Capacity /\ holders \in SUBSET Requests /\ Capacity \in Nat
      /\ Cardinality(holders) \in Nat /\ Orphans \in SUBSET Requests
  BY ExecutorSets, Counting, CapacityAssumption DEF IInv, TypeOK
<1>1. ASSUME NEW r \in Requests, Submit(r) PROVE Goal
  <2>1. r \notin holders /\ holders' = holders \cup {r}
    BY <1>1 DEF Submit, Arrives, IInv, TypeOK, SaveInv, Unfinished, InThread
  <2>2. Cardinality(holders') = Cardinality(holders) + 1
    BY <1>0, <2>1, ExecutorSets, Counting
  <2>3. Orphans = {}
    BY <1>0, <1>1 DEF Submit, SlotInv
  <2>4. Orphans' = {}
    BY <1>1, <2>1, <2>3 DEF Submit, IInv, TypeOK
  <2>5. slots' = slots - 1 /\ slots > 0
    BY <1>1 DEF Submit
  <2>6. slots' + Cardinality(holders') = Capacity /\ slots' \in 0..Capacity
    BY <1>0, <2>2, <2>5 DEF SlotInv
  <2>7. Cardinality(Orphans') <= 1
    BY <2>4, FS_EmptySet
  <2> QED
    BY <2>4, <2>6, <2>7 DEF SlotInv
<1>2. ASSUME NEW r \in Requests, SubmitRaises(r) PROVE Goal
  <2>1. Orphans = {}
    BY <1>0, <1>2 DEF SubmitRaises, SlotInv
  <2>2. Orphans' \subseteq {r}
    BY <1>2, <2>1 DEF SubmitRaises, IInv, TypeOK
  <2>3. Cardinality(Orphans') <= 1
    <3>1. IsFiniteSet({r}) /\ Cardinality({r}) = 1
      BY FS_Singleton
    <3> QED
      BY <2>2, <3>1, FS_Subset
  <2> QED
    BY <1>0, <1>2, <2>3 DEF SubmitRaises, SlotInv, ClosingAfterFailure
<1>3. ASSUME NEW r \in Requests, \/ Refuse(r) \/ Answer(r) \/ Cancel(r) \/ Take(r)
                                 \/ Statement(r) \/ Commit(r) \/ Rollback(r)
      PROVE  Goal
  <2>1. /\ UNCHANGED <<slots, holders, closing>>
        /\ \A q \in Requests : save'[q] \in Unfinished => save[q] \in Unfinished
    BY <1>3 DEF Refuse, Answer, Cancel, Take, Statement, Insert, SelectNewest, StartDelete,
                DeleteRows, StatementFails, CommitFails, Commit, Rollback, AfterLostCommit,
                IInv, TypeOK, Unfinished, InThread
  <2> QED
    BY <2>1, SlotsKept
<1>4. ASSUME NEW r \in Requests, ReleaseSlot(r) PROVE Goal
  <2>1. r \in holders /\ holders' = holders \ {r} /\ save[r] \notin Unfinished
    BY <1>4 DEF ReleaseSlot, Returning, Unfinished, InThread
  <2>2. Cardinality(holders') = Cardinality(holders) - 1 /\ Cardinality(holders') \in Nat
    BY <1>0, <2>1, ExecutorSets, Counting
  <2>3. Orphans' = Orphans
    BY <1>4, <2>1 DEF ReleaseSlot
  <2>4. slots' = slots + 1 /\ closing' = closing
    BY <1>4 DEF ReleaseSlot
  <2>5. slots' + Cardinality(holders') = Capacity /\ slots' \in 0..Capacity
    BY <1>0, <2>2, <2>4 DEF SlotInv
  <2>6. Cardinality(Orphans') <= 1 /\ (Orphans' # {} => closing' /\ slots' > 0)
    BY <1>0, <2>3, <2>4 DEF SlotInv
  <2> QED
    BY <2>5, <2>6 DEF SlotInv
<1>5. CASE Shutdown
  <2>1. /\ Cardinality(holders') = Cardinality(holders) - Cardinality(Queued \cap holders)
        /\ Cardinality(holders') \in Nat /\ Cardinality(Queued \cap holders) \in Nat
    <3>1. holders \cap Queued = Queued \cap holders /\ holders \ Queued \in SUBSET holders
      OBVIOUS
    <3>2. IsFiniteSet(holders) /\ IsFiniteSet(Queued \cap holders)
      BY <1>0, <3>1, ExecutorSets, FS_Subset
    <3>3. holders' = holders \ Queued
      BY <1>5 DEF Shutdown
    <3>4. Cardinality(holders \ Queued) = Cardinality(holders) - Cardinality(holders \cap Queued)
      BY <3>2, FS_Difference
    <3>5. Cardinality(holders \ Queued) \in Nat /\ Cardinality(Queued \cap holders) \in Nat
      BY <3>1, <3>2, FS_Subset, FS_CardinalityType
    <3> QED
      BY <3>1, <3>3, <3>4, <3>5
  <2>2. Orphans' \subseteq Orphans
    BY <1>5 DEF Shutdown, Queued, Unfinished, InThread, IInv, TypeOK
  <2>3. Cardinality(Orphans') \in Nat /\ Cardinality(Orphans') <= Cardinality(Orphans)
        /\ Cardinality(Orphans) \in Nat
    BY <1>0, <2>2, ExecutorSets, Counting
  <2>4. slots' + Cardinality(holders') = Capacity /\ slots' \in 0..Capacity /\ slots' >= slots
    BY <1>0, <1>5, <2>1 DEF Shutdown, SlotInv
  <2> QED
    BY <1>0, <1>5, <2>2, <2>3, <2>4 DEF Shutdown, SlotInv
<1>6. CASE Crash
  BY <1>6, SlotsReset DEF Crash, Unfinished, InThread
<1>7. CASE Restart
  BY <1>7, SlotsReset DEF Restart, IInv, SaveInv
<1>8. CASE StartupPrune \/ StartupFails \/ Joined \/ (\E n \in rows : Expire(n)) \/ UNCHANGED vars
  <2>1. UNCHANGED <<slots, holders, closing, save>>
    BY <1>8 DEF StartupPrune, StartupFails, Joined, Expire, vars
  <2> QED
    BY <2>1, SlotsKept
<1> QED
  BY <1>1, <1>2, <1>3, <1>4, <1>5, <1>6, <1>7, <1>8, NextCases

\* Sets of saves that a step leaves as they are, or makes smaller.
LEMMA BusyKept ==
    ASSUME IInv, Busy' \subseteq Busy, threads' \in Nat, threads <= threads'
    PROVE  Cardinality(Busy') <= threads'
<1>1. /\ Cardinality(Busy') <= Cardinality(Busy)
      /\ Cardinality(Busy') \in Nat /\ Cardinality(Busy) \in Nat
  BY ExecutorSets, Counting
<1> QED
  BY <1>1 DEF IInv, TypeOK, SaveInv

\* A thread takes a save only when it is not needed for another.
LEMMA BusyTaken ==
    ASSUME IInv, NEW r \in Requests, Take(r)
    PROVE  Cardinality(Busy') <= threads'
<1>1. Busy' \subseteq Busy \cup {r} /\ Returning \in SUBSET Requests
  BY ExecutorSets DEF Take, Busy, Returning, IInv, TypeOK
<1>2. Busy \cup Returning \in SUBSET Requests /\ Busy \cup {r} \in SUBSET Requests
  BY <1>1, ExecutorSets
<1>3. /\ IsFiniteSet(Busy) /\ IsFiniteSet(Busy \cup Returning) /\ IsFiniteSet(Busy \cup {r})
  BY <1>2, ExecutorSets
<1>4. Cardinality(Busy \cup {r}) <= Cardinality(Busy) + 1
  BY <1>3, FS_AddElement, FS_CardinalityType
<1>5. Cardinality(Busy) <= Cardinality(Busy \cup Returning)
  BY <1>3, FS_Subset
<1>6. Cardinality(Busy') <= Cardinality(Busy \cup {r}) /\ Cardinality(Busy') \in Nat
  BY <1>1, <1>3, FS_Subset, FS_CardinalityType
<1>7. Cardinality(Busy \cup Returning) < threads /\ threads' = threads /\ threads \in Nat
  BY DEF Take, executorVars, IInv, TypeOK
<1>8. /\ Cardinality(Busy) \in Nat /\ Cardinality(Busy \cup Returning) \in Nat
      /\ Cardinality(Busy \cup {r}) \in Nat
  BY <1>3, FS_CardinalityType
<1> QED
  BY <1>4, <1>5, <1>6, <1>7, <1>8

\* What a request, its save and the process say of each other through every step.
LEMMA SaveNext ==
    ASSUME IInv, [Next]_vars
    PROVE  SaveInv'
<1> USE DEF executorVars, Unfinished, InThread
<1>0. TypeOK /\ SaveInv /\ threads \in Nat
  BY DEF IInv, TypeOK
<1>1. ASSUME NEW r \in Requests, \/ Submit(r) \/ SubmitRaises(r) PROVE SaveInv'
  <2>1. /\ save' = [save EXCEPT ![r] = "queued"]
        /\ \E x \in {"waiting", "unavailable"} : request' = [request EXCEPT ![r] = x]
        /\ phase = "serving" /\ phase' = phase /\ save[r] = "none"
        /\ holders' \in {holders, holders \cup {r}}
    BY <1>0, <1>1 DEF Submit, SubmitRaises, Arrives, SaveInv
  <2>2. threads' \in Nat /\ threads <= threads'
    BY <1>0, <1>1 DEF Submit, SubmitRaises
  <2>3. Busy' \subseteq Busy
    BY <1>0, <2>1 DEF Busy, TypeOK
  <2>4. Cardinality(Busy') <= threads'
    BY <2>2, <2>3, BusyKept
  <2> QED
    BY <1>0, <2>1, <2>4 DEF SaveInv, TypeOK
<1>2. ASSUME NEW r \in Requests, \/ Refuse(r) \/ Answer(r) \/ Cancel(r) PROVE SaveInv'
  <2>1. /\ UNCHANGED <<phase, save, holders, threads>>
        /\ \E x \in {"saved", "unavailable", "cancelled"} :
              request' = [request EXCEPT ![r] = x] /\ (x = "saved" => save[r] = "saved")
    BY <1>2 DEF Refuse, Answer, Cancel
  <2>2. Cardinality(Busy') <= threads'
    BY <1>0, <2>1, BusyKept DEF Busy
  <2> QED
    BY <1>0, <2>1, <2>2 DEF SaveInv, TypeOK, Queued
<1>3. ASSUME NEW r \in Requests, \/ Take(r) \/ Statement(r) \/ Commit(r) \/ Rollback(r)
      PROVE  SaveInv'
  <2>1. /\ UNCHANGED <<phase, request, holders, threads>> /\ save[r] \in Unfinished
        /\ \E x \in InThread \cup {"saved", "failed"} : save' = [save EXCEPT ![r] = x]
        /\ Take(r) \/ save[r] \in InThread
    BY <1>3 DEF Take, Statement, Insert, SelectNewest, StartDelete, DeleteRows, StatementFails,
                CommitFails, Commit, Rollback, AfterLostCommit
  <2>2. Cardinality(Busy') <= threads'
    <3>1. CASE Take(r)
      BY <3>1, BusyTaken
    <3>2. CASE save[r] \in InThread
      <4>1. Busy' \subseteq Busy
        BY <1>0, <2>1, <3>2 DEF Busy, TypeOK
      <4> QED
        BY <1>0, <2>1, <4>1, BusyKept
    <3> QED
      BY <2>1, <3>1, <3>2
  <2> QED
    BY <1>0, <2>1, <2>2 DEF SaveInv, TypeOK, Queued
<1>4. ASSUME NEW r \in Requests, ReleaseSlot(r) PROVE SaveInv'
  <2>1. UNCHANGED <<phase, request, save, threads>> /\ holders' \subseteq holders
    BY <1>4 DEF ReleaseSlot
  <2>2. Cardinality(Busy') <= threads'
    BY <1>0, <2>1, BusyKept DEF Busy
  <2> QED
    BY <1>0, <2>1, <2>2 DEF SaveInv, Queued
<1>5. CASE Shutdown
  <2>1. /\ phase' = "stopping" /\ UNCHANGED <<request, threads>> /\ holders' = holders \ Queued
        /\ \A r \in Requests : save'[r] = IF save[r] = "queued" THEN "failed" ELSE save[r]
    BY <1>5 DEF Shutdown, Queued
  <2>2. Busy' \subseteq Busy /\ Queued' = {}
    BY <2>1 DEF Busy, Queued
  <2>3. Cardinality(Busy') <= threads'
    BY <1>0, <2>1, <2>2, BusyKept
  <2> QED
    BY <1>0, <2>1, <2>2, <2>3 DEF SaveInv, Queued, TypeOK
<1>6. CASE Crash
  <2>1. /\ phase' = "down" /\ holders' = {} /\ threads' = 0
        /\ \A r \in Requests :
              /\ save'[r] = IF save[r] \in Unfinished THEN "lost" ELSE save[r]
              /\ request'[r] = IF request[r] = "waiting" THEN "cancelled" ELSE request[r]
    BY <1>6 DEF Crash
  <2>2. Busy' = {}
    BY <2>1 DEF Busy
  <2> QED
    BY <1>0, <2>1, <2>2, FS_EmptySet DEF SaveInv, TypeOK
<1>7. CASE Restart
  <2>1. /\ phase = "down" /\ phase' = "starting" /\ save' = save /\ holders' = {} /\ threads' = 0
        /\ \A r \in Requests :
              request'[r] = IF request[r] = "waiting" THEN "cancelled" ELSE request[r]
    BY <1>7 DEF Restart
  <2>2. Busy' = {}
    BY <1>0, <2>1 DEF Busy, SaveInv
  <2> QED
    BY <1>0, <2>1, <2>2, FS_EmptySet DEF SaveInv, TypeOK
<1>8. CASE StartupPrune \/ StartupFails \/ Joined \/ (\E n \in rows : Expire(n)) \/ UNCHANGED vars
  <2>1. /\ UNCHANGED <<request, save, holders, threads>>
        /\ \/ phase' = phase
           \/ phase \in {"starting", "down"} /\ phase' \in {"serving", "down"}
           \/ phase = "stopping" /\ Busy = {} /\ phase' = "down"
    BY <1>8 DEF StartupPrune, StartupFails, Joined, Expire, vars
  <2>2. Cardinality(Busy') <= threads'
    BY <1>0, <2>1, BusyKept DEF Busy
  <2> QED
    BY <1>0, <2>1, <2>2 DEF SaveInv, Queued, Busy, TypeOK
<1> QED
  BY <1>1, <1>2, <1>3, <1>4, <1>5, <1>6, <1>7, <1>8, NextCases

-----------------------------------------------------------------------------
(***************************************************************************)
(* Types.                                                                  *)
(***************************************************************************)
\* The steps of a transaction that has its id, and of the table.
TxStep ==
    \/ \E r \in Requests : \/ Insert(r) \/ SelectNewest(r) \/ StartDelete(r) \/ DeleteRows(r)
    \/ StartupPrune \/ \E n \in rows : Expire(n)

\* A step that does none of these ends the transactions of R, which take effect,
\* and perhaps some others, which do not.
Settles(R) ==
    /\ R \subseteq {r \in Requests : save[r] = "commit"}
    /\ Apply(R)
    /\ Open' \subseteq Open \ R
    /\ \A r \in Open' : tx'[r] = tx[r] /\ save'[r] = save[r]
    /\ \A r \in Requests : save'[r] = "saved" => save[r] = "saved" \/ r \in R
    /\ \A r \in Requests : save'[r] = "saved" => tx'[r].id = tx[r].id

\* A step is one of a transaction that stays open, or it settles requests.
LEMMA SettleCases ==
    ASSUME IInv, [Next]_vars
    PROVE  TxStep \/ \E R \in SUBSET Requests : Settles(R)
<1> USE DEF tableVars, Open
<1>0. TypeOK /\ SaveInv
  BY DEF IInv
<1>1. ASSUME UNCHANGED tableVars, Open' \subseteq Open,
             \A r \in Open' : tx'[r] = tx[r] /\ save'[r] = save[r],
             \A r \in Requests : save'[r] = "saved" => save[r] = "saved" /\ tx'[r].id = tx[r].id
      PROVE  Settles({})
  <2>1. Apply({})
    BY <1>1 DEF Apply
  <2> QED
    BY <1>1, <2>1 DEF Settles
<1>2. ASSUME NEW r \in Requests, \/ Submit(r) \/ Refuse(r) \/ SubmitRaises(r) \/ Answer(r)
                                 \/ Cancel(r) \/ Take(r) \/ StatementFails(r) \/ Rollback(r)
                                 \/ ReleaseSlot(r)
      PROVE  Settles({})
  <2>1. /\ UNCHANGED tableVars
        /\ tx' = tx \/ \E t : tx' = [tx EXCEPT ![r] = t]
        /\ \/ save' = save /\ tx' = tx
           \/ \E x \in {"queued", "insert", "rollback", "failed"} : save' = [save EXCEPT ![r] = x]
    BY <1>2 DEF Submit, Refuse, SubmitRaises, Answer, Cancel, Take, StatementFails, Rollback,
                ReleaseSlot
  <2> QED
    BY <1>0, <1>1, <2>1 DEF TypeOK
<1>3. ASSUME NEW r \in Requests, Commit(r) PROVE Settles({r})
  BY <1>0, <1>3 DEF Commit, Over, NoTx, Settles, TypeOK
<1>4. ASSUME NEW r \in Requests, CommitFails(r) PROVE Settles({}) \/ Settles({r})
  <2>1. /\ save[r] = "commit" /\ save' = [save EXCEPT ![r] = "rollback"] /\ tx' = tx
        /\ Apply({r}) \/ UNCHANGED tableVars
    BY <1>4 DEF CommitFails, AfterLostCommit
  <2>2. CASE Apply({r})
    BY <1>0, <2>1, <2>2 DEF Settles, TypeOK
  <2>3. CASE UNCHANGED tableVars
    BY <1>0, <1>1, <2>1, <2>3 DEF TypeOK
  <2> QED
    BY <2>1, <2>2, <2>3
<1>5. CASE Shutdown
  BY <1>0, <1>1, <1>5 DEF Shutdown, Queued
<1>6. ASSUME Crash PROVE \E R \in SUBSET Requests : Settles(R)
  <2>1. PICK R \in SUBSET {r \in Requests : save[r] = "commit"} : Apply(R)
    BY <1>6 DEF Crash
  <2>2. \A r \in Requests : /\ save'[r] = IF save[r] \in Unfinished THEN "lost" ELSE save[r]
                            /\ tx'[r].id = tx[r].id
    BY <1>6 DEF Crash, Over, NoTx
  <2>3. Settles(R)
    BY <2>1, <2>2 DEF Settles, Unfinished, InThread
  <2> QED
    BY <2>1, <2>3
<1>7. CASE Restart \/ StartupFails \/ Joined \/ UNCHANGED vars
  <2>1. UNCHANGED <<save, tx, rows, nextId, expired, stored>>
    BY <1>7 DEF Restart, StartupFails, Joined, vars
  <2> QED
    BY <1>1, <2>1
<1> QED
  BY <1>2, <1>3, <1>4, <1>5, <1>6, <1>7, NextCases DEF TxStep, Statement

\* Saves that are settled leave ids to ids that were drawn.
LEMMA SettledTable ==
    ASSUME IInv, NEW R \in SUBSET Requests, Settles(R)
    PROVE  /\ nextId' = nextId /\ expired' = expired
           /\ stored' = stored \cup {tx[r].id : r \in R} /\ stored' \subseteq 1..nextId - 1
           /\ rows' = (rows \cup {tx[r].id : r \in R}) \ UNION {tx[r].victims : r \in R}
           /\ rows' \subseteq stored'
<1>1. \A r \in R : tx[r].id \in 1..nextId - 1
  BY DEF Settles, IInv, IdInv, Open
<1>2. Apply(R) /\ TypeOK
  BY DEF Settles, IInv
<1>3. stored' \subseteq 1..nextId - 1
  BY <1>1, <1>2 DEF Apply, TypeOK
<1>4. rows' \subseteq stored'
  BY <1>2 DEF Apply, TypeOK
<1> QED
  BY <1>2, <1>3, <1>4 DEF Apply

\* The table and the sequence.
LEMMA TableTypes ==
    ASSUME IInv, [Next]_vars
    PROVE  /\ nextId' \in Nat \ {0} /\ stored' \subseteq 1..nextId' - 1
           /\ rows' \subseteq stored' /\ expired' \subseteq stored'
<1>0. TypeOK
  BY DEF IInv
<1>1. CASE TxStep
  BY <1>0, <1>1 DEF TxStep, Insert, SelectNewest, StartDelete, DeleteRows, StartupPrune, Expire,
                    tableVars, TypeOK
<1>2. ASSUME NEW R \in SUBSET Requests, Settles(R)
      PROVE  /\ nextId' \in Nat \ {0} /\ stored' \subseteq 1..nextId' - 1
             /\ rows' \subseteq stored' /\ expired' \subseteq stored'
  BY <1>0, <1>2, SettledTable DEF TypeOK
<1> QED
  BY <1>1, <1>2, SettleCases

\* The coroutines, the executor and the process.
LEMMA ControlTypes ==
    ASSUME IInv, [Next]_vars
    PROVE  /\ phase' \in {"starting", "serving", "stopping", "down"}
           /\ request' \in [Requests -> {"new", "waiting", "saved", "unavailable", "cancelled"}]
           /\ save' \in [Requests -> {"none", "saved", "failed", "lost"} \cup Unfinished]
           /\ holders' \subseteq Requests /\ closing' \in BOOLEAN /\ threads' \in 0..Capacity
           /\ faults' \in 0..MaxFaults /\ restarts' \in 0..MaxRestarts
<1> DEFINE Goal ==
       /\ phase' \in {"starting", "serving", "stopping", "down"}
       /\ request' \in [Requests -> {"new", "waiting", "saved", "unavailable", "cancelled"}]
       /\ save' \in [Requests -> {"none", "saved", "failed", "lost"} \cup Unfinished]
       /\ holders' \subseteq Requests /\ closing' \in BOOLEAN /\ threads' \in 0..Capacity
       /\ faults' \in 0..MaxFaults /\ restarts' \in 0..MaxRestarts
<1> USE CapacityAssumption, BoundsAssumption DEF executorVars, Unfinished, InThread
<1>0. TypeOK
  BY DEF IInv
<1>1. ASSUME NEW r \in Requests, \/ Submit(r) \/ SubmitRaises(r) PROVE Goal
  <2>1. /\ save' = [save EXCEPT ![r] = "queued"]
        /\ \E x \in {"waiting", "unavailable"} : request' = [request EXCEPT ![r] = x]
        /\ phase' = phase /\ holders' \in {holders, holders \cup {r}}
        /\ closing' \in {closing, TRUE} /\ restarts' = restarts
    BY <1>1 DEF Submit, SubmitRaises, ClosingAfterFailure
  <2>2. threads' \in 0..Capacity /\ faults' \in 0..MaxFaults
    BY <1>0, <1>1 DEF Submit, SubmitRaises, Fault, TypeOK
  <2> QED
    BY <1>0, <2>1, <2>2 DEF TypeOK
<1>2. ASSUME NEW r \in Requests, \/ Refuse(r) \/ Answer(r) \/ Cancel(r) \/ ReleaseSlot(r) PROVE Goal
  BY <1>0, <1>2 DEF Refuse, Answer, Cancel, ReleaseSlot, TypeOK
<1>3. ASSUME NEW r \in Requests, \/ Take(r) \/ Statement(r) \/ Commit(r) \/ Rollback(r) PROVE Goal
  <2>1. /\ UNCHANGED <<phase, request, holders, closing, threads, restarts>>
        /\ \E x \in InThread \cup {"saved", "failed"} : save' = [save EXCEPT ![r] = x]
        /\ faults' = faults \/ Fault
    BY <1>3 DEF Take, Statement, Insert, SelectNewest, StartDelete, DeleteRows, StatementFails,
                CommitFails, Commit, Rollback, AfterLostCommit
  <2>2. faults' \in 0..MaxFaults
    BY <1>0, <2>1 DEF Fault, TypeOK
  <2> QED
    BY <1>0, <2>1, <2>2 DEF TypeOK
<1>4. CASE Shutdown
  BY <1>0, <1>4 DEF Shutdown, TypeOK
<1>5. CASE Crash
  <2>1. request' \in [Requests -> {"new", "waiting", "saved", "unavailable", "cancelled"}]
    BY <1>0, <1>5 DEF Crash, TypeOK
  <2>2. save' \in [Requests -> {"none", "saved", "failed", "lost"} \cup Unfinished]
    BY <1>0, <1>5 DEF Crash, TypeOK
  <2>3. /\ UNCHANGED <<faults, restarts>> /\ phase' = "down" /\ holders' = {} /\ closing' = FALSE
        /\ threads' = 0
    BY <1>5 DEF Crash
  <2>4. threads' \in 0..Capacity
    BY <2>3
  <2>5. closing' \in BOOLEAN
    BY <2>3
  <2> QED
    BY <1>0, <2>1, <2>2, <2>3, <2>4, <2>5 DEF TypeOK
<1>6. CASE Restart
  <2>1. restarts' \in 0..MaxRestarts
    BY <1>0, <1>6 DEF Restart, TypeOK
  <2>2. /\ UNCHANGED <<save, faults>> /\ phase' = "starting" /\ holders' = {} /\ closing' = FALSE
        /\ threads' = 0
        /\ request' = [r \in Requests |-> IF request[r] = "waiting" THEN "cancelled" ELSE request[r]]
    BY <1>6 DEF Restart
  <2>3. request' \in [Requests -> {"new", "waiting", "saved", "unavailable", "cancelled"}]
    BY <1>0, <2>2 DEF TypeOK
  <2>4. threads' \in 0..Capacity
    BY <2>2
  <2>5. closing' \in BOOLEAN
    BY <2>2
  <2> QED
    BY <1>0, <2>1, <2>2, <2>3, <2>4, <2>5 DEF TypeOK
<1>7. CASE StartupPrune \/ StartupFails \/ Joined \/ (\E n \in rows : Expire(n)) \/ UNCHANGED vars
  <2>1. faults' \in 0..MaxFaults
    BY <1>0, <1>7 DEF StartupPrune, StartupFails, Fault, Joined, Expire, vars, TypeOK
  <2>2. /\ UNCHANGED <<request, save, holders, closing, threads, restarts>>
        /\ phase' \in {phase, "serving", "down"}
    BY <1>7 DEF StartupPrune, StartupFails, Joined, Expire, vars
  <2> QED
    BY <1>0, <2>1, <2>2 DEF TypeOK
<1> QED
  BY <1>1, <1>2, <1>3, <1>4, <1>5, <1>6, <1>7, NextCases

\* What a transaction sees is what was committed and its own row; the newest of it.
LEMMA VisibleIds ==
    ASSUME IInv, NEW r \in Requests, save[r] \in {"select", "delete", "lock", "commit"}
    PROVE  /\ Visible(r) \in SUBSET Nat /\ Visible(r) \subseteq stored \cup {tx[r].id}
           /\ Newest(Visible(r)) \in Visible(r) /\ Newest(Visible(r)) \in Nat
           /\ \A n \in Visible(r) : n <= Newest(Visible(r))
<1>1. /\ Visible(r) \subseteq stored \cup {tx[r].id} /\ tx[r].id \in 1..nextId - 1
      /\ stored \subseteq 1..nextId - 1 /\ nextId \in Nat
  BY DEF Visible, IInv, TypeOK, IdInv, Open
<1>2. \A n \in stored \cup {tx[r].id} : n \in Nat /\ n <= nextId
  <2>1. \A n \in 1..nextId - 1 : n \in Nat /\ n <= nextId
    BY <1>1
  <2> QED
    BY <1>1, <2>1
<1>3. /\ Newest(Visible(r)) \in Visible(r) \cup {0} /\ Newest(Visible(r)) \in Nat
      /\ \A n \in Visible(r) : n <= Newest(Visible(r))
  <2> DEFINE V == Visible(r)
  <2>1. V \in SUBSET Nat /\ \A n \in V : n <= nextId
    BY <1>1, <1>2
  <2> HIDE DEF V
  <2>2. /\ Newest(V) \in V \cup {0} /\ Newest(V) \in Nat /\ \A n \in V : n <= Newest(V)
    BY <1>1, <2>1, NewestId
  <2> QED
    BY <2>2 DEF V
<1>4. tx[r].id \in Visible(r) /\ tx[r].id > 0
  BY <1>1 DEF Visible
<1>5. Newest(Visible(r)) \in Visible(r)
  BY <1>1, <1>3, <1>4
<1>6. Visible(r) \in SUBSET Nat
  BY <1>1, <1>2
<1> QED
  BY <1>1, <1>3, <1>5, <1>6

\* The transactions.
LEMMA TxTypes ==
    ASSUME IInv, [Next]_vars
    PROVE  tx' \in [Requests -> [id : Nat, newest : Nat, victims : SUBSET Nat]]
<1> DEFINE Tx == [id : Nat, newest : Nat, victims : SUBSET Nat]
<1>0. TypeOK
  BY DEF IInv
<1>1. ASSUME NEW t \in Tx, NEW r \in Requests, tx' = [tx EXCEPT ![r] = t] PROVE tx' \in [Requests -> Tx]
  BY <1>0, <1>1 DEF TypeOK
<1>2. ASSUME NEW r \in Requests PROVE NoTx \in Tx /\ Over(r) \in Tx
  <2>1. tx[r].id \in Nat
    BY <1>0, <1>2 DEF TypeOK
  <2>2. NoTx \in Tx
    BY DEF NoTx
  <2>3. Over(r) \in Tx
    BY <2>1, <2>2 DEF Over
  <2> QED
    BY <2>2, <2>3
<1>3. ASSUME NEW r \in Requests, Insert(r) PROVE tx' \in [Requests -> Tx]
  BY <1>0, <1>3 DEF Insert, TypeOK
<1>4. ASSUME NEW r \in Requests, SelectNewest(r) PROVE tx' \in [Requests -> Tx]
  <2>1. Newest(Visible(r)) \in Nat
    BY <1>4, VisibleIds DEF SelectNewest
  <2> QED
    BY <1>0, <1>4, <2>1 DEF SelectNewest, TypeOK
<1>5. ASSUME NEW r \in Requests, StartDelete(r) PROVE tx' \in [Requests -> Tx]
  <2>1. Outside(Visible(r), tx[r].newest) \in SUBSET Nat
    BY <1>5, VisibleIds DEF StartDelete, Outside
  <2> QED
    BY <1>0, <1>5, <2>1 DEF StartDelete, TypeOK
<1>6. ASSUME NEW r \in Requests, DeleteRows(r) \/ StatementFails(r) PROVE tx' \in [Requests -> Tx]
  BY <1>0, <1>6 DEF DeleteRows, StatementFails, TypeOK
<1>7. ASSUME NEW r \in Requests, Commit(r) \/ Rollback(r) PROVE tx' \in [Requests -> Tx]
  BY <1>1, <1>2, <1>7 DEF Commit, Rollback
<1>8. CASE Crash
  BY <1>2, <1>8 DEF Crash
<1>9. ASSUME UNCHANGED tx PROVE tx' \in [Requests -> Tx]
  BY <1>0, <1>9 DEF TypeOK
<1> QED
  <2>1. ASSUME NEW r \in Requests, \/ Submit(r) \/ Refuse(r) \/ SubmitRaises(r) \/ Answer(r)
               \/ Cancel(r) \/ Take(r) \/ CommitFails(r) \/ ReleaseSlot(r)
        PROVE  UNCHANGED tx
    BY <2>1 DEF Submit, Refuse, SubmitRaises, Answer, Cancel, Take, CommitFails, ReleaseSlot
  <2>2. CASE StartupPrune \/ StartupFails \/ Shutdown \/ Joined \/ Restart
             \/ (\E n \in rows : Expire(n)) \/ UNCHANGED vars
    BY <1>9, <2>2 DEF StartupPrune, StartupFails, Shutdown, Joined, Restart, Expire, vars
  <2> QED
    BY <1>3, <1>4, <1>5, <1>6, <1>7, <1>8, <1>9, <2>1, <2>2, NextCases DEF Statement

\* TypeOK through every step.
LEMMA TypeNext ==
    ASSUME IInv, [Next]_vars
    PROVE  TypeOK'
<1>1. rows' \subseteq 1..nextId' - 1
  BY TableTypes
<1> QED
  BY <1>1, TableTypes, ControlTypes, TxTypes, SlotsNext DEF TypeOK

-----------------------------------------------------------------------------
(***************************************************************************)
(* Transactions.                                                           *)
(***************************************************************************)
\* What is known of an open transaction, with the numbers it needs.
LEMMA OpenTx ==
    ASSUME IInv, NEW r \in Open
    PROVE  /\ r \in Requests /\ tx[r].id \in 1..nextId - 1 /\ tx[r].id \notin stored
           /\ tx[r].id \in Nat /\ tx[r].newest \in Nat /\ tx[r].victims \in SUBSET Nat
           /\ \A s \in Open : tx[s].id = tx[r].id => s = r
<1>1. r \in Requests /\ tx[r] \in [id : Nat, newest : Nat, victims : SUBSET Nat]
  BY DEF Open, IInv, TypeOK
<1>2. tx[r].id \in (1..nextId - 1) \ stored /\ \A s \in Open : tx[s].id = tx[r].id => s = r
  BY DEF IInv, IdInv
<1> QED
  BY <1>1, <1>2

\* A step of one transaction that stays open: the others are what they were.
LEMMA OneTx ==
    ASSUME IInv, NEW r \in Requests,
           \/ Insert(r) \/ SelectNewest(r) \/ StartDelete(r) \/ DeleteRows(r)
    PROVE  /\ r \in Open' /\ Open' = Open \cup {r} /\ UNCHANGED <<rows, expired, stored>>
           /\ \A q \in Requests \ {r} : tx'[q] = tx[q] /\ save'[q] = save[q]
           /\ ~Insert(r) => r \in Open /\ tx'[r].id = tx[r].id /\ nextId' = nextId
<1> USE DEF tableVars, Open
<1>0. TypeOK
  BY DEF IInv
<1>1. CASE Insert(r)
  BY <1>0, <1>1 DEF Insert, TypeOK
<1>2. CASE SelectNewest(r)
  BY <1>0, <1>2 DEF SelectNewest, TypeOK
<1>3. CASE StartDelete(r)
  BY <1>0, <1>3 DEF StartDelete, TypeOK
<1>4. CASE DeleteRows(r)
  BY <1>0, <1>4 DEF DeleteRows, TypeOK
<1> QED
  BY <1>1, <1>2, <1>3, <1>4

\* Ids through every step.
LEMMA IdNext ==
    ASSUME IInv, [Next]_vars
    PROVE  IdInv'
<1>0. TypeOK /\ IdInv
  BY DEF IInv
<1>1. ASSUME NEW r \in Requests, Insert(r) PROVE IdInv'
  <2>1. /\ tx'[r].id = nextId /\ nextId' = nextId + 1 /\ Open' = Open \cup {r} /\ stored' = stored
        /\ \A q \in Requests \ {r} : tx'[q] = tx[q] /\ save'[q] = save[q]
        /\ save'[r] = "select" /\ nextId \in Nat \ {0} /\ r \notin Open
    BY <1>0, <1>1, OneTx DEF Insert, TypeOK, Open
  <2>2. nextId \notin stored /\ \A q \in Open : tx[q].id # nextId
    BY <1>0, <2>1, OpenTx DEF TypeOK
  <2>3. \A q \in Open : q # r /\ tx'[q].id = tx[q].id /\ tx[q].id \in (1..nextId - 1) \ stored
    BY <1>0, <2>1, OpenTx
  <2>4. \A q \in Open' : tx'[q].id \in (1..nextId' - 1) \ stored'
    <3>1. tx'[r].id \in (1..nextId' - 1) \ stored'
      BY <2>1, <2>2
    <3>2. \A q \in Open : tx'[q].id \in (1..nextId' - 1) \ stored'
      BY <2>1, <2>3
    <3> QED
      BY <2>1, <3>1, <3>2
  <2>5. \A q, s \in Open' : tx'[q].id = tx'[s].id => q = s
    BY <1>0, <2>1, <2>2, <2>3 DEF IdInv
  <2>6. \A q \in Requests : save'[q] = "saved" => tx'[q].id \in stored'
    BY <1>0, <2>1 DEF IdInv
  <2> QED
    BY <2>4, <2>5, <2>6 DEF IdInv
<1>2. ASSUME NEW r \in Requests, \/ SelectNewest(r) \/ StartDelete(r) \/ DeleteRows(r) PROVE IdInv'
  <2>1. ~Insert(r) /\ save'[r] # "saved"
    BY <1>0, <1>2 DEF Insert, SelectNewest, StartDelete, DeleteRows, TypeOK
  <2>2. /\ Open' = Open /\ nextId' = nextId /\ stored' = stored
        /\ \A q \in Open : tx'[q].id = tx[q].id
        /\ \A q \in Requests : save'[q] = "saved" => save[q] = "saved" /\ tx'[q].id = tx[q].id
    <3>1. r \in Open /\ tx'[r].id = tx[r].id /\ nextId' = nextId
      BY <1>2, <2>1, OneTx
    <3>2. /\ Open' = Open \cup {r} /\ stored' = stored
          /\ \A q \in Requests \ {r} : tx'[q] = tx[q] /\ save'[q] = save[q]
      BY <1>2, OneTx
    <3> QED
      BY <2>1, <3>1, <3>2 DEF Open
  <2> QED
    BY <1>0, <2>2 DEF IdInv
<1>3. CASE StartupPrune \/ \E n \in rows : Expire(n)
  <2>1. UNCHANGED <<save, tx, nextId, stored>>
    BY <1>3 DEF StartupPrune, Expire
  <2> QED
    BY <1>0, <2>1 DEF IdInv, Open
<1>4. ASSUME NEW R \in SUBSET Requests, Settles(R) PROVE IdInv'
  <2>1. nextId' = nextId /\ stored' = stored \cup {tx[r].id : r \in R}
    BY <1>4 DEF Settles, Apply
  <2>2. \A r \in Open' : r \in Open /\ r \notin R /\ tx'[r].id = tx[r].id
    BY <1>4 DEF Settles
  <2>3. \A r \in R : r \in Open
    BY <1>4 DEF Settles, Open
  <2>4. \A r \in Open' : tx'[r].id \in (1..nextId' - 1) \ stored'
    BY <2>1, <2>2, <2>3, OpenTx
  <2>5. \A r, q \in Open' : tx'[r].id = tx'[q].id => r = q
    BY <1>0, <2>2 DEF IdInv
  <2>6. \A r \in Requests : save'[r] = "saved" => tx'[r].id \in stored'
    BY <1>0, <1>4, <2>1 DEF Settles, IdInv
  <2> QED
    BY <2>4, <2>5, <2>6 DEF IdInv
<1> QED
  BY <1>1, <1>2, <1>3, <1>4, SettleCases DEF TxStep

\* What VictimInv says of one transaction.
VictimsOf(r) ==
    /\ save[r] \in {"delete", "lock", "commit"} =>
          tx[r].newest \in stored \cup {tx[r].id} /\ tx[r].id <= tx[r].newest
    /\ Deleting(r) => /\ tx[r].victims \subseteq stored \cup {tx[r].id}
                      /\ \A n \in tx[r].victims : n \in expired \/ n + MaxRows <= tx[r].newest

\* A transaction that a step leaves alone.
LEMMA VictimsKept ==
    ASSUME IInv, NEW r \in Requests, tx'[r] = tx[r], save'[r] = save[r],
           stored \subseteq stored', expired \subseteq expired'
    PROVE  VictimsOf(r)'
BY DEF VictimsOf, IInv, VictimInv, Deleting

\* What transactions delete through every step.
LEMMA VictimNext ==
    ASSUME IInv, [Next]_vars
    PROVE  VictimInv'
<1> USE DEF Deleting
<1>0. TypeOK /\ \A r \in Requests : VictimsOf(r)
  BY DEF IInv, VictimInv, VictimsOf
<1> SUFFICES \A r \in Requests : VictimsOf(r)'
  BY DEF VictimInv, VictimsOf
<1>1. ASSUME NEW r \in Requests,
             \/ Insert(r) \/ SelectNewest(r) \/ StartDelete(r) \/ DeleteRows(r),
             VictimsOf(r)'
      PROVE  \A q \in Requests : VictimsOf(q)'
  BY <1>1, OneTx, VictimsKept
<1>2. ASSUME NEW r \in Requests, Insert(r) PROVE \A q \in Requests : VictimsOf(q)'
  <2>1. save'[r] = "select"
    BY <1>0, <1>2 DEF Insert, TypeOK
  <2> QED
    BY <1>1, <1>2, <2>1 DEF VictimsOf
<1>3. ASSUME NEW r \in Requests, SelectNewest(r) PROVE \A q \in Requests : VictimsOf(q)'
  <2>1. /\ save'[r] = "delete" /\ tx'[r].id = tx[r].id /\ tx'[r].newest = Newest(Visible(r))
        /\ stored' = stored /\ save[r] = "select" /\ tx[r].id \in Visible(r)
    BY <1>0, <1>3 DEF SelectNewest, tableVars, TypeOK, Visible
  <2>2. Newest(Visible(r)) \in stored \cup {tx[r].id} /\ tx[r].id <= Newest(Visible(r))
    BY <2>1, VisibleIds
  <2> QED
    BY <1>1, <1>3, <2>1, <2>2 DEF VictimsOf
<1>4. ASSUME NEW r \in Requests, StartDelete(r) PROVE \A q \in Requests : VictimsOf(q)'
  <2>1. /\ save'[r] = "lock" /\ tx'[r].id = tx[r].id /\ tx'[r].newest = tx[r].newest
        /\ tx'[r].victims = Outside(Visible(r), tx[r].newest)
        /\ stored' = stored /\ expired' = expired /\ save[r] = "delete"
    BY <1>0, <1>4 DEF StartDelete, tableVars, TypeOK
  <2>2. \A n \in Outside(Visible(r), tx[r].newest) :
           n \in stored \cup {tx[r].id} /\ (n \in expired \/ n + MaxRows <= tx[r].newest)
    <3>1. /\ Visible(r) \subseteq stored \cup {tx[r].id} /\ Visible(r) \in SUBSET Nat
          /\ tx[r].newest \in Nat /\ MaxRows \in Nat
      BY <1>0, <2>1, VisibleIds, CapacityAssumption DEF TypeOK
    <3> QED
      BY <3>1 DEF Outside
  <2> QED
    BY <1>0, <1>1, <1>4, <2>1, <2>2 DEF VictimsOf
<1>5. ASSUME NEW r \in Requests, DeleteRows(r) PROVE \A q \in Requests : VictimsOf(q)'
  <2>1. /\ save'[r] = "commit" /\ tx'[r].id = tx[r].id /\ tx'[r].newest = tx[r].newest
        /\ tx'[r].victims \subseteq tx[r].victims
        /\ stored' = stored /\ expired' = expired /\ save[r] = "lock"
    BY <1>0, <1>5 DEF DeleteRows, tableVars, TypeOK
  <2> QED
    BY <1>0, <1>1, <1>5, <2>1 DEF VictimsOf
<1>6. CASE StartupPrune \/ \E n \in rows : Expire(n)
  <2>1. UNCHANGED <<save, tx, stored>> /\ expired \subseteq expired'
    BY <1>6 DEF StartupPrune, Expire
  <2> QED
    BY <2>1, VictimsKept
<1>7. ASSUME NEW R \in SUBSET Requests, Settles(R) PROVE \A q \in Requests : VictimsOf(q)'
  <2>1. stored \subseteq stored' /\ expired' = expired
    BY <1>7 DEF Settles, Apply
  <2>2. \A q \in Open' : VictimsOf(q)'
    BY <1>7, <2>1, VictimsKept DEF Settles, Open
  <2>3. \A q \in Requests : save'[q] \in {"delete", "lock", "commit"} => q \in Open'
    BY DEF Open
  <2> QED
    BY <2>2, <2>3 DEF VictimsOf
<1> QED
  BY <1>2, <1>3, <1>4, <1>5, <1>6, <1>7, SettleCases DEF TxStep

-----------------------------------------------------------------------------
(***************************************************************************)
(* The window.                                                             *)
(***************************************************************************)
\* A transaction has at most Capacity - 1 others beside it.
LEMMA OthersOpen ==
    ASSUME IInv, NEW r \in Open
    PROVE  /\ IsFiniteSet(OpenIds \ {tx[r].id})
           /\ Cardinality(OpenIds \ {tx[r].id}) <= Capacity - 1
<1> DEFINE Others == Open \ {r}
           Ids == OpenIds \ {tx[r].id}
           f == [q \in Others |-> tx[q].id]
<1>1. f \in Surjection(Others, Ids)
  <2>1. \A q \in Others : tx[q].id \in Ids
    BY OpenTx DEF OpenIds
  <2>2. \A i \in Ids : \E q \in Others : f[q] = i
    BY DEF OpenIds
  <2>3. f \in [Others -> Ids]
    BY <2>1
  <2> QED
    BY <2>2, <2>3 DEF Surjection
<1>2. Open \in SUBSET Busy /\ Busy \in SUBSET Requests /\ Open \in SUBSET Requests /\ Others \in SUBSET Requests
  BY DEF Open, Busy, InThread
<1>3. IsFiniteSet(Open) /\ IsFiniteSet(Busy) /\ IsFiniteSet(Others)
  BY <1>2, ExecutorSets
<1>4. Cardinality(Others) = Cardinality(Open) - 1 /\ Cardinality(Open) <= Cardinality(Busy)
  BY <1>2, <1>3, FS_RemoveElement, FS_Subset
<1> HIDE DEF f, Ids
<1>5. IsFiniteSet(Ids) /\ Cardinality(Ids) <= Cardinality(Others)
  BY <1>1, <1>3, FS_Surjection
<1>6. /\ Cardinality(Busy) \in Nat /\ Cardinality(Open) \in Nat /\ Cardinality(Others) \in Nat
      /\ Cardinality(Ids) \in Nat
  BY <1>3, <1>5, FS_CardinalityType
<1>7. Cardinality(Busy) <= threads /\ threads \in 0..Capacity /\ Capacity \in Nat
  BY CapacityAssumption DEF IInv, SaveInv, TypeOK
<1>8. Cardinality(Ids) <= Capacity - 1
  BY <1>4, <1>5, <1>6, <1>7
<1> QED
  BY <1>5, <1>8 DEF Ids

\* The newest stored id, now and after a step.
LEMMA NewestStored ==
    ASSUME IInv
    PROVE  /\ Newest(stored) \in stored \cup {0} /\ Newest(stored) \in Nat
           /\ \A n \in stored : n <= Newest(stored)
<1>1. stored \in SUBSET Nat /\ nextId \in Nat /\ \A n \in stored : n <= nextId
  BY DEF IInv, TypeOK
<1> QED
  BY <1>1, NewestId

\* The same after a step.
LEMMA NewestStoredNext ==
    ASSUME IInv, [Next]_vars
    PROVE  /\ Newest(stored') \in stored' \cup {0} /\ Newest(stored') \in Nat
           /\ \A n \in stored' : n <= Newest(stored')
<1>1. stored' \in SUBSET Nat /\ nextId' \in Nat /\ \A n \in stored' : n <= nextId'
  BY TableTypes
<1> QED
  BY <1>1, NewestId

\* Rows and rows to come are numbers, and finitely many.
LEMMA LateSets ==
    ASSUME IInv
    PROVE  /\ rows \cup OpenIds \subseteq 1..nextId - 1 /\ OpenIds \cap stored = {}
           /\ \A S \in SUBSET (rows \cup OpenIds) : IsFiniteSet(S) /\ Cardinality(S) \in Nat
           /\ \A T \in SUBSET (rows \cup OpenIds) : \A S \in SUBSET T :
                 Cardinality(T) <= Capacity - 1 => Cardinality(S) <= Capacity - 1
<1>1. rows \cup OpenIds \subseteq 1..nextId - 1 /\ OpenIds \cap stored = {}
  <2>1. \A i \in OpenIds : i \in 1..nextId - 1 /\ i \notin stored
    BY OpenTx DEF OpenIds
  <2>2. rows \subseteq 1..nextId - 1
    BY DEF IInv, TypeOK
  <2> QED
    BY <2>1, <2>2
<1>2. \A S \in SUBSET (1..nextId - 1) : IsFiniteSet(S)
  BY FiniteParts DEF IInv
<1>3. \A S \in SUBSET (rows \cup OpenIds) : IsFiniteSet(S) /\ Cardinality(S) \in Nat
  BY <1>1, <1>2, FS_CardinalityType
<1>4. ASSUME NEW T \in SUBSET (rows \cup OpenIds), NEW S \in SUBSET T, Cardinality(T) <= Capacity - 1
      PROVE  Cardinality(S) <= Capacity - 1
  <2>1. Cardinality(S) <= Cardinality(T) /\ Cardinality(S) \in Nat /\ Cardinality(T) \in Nat
    BY <1>3, FS_Subset
  <2> QED
    BY <1>4, <2>1, CapacityAssumption
<1> QED
  BY <1>1, <1>3, <1>4

\* Late after a step, for an id of before it.
LateNext(m) == {n \in rows' \cup OpenIds' : n + MaxRows <= m}

\* The parts of WindowInv, each after a step.
WindowNextAt(m) ==
    /\ \A n \in stored' \ rows' : n \in expired' \/ n + MaxRows <= m
    /\ Cardinality(LateNext(m)) <= Capacity - 1

LateTxNext(r) == Deleting(r)' => Cardinality(LateNext(tx'[r].id) \ tx'[r].victims) <= Capacity - 1

\* The two parts make WindowInv.
LEMMA WindowParts ==
    ASSUME WindowNextAt(Newest(stored')), \A r \in Requests : LateTxNext(r)
    PROVE  WindowInv'
BY DEF WindowNextAt, LateTxNext, LateNext, Late, WindowInv, Newest

\* A transaction that a step leaves alone, while no row comes to the old ones.
LEMMA LateTxKept ==
    ASSUME IInv, NEW r \in Requests, tx'[r] = tx[r], save'[r] = save[r],
           \A n \in rows' \cup OpenIds' : n + MaxRows <= tx[r].id => n \in rows \cup OpenIds
    PROVE  LateTxNext(r)
<1> SUFFICES ASSUME Deleting(r)' PROVE Cardinality(LateNext(tx'[r].id) \ tx'[r].victims) <= Capacity - 1
  BY DEF LateTxNext
<1>1. Deleting(r)
  BY DEF Deleting
<1>2. Cardinality(Late(tx[r].id) \ tx[r].victims) <= Capacity - 1
  BY <1>1 DEF IInv, WindowInv
<1>3. LateNext(tx'[r].id) \ tx'[r].victims \subseteq Late(tx[r].id) \ tx[r].victims
  BY DEF LateNext, Late
<1>4. Late(tx[r].id) \ tx[r].victims \subseteq rows \cup OpenIds
  BY DEF Late
<1> QED
  BY <1>2, <1>3, <1>4, LateSets

\* The table stays as it is, or an id is drawn.
LEMMA WindowSame ==
    ASSUME IInv, rows' = rows, stored' = stored, expired \subseteq expired',
           \A n \in OpenIds' : n \in OpenIds \/ n = nextId
    PROVE  /\ WindowNextAt(Newest(stored'))
           /\ \A r \in Requests : tx'[r] = tx[r] /\ save'[r] = save[r] => LateTxNext(r)
<1>1. ASSUME NEW m \in Nat, m <= nextId - 1
      PROVE  \A n \in rows' \cup OpenIds' : n + MaxRows <= m => n \in rows \cup OpenIds
  BY <1>1, CapacityAssumption DEF IInv, TypeOK
<1>2. Newest(stored) \in Nat /\ Newest(stored) <= nextId - 1
  BY NewestStored DEF IInv, TypeOK
<1>3. LateNext(Newest(stored')) \subseteq Late(Newest(stored))
  BY <1>1, <1>2 DEF LateNext, Late
<1>4. Cardinality(LateNext(Newest(stored'))) <= Capacity - 1
  <2>1. Late(Newest(stored)) \subseteq rows \cup OpenIds /\ Cardinality(Late(Newest(stored))) <= Capacity - 1
    BY DEF Late, IInv, WindowInv
  <2> QED
    BY <1>3, <2>1, LateSets
<1>5. WindowNextAt(Newest(stored'))
  BY <1>4 DEF WindowNextAt, IInv, WindowInv
<1>6. ASSUME NEW r \in Requests, tx'[r] = tx[r], save'[r] = save[r] PROVE LateTxNext(r)
  <2>1. CASE Deleting(r)
    <3>1. tx[r].id \in Nat /\ tx[r].id <= nextId - 1
      BY <2>1, OpenTx DEF Open, Deleting, IInv, TypeOK
    <3> QED
      BY <1>1, <1>6, <3>1, LateTxKept
  <2>2. CASE ~Deleting(r)
    BY <1>6, <2>2 DEF LateTxNext, Deleting
  <2> QED
    BY <2>1, <2>2
<1> QED
  BY <1>5, <1>6

\* Saves that take effect: a row that goes is expired or outside the window, and
\* the rows they leave are those of the newest of them or of before.
LEMMA WindowSettled ==
    ASSUME IInv, [Next]_vars, NEW R \in SUBSET Requests, Settles(R)
    PROVE  WindowInv'
<1> DEFINE M == Newest(stored)
           N == Newest(stored')
<1>0. TypeOK /\ WindowInv /\ MaxRows \in Nat
  BY CapacityAssumption DEF IInv
<1>1. /\ M \in Nat /\ M \in stored \cup {0} /\ N \in Nat /\ N \in stored' \cup {0}
      /\ \A n \in stored' : n <= N
      /\ \A n \in stored : n <= M
  BY NewestStored, NewestStoredNext
<1> HIDE DEF M, N
<1>2. /\ stored' = stored \cup {tx[r].id : r \in R} /\ expired' = expired
      /\ rows' = (rows \cup {tx[r].id : r \in R}) \ UNION {tx[r].victims : r \in R}
      /\ Open' \subseteq Open \ R /\ \A q \in Open' : tx'[q] = tx[q] /\ save'[q] = save[q]
  BY SettledTable DEF Settles
<1>3. \A r \in R : r \in Open /\ Deleting(r) /\ save[r] = "commit" /\ tx[r].id \in OpenIds
  BY DEF Settles, Open, Deleting, OpenIds
<1>4. rows' \cup OpenIds' \subseteq rows \cup OpenIds
  BY <1>2, <1>3 DEF OpenIds
<1>5. M <= N
  BY <1>1, <1>2
<1>6. \A n \in stored' \ rows' : n \in expired' \/ n + MaxRows <= N
  <2>1. ASSUME NEW n \in stored \ rows PROVE n \in expired' \/ n + MaxRows <= N
    <3>1. n \in expired \/ n + MaxRows <= M
      BY <1>0 DEF WindowInv, M
    <3>2. n \in Nat
      BY <1>0 DEF TypeOK
    <3> QED
      BY <1>0, <1>1, <1>2, <1>5, <3>1, <3>2
  <2>2. ASSUME NEW r \in R, NEW n \in tx[r].victims PROVE n \in expired' \/ n + MaxRows <= N
    <3>1. n \in expired \/ n + MaxRows <= tx[r].newest
      BY <1>3 DEF IInv, VictimInv
    <3>2. tx[r].newest \in stored'
      BY <1>2, <1>3 DEF IInv, VictimInv
    <3>3. n \in Nat /\ tx[r].newest \in Nat
      BY <1>3, OpenTx
    <3> QED
      BY <1>0, <1>1, <1>2, <3>1, <3>2, <3>3
  <2>3. \A n \in stored' \ rows' : n \in stored \ rows \/ \E r \in R : n \in tx[r].victims
    BY <1>2
  <2> QED
    BY <2>1, <2>2, <2>3
<1>7. Cardinality(LateNext(N)) <= Capacity - 1
  <2>1. CASE N \in stored \cup {0}
    <3>1. N = M
      BY <1>1, <1>5, <2>1
    <3>2. LateNext(N) \subseteq Late(M) /\ Late(M) \subseteq rows \cup OpenIds
      BY <1>4, <3>1 DEF LateNext, Late
    <3>3. Cardinality(Late(M)) <= Capacity - 1
      BY <1>0 DEF WindowInv, M
    <3> QED
      BY <3>2, <3>3, LateSets
  <2>2. CASE N \notin stored \cup {0}
    <3>1. PICK r \in R : N = tx[r].id
      BY <1>1, <1>2, <2>2
    <3>2. ASSUME NEW n \in rows' \cup OpenIds' PROVE n \notin tx[r].victims
      <4>1. CASE n \in rows'
        BY <1>2, <4>1
      <4>2. CASE n \in OpenIds'
        <5>1. PICK q \in Open' : n = tx'[q].id
          BY <4>2 DEF OpenIds
        <5>2. q \in Open /\ q # r /\ n = tx[q].id
          BY <1>2, <5>1
        <5>3. n \notin stored /\ n # tx[r].id
          BY <1>3, <5>2, OpenTx
        <5>4. tx[r].victims \subseteq stored \cup {tx[r].id}
          BY <1>3 DEF IInv, VictimInv
        <5> QED
          BY <5>3, <5>4
      <4> QED
        BY <4>1, <4>2
    <3>3. LateNext(N) \subseteq Late(tx[r].id) \ tx[r].victims
      BY <1>4, <3>1, <3>2 DEF LateNext, Late
    <3>4. Late(tx[r].id) \ tx[r].victims \subseteq rows \cup OpenIds
      BY DEF Late
    <3>5. Cardinality(Late(tx[r].id) \ tx[r].victims) <= Capacity - 1
      BY <1>0, <1>3 DEF WindowInv
    <3> QED
      BY <3>3, <3>4, <3>5, LateSets
  <2> QED
    BY <2>1, <2>2
<1>8. ASSUME NEW r \in Requests PROVE LateTxNext(r)
  <2>1. CASE r \in Open'
    BY <1>2, <1>4, <2>1, LateTxKept
  <2>2. CASE r \notin Open'
    BY <2>2 DEF LateTxNext, Deleting, Open
  <2> QED
    BY <2>1, <2>2
<1>9. WindowNextAt(Newest(stored'))
  BY <1>6, <1>7 DEF WindowNextAt, N
<1> QED
  BY <1>8, <1>9, WindowParts

\* The window through every step.
LEMMA WindowNext ==
    ASSUME IInv, [Next]_vars
    PROVE  WindowInv'
<1>0. TypeOK /\ WindowInv /\ MaxRows \in Nat
  BY CapacityAssumption DEF IInv
<1>1. ASSUME NEW r \in Requests,
             \/ Insert(r) \/ SelectNewest(r) \/ StartDelete(r) \/ DeleteRows(r),
             LateTxNext(r)
      PROVE  WindowInv'
  <2>1. /\ Open' = Open \cup {r} /\ UNCHANGED <<rows, expired, stored>>
        /\ \A q \in Requests \ {r} : tx'[q] = tx[q] /\ save'[q] = save[q]
        /\ tx'[r].id = nextId \/ (r \in Open /\ tx'[r].id = tx[r].id)
    BY <1>0, <1>1, OneTx DEF Insert, TypeOK
  <2>2. \A n \in OpenIds' : n \in OpenIds \/ n = nextId
    BY <2>1 DEF OpenIds, Open
  <2> QED
    BY <1>1, <2>1, <2>2, WindowSame, WindowParts
<1>2. ASSUME NEW r \in Requests, Insert(r) \/ SelectNewest(r) PROVE WindowInv'
  <2>1. save'[r] \in {"select", "delete"}
    BY <1>0, <1>2 DEF Insert, SelectNewest, TypeOK
  <2> QED
    BY <1>1, <1>2, <2>1 DEF LateTxNext, Deleting
<1>3. ASSUME NEW r \in Requests, StartDelete(r) PROVE WindowInv'
  <2>1. /\ tx'[r].id = tx[r].id /\ tx'[r].victims = Outside(Visible(r), tx[r].newest)
        /\ save[r] = "delete" /\ r \in Open /\ rows' = rows /\ OpenIds' = OpenIds
    <3>1. /\ tx'[r].id = tx[r].id /\ tx'[r].victims = Outside(Visible(r), tx[r].newest)
          /\ save[r] = "delete" /\ r \in Open
      BY <1>0, <1>3 DEF StartDelete, TypeOK, Open
    <3>2. /\ Open' = Open /\ rows' = rows
          /\ \A q \in Requests \ {r} : tx'[q] = tx[q] /\ save'[q] = save[q]
      BY <1>3, <3>1, OneTx
    <3>3. \A q \in Open : tx'[q].id = tx[q].id
      BY <3>1, <3>2 DEF Open
    <3>4. OpenIds' = OpenIds
      BY <3>2, <3>3 DEF OpenIds
    <3> QED
      BY <3>1, <3>2, <3>4
  <2>2. /\ tx[r].id \in Nat /\ tx[r].newest \in Nat /\ tx[r].id <= tx[r].newest
    BY <2>1, OpenTx DEF IInv, VictimInv
  <2>3. LateNext(tx'[r].id) \ tx'[r].victims \subseteq OpenIds \ {tx[r].id}
    <3> SUFFICES ASSUME NEW n \in rows \cup OpenIds, n + MaxRows <= tx[r].id,
                        n \notin Outside(Visible(r), tx[r].newest)
                 PROVE  n \in OpenIds \ {tx[r].id}
      BY <2>1 DEF LateNext
    <3>1. n \in Nat
      BY LateSets
    <3>2. n < tx[r].newest - MaxRows + 1
      BY <1>0, <2>2, <3>1
    <3>3. n \notin Visible(r)
      BY <3>2 DEF Outside
    <3> QED
      BY <3>3 DEF Visible
  <2>4. LateTxNext(r)
    <3>1. OpenIds \ {tx[r].id} \subseteq rows \cup OpenIds
      OBVIOUS
    <3>2. Cardinality(OpenIds \ {tx[r].id}) <= Capacity - 1
      BY <2>1, OthersOpen
    <3> QED
      BY <2>3, <3>1, <3>2, LateSets DEF LateTxNext
  <2> QED
    BY <1>1, <1>3, <2>4
<1>4. ASSUME NEW r \in Requests, DeleteRows(r) PROVE WindowInv'
  <2>1. /\ tx'[r].id = tx[r].id /\ tx'[r].victims = tx[r].victims \cap Visible(r)
        /\ save[r] = "lock" /\ r \in Open /\ rows' = rows /\ OpenIds' = OpenIds
    <3>1. /\ tx'[r].id = tx[r].id /\ tx'[r].victims = tx[r].victims \cap Visible(r)
          /\ save[r] = "lock" /\ r \in Open
      BY <1>0, <1>4 DEF DeleteRows, TypeOK, Open
    <3>2. /\ Open' = Open /\ rows' = rows
          /\ \A q \in Requests \ {r} : tx'[q] = tx[q] /\ save'[q] = save[q]
      BY <1>4, <3>1, OneTx
    <3>3. \A q \in Open : tx'[q].id = tx[q].id
      BY <3>1, <3>2 DEF Open
    <3>4. OpenIds' = OpenIds
      BY <3>2, <3>3 DEF OpenIds
    <3> QED
      BY <3>1, <3>2, <3>4
  <2>2. tx[r].victims \subseteq stored \cup {tx[r].id}
    BY <2>1 DEF IInv, VictimInv, Deleting
  <2>3. ASSUME NEW n \in rows \cup OpenIds, n \in tx[r].victims PROVE n \in Visible(r)
    BY <2>2, <2>3, LateSets DEF Visible
  <2>4. LateNext(tx'[r].id) \ tx'[r].victims \subseteq Late(tx[r].id) \ tx[r].victims
    BY <2>1, <2>3 DEF LateNext, Late
  <2>5. LateTxNext(r)
    <3>1. Late(tx[r].id) \ tx[r].victims \subseteq rows \cup OpenIds
      BY DEF Late
    <3>2. Cardinality(Late(tx[r].id) \ tx[r].victims) <= Capacity - 1
      BY <1>0, <2>1 DEF WindowInv, Deleting
    <3> QED
      BY <2>4, <3>1, <3>2, LateSets DEF LateTxNext
  <2> QED
    BY <1>1, <1>4, <2>5
<1>5. CASE StartupPrune
  <2>1. /\ UNCHANGED <<save, tx, expired, stored>> /\ phase = "starting"
        /\ rows' = rows \ Outside(rows, Newest(rows))
    BY <1>5 DEF StartupPrune
  <2>2. Open = {}
    BY <2>1 DEF Open, IInv, SaveInv, Unfinished, InThread
  <2>3. /\ Newest(rows) \in rows \cup {0} /\ Newest(rows) \in Nat
    <3>1. rows \in SUBSET Nat /\ nextId \in Nat /\ \A n \in rows : n <= nextId
      BY <1>0 DEF TypeOK
    <3> QED
      BY <3>1, NewestId
  <2>4. Newest(rows) <= Newest(stored) /\ Newest(stored) \in Nat
    BY <1>0, <2>3, NewestStored DEF TypeOK
  <2>5. WindowNextAt(Newest(stored'))
    <3>1. ASSUME NEW n \in stored' \ rows' PROVE n \in expired' \/ n + MaxRows <= Newest(stored)
      <4>1. n \in Nat
        BY <1>0, <2>1 DEF TypeOK
      <4>2. CASE n \in stored \ rows
        BY <1>0, <2>1, <4>2 DEF WindowInv
      <4>3. CASE n \in Outside(rows, Newest(rows))
        BY <1>0, <2>1, <2>3, <2>4, <4>1, <4>3 DEF Outside
      <4> QED
        BY <2>1, <4>2, <4>3
    <3>2. LateNext(Newest(stored)) \subseteq Late(Newest(stored))
      BY <2>1, <2>2 DEF LateNext, Late, OpenIds, Open
    <3>3. Late(Newest(stored)) \subseteq rows \cup OpenIds /\ Cardinality(Late(Newest(stored))) <= Capacity - 1
      BY <1>0 DEF Late, WindowInv
    <3>4. Cardinality(LateNext(Newest(stored))) <= Capacity - 1
      BY <3>2, <3>3, LateSets
    <3> QED
      BY <2>1, <3>1, <3>4 DEF WindowNextAt
  <2>6. \A r \in Requests : LateTxNext(r)
    BY <2>1, <2>2 DEF LateTxNext, Deleting, Open
  <2> QED
    BY <2>5, <2>6, WindowParts
<1>6. ASSUME NEW k \in rows, Expire(k) PROVE WindowInv'
  <2>1. UNCHANGED <<save, tx, rows, stored>> /\ expired \subseteq expired'
    BY <1>6 DEF Expire
  <2>2. OpenIds' = OpenIds
    BY <2>1 DEF OpenIds, Open
  <2> QED
    BY <2>1, <2>2, WindowSame, WindowParts
<1> QED
  BY <1>2, <1>3, <1>4, <1>5, <1>6, WindowSettled, SettleCases DEF TxStep

-----------------------------------------------------------------------------
(***************************************************************************)
(* Theorems.                                                               *)
(***************************************************************************)
\* The first start, and every step.
LEMMA LogInit ==
    ASSUME Init
    PROVE  IInv
<1>1. TypeOK
  <2>1. tx \in [Requests -> [id : Nat, newest : Nat, victims : SUBSET Nat]]
    <3>1. NoTx \in [id : Nat, newest : Nat, victims : SUBSET Nat]
      BY DEF NoTx
    <3> QED
      BY <3>1 DEF Init
  <2>2. /\ request \in [Requests -> {"new", "waiting", "saved", "unavailable", "cancelled"}]
        /\ save \in [Requests -> {"none", "saved", "failed", "lost"} \cup Unfinished]
        /\ phase \in {"starting", "serving", "stopping", "down"}
    BY DEF Init
  <2>3. slots \in 0..Capacity /\ threads \in 0..Capacity
    BY CapacityAssumption DEF Init
  <2>4. holders \subseteq Requests /\ closing \in BOOLEAN
    BY DEF Init
  <2>5. /\ nextId \in Nat \ {0} /\ rows \subseteq 1..nextId - 1 /\ stored \subseteq 1..nextId - 1
        /\ expired \subseteq stored /\ rows \subseteq stored
    BY DEF Init
  <2>6. faults \in 0..MaxFaults /\ restarts \in 0..MaxRestarts
    BY BoundsAssumption DEF Init
  <2> QED
    BY <2>1, <2>2, <2>3, <2>4, <2>5, <2>6 DEF TypeOK
<1>2. /\ Orphans = {} /\ Busy = {} /\ Open = {} /\ Queued = {} /\ OpenIds = {}
      /\ \A r \in Requests : save[r] = "none"
  BY DEF Init, Orphans, Busy, Open, Queued, OpenIds, Unfinished, InThread
<1>3. SlotInv
  BY <1>2, FS_EmptySet, CapacityAssumption DEF Init, SlotInv
<1>4. SaveInv
  BY <1>2, FS_EmptySet DEF Init, SaveInv, Unfinished, InThread
<1>5. IdInv /\ VictimInv
  BY <1>2 DEF IdInv, VictimInv, Deleting
<1>6. WindowInv
  <2>1. \A m : Late(m) = {}
    BY <1>2 DEF Init, Late
  <2>2. Cardinality(Late(Newest(stored))) <= Capacity - 1
    BY <2>1, FS_EmptySet, CapacityAssumption
  <2> QED
    BY <1>2, <2>2 DEF WindowInv, Deleting, Init
<1> QED
  BY <1>1, <1>3, <1>4, <1>5, <1>6 DEF IInv

\* Every step keeps the invariant.
LEMMA LogNext ==
    ASSUME IInv, [Next]_vars
    PROVE  IInv'
BY TypeNext, SlotsNext, SaveNext, IdNext, VictimNext, WindowNext DEF IInv

\* The inductive invariant of the executor, the transactions and the table:
\* every save that has started, whatever fails, is cancelled or crashes, with
\* all that the others delete meanwhile.
THEOREM LogInvariant == Spec => []IInv
<1>1. Init => IInv
  BY LogInit
<1>2. IInv /\ [Next]_vars => IInv'
  BY LogNext
<1> QED
  BY <1>1, <1>2, PTL DEF Spec

\* Every variable keeps its type, for any number of saves and workers.
THEOREM TypeCorrect == Spec => []TypeOK
<1>1. IInv => TypeOK
  BY DEF IInv
<1> QED
  BY <1>1, LogInvariant, PTL

\* At most Capacity accepted saves are unfinished (_ExecutionLogExecutor.submit):
\* each holds a slot, but one whose submit raised, which closes the executor and
\* leaves its slot free.
THEOREM UnfinishedBoundedHolds == Spec => []UnfinishedBounded
<1>1. IInv => UnfinishedBounded
  <2> SUFFICES ASSUME IInv PROVE UnfinishedBounded
    OBVIOUS
  <2> DEFINE U == {r \in Requests : save[r] \in Unfinished}
  <2>1. U \subseteq holders \cup Orphans /\ holders \cup Orphans \in SUBSET Requests
    BY ExecutorSets DEF Orphans
  <2>2. IsFiniteSet(holders) /\ IsFiniteSet(Orphans) /\ IsFiniteSet(U) /\ IsFiniteSet(holders \cup Orphans)
    BY <2>1, ExecutorSets
  <2>3. Cardinality(U) <= Cardinality(holders \cup Orphans)
    BY <2>1, <2>2, FS_Subset
  <2>4. /\ Cardinality(holders \cup Orphans) <= Cardinality(holders) + Cardinality(Orphans)
        /\ Cardinality(holders) \in Nat /\ Cardinality(Orphans) \in Nat
        /\ Cardinality(holders \cup Orphans) \in Nat
    BY <2>2, Together
  <2>5. Cardinality(U) \in Nat
    BY <2>2, FS_CardinalityType
  <2>6. /\ slots + Cardinality(holders) = Capacity /\ slots \in Nat /\ Cardinality(Orphans) <= 1
        /\ Orphans # {} => slots > 0
    BY CapacityAssumption DEF IInv, SlotInv, TypeOK
  <2>7. Cardinality(Orphans) <= slots
    <3>1. CASE Orphans = {}
      BY <2>6, <3>1, FS_EmptySet
    <3>2. CASE Orphans # {}
      BY <2>2, <2>6, <3>2, FS_CardinalityType
    <3> QED
      BY <3>1, <3>2
  <2>8. Cardinality(U) <= Capacity
    BY <2>3, <2>4, <2>5, <2>6, <2>7, CapacityAssumption
  <2> QED
    BY <2>8 DEF UnfinishedBounded
<1> QED
  BY <1>1, LogInvariant, PTL

\* A request that is told an id has its row committed (ExecutionLogRepo.save),
\* though the same id may have failed, or been lost with the process, for others.
THEOREM SavedIsStoredHolds == Spec => []SavedIsStored
<1>1. IInv => SavedIsStored
  BY DEF IInv, SaveInv, IdInv, SavedIsStored
<1> QED
  BY <1>1, LogInvariant, PTL

\* Retention loses no row inside the window, which counts ids, those of saves that
\* were rolled back included; and saves that overlap leave at most one row too
\* many for each other worker (prune_execution_logs).
THEOREM WindowKeptHolds == Spec => []WindowKept
<1>1. IInv => WindowKept
  <2> SUFFICES ASSUME IInv PROVE WindowKept
    OBVIOUS
  <2> DEFINE N == Newest(stored)
             Old == {n \in rows : n + MaxRows <= N}
             Young == rows \ Old
             Span == N - MaxRows + 1 .. N
  <2>1. N \in Nat /\ MaxRows \in Nat \ {0} /\ Capacity \in Nat /\ \A n \in rows : n \in Nat /\ n <= N
    BY NewestStored, CapacityAssumption DEF IInv, TypeOK
  <2>2. Cardinality(Late(N)) <= Capacity - 1
    BY DEF IInv, WindowInv
  <2> HIDE DEF N
  <2>3. Old \in SUBSET Late(N) /\ Late(N) \in SUBSET (rows \cup OpenIds) /\ Young \in SUBSET Span
    BY <2>1 DEF Late
  <2>4. Cardinality(Old) <= Capacity - 1
    BY <2>2, <2>3, LateSets
  <2>5. IsFiniteSet(Span) /\ Cardinality(Span) = MaxRows
    BY <2>1, FS_Interval
  <2>6. IsFiniteSet(Young) /\ Cardinality(Young) <= MaxRows /\ Cardinality(Young) \in Nat
    BY <2>3, <2>5, FS_Subset, FS_CardinalityType
  <2>7. IsFiniteSet(Old) /\ Cardinality(Old) \in Nat
    BY <2>3, LateSets
  <2>8. rows = Old \cup Young
    BY DEF Young, Old
  <2> HIDE DEF Old, Young
  <2>9. /\ Cardinality(Old \cup Young) <= Cardinality(Old) + Cardinality(Young)
        /\ Cardinality(Old \cup Young) \in Nat
    BY <2>6, <2>7, Together
  <2>10. Cardinality(rows) <= MaxRows + Capacity - 1
    BY <2>1, <2>4, <2>6, <2>7, <2>8, <2>9
  <2> QED
    BY <2>10 DEF WindowKept, IInv, WindowInv
<1> QED
  BY <1>1, LogInvariant, PTL

-----------------------------------------------------------------------------
(***************************************************************************)
(* Whose id is whose.                                                      *)
(***************************************************************************)
\* Saves that have not drawn an id yet.
Fresh == {r \in Requests : save[r] \in {"none", "queued", "insert"}}

\* An id belongs to one save, whatever became of that: the sequence is not
\* turned back, and a save that failed keeps its id to itself.
OwnIdInv ==
    /\ \A r \in Fresh : tx[r].id = 0
    /\ \A r \in Requests : tx[r].id < nextId
    /\ \A r, s \in Requests : tx[r].id = tx[s].id /\ tx[r].id # 0 => r = s

\* Only an insert gives an id.
LEMMA IdsKept ==
    ASSUME IInv, [Next]_vars
    PROVE  \/ \E r \in Requests : Insert(r)
           \/ /\ nextId' = nextId /\ Fresh' \subseteq Fresh
              /\ \A r \in Requests : tx'[r].id = tx[r].id
<1> DEFINE Kept == /\ nextId' = nextId /\ Fresh' \subseteq Fresh
                   /\ \A r \in Requests : tx'[r].id = tx[r].id
<1> USE DEF tableVars, Fresh
<1>0. TypeOK /\ SaveInv
  BY DEF IInv
<1>1. ASSUME NEW r \in Requests, \/ Submit(r) \/ SubmitRaises(r)
      PROVE  Kept
  <2>1. /\ save' = [save EXCEPT ![r] = "queued"] /\ save[r] = "none" /\ tx' = tx /\ nextId' = nextId
    BY <1>0, <1>1 DEF Submit, SubmitRaises, Arrives, SaveInv
  <2> QED
    BY <1>0, <2>1 DEF TypeOK
<1>2. ASSUME NEW r \in Requests, \/ Refuse(r) \/ Answer(r) \/ Cancel(r) \/ ReleaseSlot(r)
      PROVE  Kept
  BY <1>2 DEF Refuse, Answer, Cancel, ReleaseSlot
<1>3. ASSUME NEW r \in Requests, Take(r)
      PROVE  Kept
  BY <1>0, <1>3 DEF Take, TypeOK
<1>4. ASSUME NEW r \in Requests, \/ SelectNewest(r) \/ StartDelete(r) \/ DeleteRows(r)
      PROVE  Kept
  <2>1. /\ tx'[r].id = tx[r].id /\ nextId' = nextId
        /\ \A q \in Requests \ {r} : tx'[q] = tx[q]
    BY <1>4, OneTx DEF Insert, SelectNewest, StartDelete, DeleteRows
  <2>2. \E x \in {"delete", "lock", "commit"} : save' = [save EXCEPT ![r] = x]
    BY <1>4 DEF SelectNewest, StartDelete, DeleteRows
  <2> QED
    BY <1>0, <2>1, <2>2 DEF TypeOK
<1>5. ASSUME NEW r \in Requests, StatementFails(r)
      PROVE  Kept
  <2>1. /\ tx' = [tx EXCEPT ![r].victims = {}] /\ save' = [save EXCEPT ![r] = "rollback"]
        /\ nextId' = nextId
    BY <1>5 DEF StatementFails
  <2> QED
    BY <1>0, <2>1 DEF TypeOK
<1>6. ASSUME NEW r \in Requests, Commit(r) \/ Rollback(r)
      PROVE  Kept
  <2>1. /\ tx' = [tx EXCEPT ![r] = Over(r)] /\ nextId' = nextId
        /\ \E x \in {"saved", "failed"} : save' = [save EXCEPT ![r] = x]
    BY <1>6 DEF Commit, Rollback, Apply
  <2>2. Over(r).id = tx[r].id
    BY DEF Over, NoTx
  <2> QED
    BY <1>0, <2>1, <2>2 DEF TypeOK
<1>7. ASSUME NEW r \in Requests, CommitFails(r)
      PROVE  Kept
  <2>1. tx' = tx /\ save' = [save EXCEPT ![r] = "rollback"] /\ nextId' = nextId
    BY <1>7 DEF CommitFails, AfterLostCommit, Apply
  <2> QED
    BY <1>0, <2>1 DEF TypeOK
<1>8. CASE Shutdown
  BY <1>8 DEF Shutdown, Queued
<1>9. CASE Crash
  <2>1. /\ nextId' = nextId /\ \A r \in Requests : tx'[r].id = tx[r].id
        /\ \A r \in Requests : save'[r] = IF save[r] \in Unfinished THEN "lost" ELSE save[r]
    BY <1>9 DEF Crash, Over, NoTx, Apply
  <2> QED
    BY <2>1
<1>10. CASE \/ StartupPrune \/ StartupFails \/ Joined \/ Restart \/ (\E n \in rows : Expire(n))
            \/ UNCHANGED vars
  BY <1>10 DEF StartupPrune, StartupFails, Joined, Restart, Expire, vars
<1> QED
  BY <1>1, <1>2, <1>3, <1>4, <1>5, <1>6, <1>7, <1>8, <1>9, <1>10, NextCases DEF Statement

\* Ids of their own through every step.
LEMMA OwnIdNext ==
    ASSUME IInv, OwnIdInv, [Next]_vars
    PROVE  OwnIdInv'
<1>0. TypeOK
  BY DEF IInv
<1>1. ASSUME NEW r \in Requests, Insert(r)
      PROVE  OwnIdInv'
  <2>1. /\ tx'[r].id = nextId /\ nextId' = nextId + 1 /\ nextId \in Nat \ {0}
        /\ \A q \in Requests \ {r} : tx'[q].id = tx[q].id /\ save'[q] = save[q]
        /\ save'[r] = "select"
    BY <1>0, <1>1, OneTx DEF Insert, TypeOK
  <2>2. \A q \in Requests : tx[q].id \in Nat /\ tx[q].id < nextId
    BY <1>0 DEF OwnIdInv, TypeOK
  <2>3. \A q \in Fresh' : q # r /\ q \in Fresh
    BY <2>1 DEF Fresh
  <2>4. \A q \in Fresh' : tx'[q].id = 0
    BY <2>1, <2>3 DEF OwnIdInv, Fresh
  <2>5. \A q \in Requests : tx'[q].id < nextId'
    BY <2>1, <2>2
  <2>6. \A q \in Requests \ {r} : tx'[q].id # tx'[r].id
    BY <2>1, <2>2
  <2>7. \A q, s \in Requests : tx'[q].id = tx'[s].id /\ tx'[q].id # 0 => q = s
    BY <2>1, <2>6 DEF OwnIdInv
  <2> QED
    BY <2>4, <2>5, <2>7 DEF OwnIdInv
<1>2. CASE /\ nextId' = nextId /\ Fresh' \subseteq Fresh
           /\ \A r \in Requests : tx'[r].id = tx[r].id
  <2>1. \A r \in Fresh' : r \in Requests
    BY DEF Fresh
  <2> QED
    BY <1>2, <2>1 DEF OwnIdInv
<1> QED
  BY <1>1, <1>2, IdsKept

\* No two saves are ever given one id, so an id that is reported names the row
\* of its own save (ExecutionLogRepo.save).
THEOREM OwnIds == Spec => []OwnIdInv
<1>1. Init => OwnIdInv
  BY DEF Init, OwnIdInv, Fresh, NoTx
<1>2. IInv /\ OwnIdInv /\ [Next]_vars => OwnIdInv'
  BY OwnIdNext
<1> QED
  BY <1>1, <1>2, LogInvariant, PTL DEF Spec

-----------------------------------------------------------------------------
(***************************************************************************)
(* The store implements SaveService.                                       *)
(***************************************************************************)
ServiceStep == [Service!Next]_(Service!vars)

\* Steps after which every save and every row looks as before.
LEMMA NothingReported ==
    ASSUME \A r \in Requests : reported'[r] = reported[r], rowsOfSaves' = rowsOfSaves
    PROVE  ServiceStep
<1>1. reported = [r \in Requests |-> reported[r]] /\ reported' = [r \in Requests |-> reported'[r]]
  BY DEF reported
<1>2. reported' = reported
  BY <1>1
<1> QED
  BY <1>2 DEF ServiceStep, Service!vars

\* A commit gives a row to no save but its own.
LEMMA OthersRows ==
    ASSUME IInv, OwnIdInv, NEW C \in SUBSET Open, stored' = stored \cup {tx[r].id : r \in C}
    PROVE  \A q \in Requests \ C : tx[q].id \in stored' <=> tx[q].id \in stored
<1>1. \A r \in C : r \in Requests /\ tx[r].id \in 1..nextId - 1
  BY OpenTx
<1>2. \A r \in C : tx[r].id # 0
  BY <1>1
<1> QED
  BY <1>1, <1>2 DEF OwnIdInv

\* Saves without a row.
LEMMA NoRowYet ==
    ASSUME IInv, OwnIdInv
    PROVE  /\ 0 \notin stored
           /\ \A r \in Fresh \cup Open : tx[r].id \notin stored
<1>1. 0 \notin stored
  BY DEF IInv, TypeOK
<1> QED
  BY <1>1, OpenTx DEF OwnIdInv

\* Every step of the store is one of the service, or none.
LEMMA ServiceNext ==
    ASSUME IInv, OwnIdInv, [Next]_vars
    PROVE  ServiceStep
<1> USE DEF tableVars
<1>0. TypeOK /\ SaveInv
  BY DEF IInv
<1>1. ASSUME NEW r \in Requests, Submit(r) \/ SubmitRaises(r)
      PROVE  ServiceStep
  <2>1. /\ save' = [save EXCEPT ![r] = "queued"] /\ save[r] = "none" /\ tx' = tx /\ stored' = stored
    BY <1>0, <1>1 DEF Submit, SubmitRaises, Arrives, SaveInv
  <2>2. reported[r] = "none" /\ reported' = [reported EXCEPT ![r] = "pending"]
    BY <1>0, <2>1 DEF reported, Unfinished, InThread, TypeOK
  <2>3. rowsOfSaves' = rowsOfSaves
    BY <1>0, <2>1 DEF rowsOfSaves, TypeOK
  <2> QED
    BY <2>2, <2>3 DEF ServiceStep, Service!Next, Service!Accept
<1>2. CASE \/ \E r \in Requests : Refuse(r) \/ Answer(r) \/ Cancel(r) \/ ReleaseSlot(r)
           \/ StartupPrune \/ StartupFails \/ Joined \/ Restart \/ (\E n \in rows : Expire(n))
           \/ UNCHANGED vars
  <2>1. UNCHANGED <<save, tx, stored>>
    BY <1>2 DEF Refuse, Answer, Cancel, ReleaseSlot, StartupPrune, StartupFails, Joined, Restart,
                Expire, vars
  <2> QED
    BY <2>1, NothingReported DEF reported, rowsOfSaves
<1>3. ASSUME NEW r \in Requests, save[r] \in Unfinished \ {"rollback"},
             NEW x \in InThread, save' = [save EXCEPT ![r] = x],
             \A q \in Requests \ {r} : tx'[q].id = tx[q].id /\ (tx[q].id \in stored' <=> tx[q].id \in stored),
             r \notin rowsOfSaves, r \notin rowsOfSaves'
      PROVE  ServiceStep
  <2>1. \A q \in Requests : reported'[q] = reported[q]
    BY <1>0, <1>3 DEF reported, Unfinished, TypeOK
  <2>2. \A q \in Requests \ {r} : q \in rowsOfSaves' <=> q \in rowsOfSaves
    BY <1>0, <1>3 DEF rowsOfSaves, TypeOK
  <2>3. rowsOfSaves' = rowsOfSaves
    BY <1>3, <2>2 DEF rowsOfSaves
  <2> QED
    BY <2>1, <2>3, NothingReported
<1>4. ASSUME NEW r \in Requests, Take(r)
      PROVE  ServiceStep
  <2>1. /\ r \in Fresh /\ save[r] \in Unfinished \ {"rollback"} /\ tx' = tx /\ stored' = stored
        /\ save' = [save EXCEPT ![r] = "insert"]
    BY <1>4 DEF Take, Fresh, Unfinished
  <2>2. tx[r].id \notin stored
    BY <2>1, NoRowYet
  <2> QED
    BY <1>3, <2>1, <2>2 DEF rowsOfSaves, InThread
<1>5. ASSUME NEW r \in Requests, \/ Insert(r) \/ SelectNewest(r) \/ StartDelete(r) \/ DeleteRows(r)
      PROVE  ServiceStep
  <2>1. /\ r \in Fresh \cup Open /\ save[r] \in Unfinished \ {"rollback"}
        /\ \E x \in InThread : save' = [save EXCEPT ![r] = x]
    BY <1>5 DEF Insert, SelectNewest, StartDelete, DeleteRows, Fresh, Open, Unfinished, InThread
  <2>2. stored' = stored /\ \A q \in Requests \ {r} : tx'[q] = tx[q]
    BY <1>5, OneTx
  <2>3. tx[r].id \notin stored
    BY <2>1, NoRowYet
  <2>4. tx'[r].id \notin stored
    <3>1. CASE Insert(r)
      BY <1>0, <3>1 DEF Insert, TypeOK
    <3>2. CASE ~Insert(r)
      BY <1>5, <2>3, <3>2, OneTx
    <3> QED
      BY <3>1, <3>2
  <2> QED
    BY <1>3, <2>1, <2>2, <2>3, <2>4 DEF rowsOfSaves
<1>6. ASSUME NEW r \in Requests, StatementFails(r)
      PROVE  ServiceStep
  <2>1. /\ r \in Fresh \cup Open /\ save[r] \in Unfinished \ {"rollback"} /\ stored' = stored
        /\ tx' = [tx EXCEPT ![r].victims = {}] /\ save' = [save EXCEPT ![r] = "rollback"]
    BY <1>6 DEF StatementFails, Fresh, Open, Unfinished, InThread
  <2>2. tx[r].id \notin stored /\ \A q \in Requests \ {r} : tx'[q] = tx[q]
    BY <1>0, <2>1, NoRowYet DEF TypeOK
  <2>3. r \notin rowsOfSaves /\ r \notin rowsOfSaves'
    BY <1>0, <2>1, <2>2 DEF rowsOfSaves, TypeOK
  <2> QED
    BY <1>3, <2>1, <2>2, <2>3 DEF InThread
<1>7. ASSUME NEW r \in Requests, CommitFails(r)
      PROVE  ServiceStep
  <2>1. /\ r \in Open /\ save[r] \in Unfinished \ {"rollback"} /\ tx' = tx
        /\ save' = [save EXCEPT ![r] = "rollback"]
        /\ stored' = stored \cup {tx[q].id : q \in {r}} \/ stored' = stored
    BY <1>7 DEF CommitFails, AfterLostCommit, Apply, Open, Unfinished, InThread
  <2>2. \A q \in Requests \ {r} : tx[q].id \in stored' <=> tx[q].id \in stored
    BY <2>1, OthersRows
  <2>3. r \notin rowsOfSaves /\ r \notin rowsOfSaves'
    BY <1>0, <2>1, NoRowYet DEF rowsOfSaves, TypeOK
  <2> QED
    BY <1>3, <2>1, <2>2, <2>3 DEF InThread
<1>8. ASSUME NEW r \in Requests, Commit(r)
      PROVE  ServiceStep
  <2>1. /\ r \in Open /\ save[r] = "commit" /\ save' = [save EXCEPT ![r] = "saved"]
        /\ tx' = [tx EXCEPT ![r] = Over(r)] /\ stored' = stored \cup {tx[q].id : q \in {r}}
        /\ Over(r).id = tx[r].id
    BY <1>8 DEF Commit, Apply, Open, Over, NoTx
  <2>2. /\ \A q \in Requests : tx'[q].id = tx[q].id
        /\ \A q \in Requests \ {r} : tx[q].id \in stored' <=> tx[q].id \in stored
    BY <1>0, <2>1, OthersRows DEF TypeOK
  <2>3. reported[r] = "pending" /\ reported' = [reported EXCEPT ![r] = "saved"]
    BY <1>0, <2>1 DEF reported, Unfinished, InThread, TypeOK
  <2>4. \A q \in Requests \ {r} : q \in rowsOfSaves' <=> q \in rowsOfSaves
    BY <1>0, <2>1, <2>2 DEF rowsOfSaves, TypeOK
  <2>5. r \in rowsOfSaves'
    BY <1>0, <2>1, <2>2 DEF rowsOfSaves, TypeOK
  <2>6. rowsOfSaves' = rowsOfSaves \cup {r}
    BY <2>4, <2>5 DEF rowsOfSaves
  <2> QED
    BY <2>3, <2>6 DEF ServiceStep, Service!Next, Service!Save
<1>9. ASSUME NEW R \in SUBSET {r \in Requests : save[r] \in Unfinished}, R # {},
             \A r \in R : reported'[r] = "failed",
             \A r \in Requests \ R : reported'[r] = reported[r] /\ (r \in rowsOfSaves' <=> r \in rowsOfSaves),
             \A r \in R : r \in rowsOfSaves => r \in rowsOfSaves'
      PROVE  ServiceStep
  <2> DEFINE kept == R \cap rowsOfSaves'
  <2>1. R \subseteq Service!Pending /\ kept \subseteq R
    BY <1>9 DEF Service!Pending, reported
  <2>2. reported' = [r \in Requests |-> IF r \in R THEN "failed" ELSE reported[r]]
    <3>1. reported' = [r \in Requests |-> reported'[r]]
      BY DEF reported
    <3> QED
      BY <1>9, <3>1
  <2>3. rowsOfSaves' = rowsOfSaves \cup kept
    <3>1. rowsOfSaves \subseteq Requests /\ rowsOfSaves' \subseteq Requests
      BY DEF rowsOfSaves
    <3> QED
      BY <1>9, <3>1
  <2>4. Service!Fail(R, kept)
    BY <1>9, <2>1, <2>2, <2>3 DEF Service!Fail
  <2> QED
    BY <2>1, <2>4 DEF ServiceStep, Service!Next
<1>10. ASSUME NEW r \in Requests, Rollback(r)
      PROVE  ServiceStep
  <2>1. /\ save[r] = "rollback" /\ save' = [save EXCEPT ![r] = "failed"] /\ stored' = stored
        /\ \A q \in Requests : tx'[q].id = tx[q].id
    BY <1>0, <1>10 DEF Rollback, Over, NoTx, TypeOK
  <2>2. reported'[r] = "failed" /\ \A q \in Requests \ {r} : reported'[q] = reported[q]
    BY <1>0, <2>1 DEF reported, Unfinished, InThread, TypeOK
  <2>3. /\ r \notin rowsOfSaves
        /\ \A q \in Requests \ {r} : q \in rowsOfSaves' <=> q \in rowsOfSaves
    BY <1>0, <2>1 DEF rowsOfSaves, TypeOK
  <2>4. {r} \in SUBSET {q \in Requests : save[q] \in Unfinished}
    BY <2>1 DEF Unfinished, InThread
  <2> QED
    BY <1>9, <2>2, <2>3, <2>4
<1>11. CASE Shutdown
  <2>1. /\ tx' = tx /\ stored' = stored
        /\ save' = [r \in Requests |-> IF r \in Queued THEN "failed" ELSE save[r]]
    BY <1>11 DEF Shutdown
  <2>2. \A r \in Requests : r \in rowsOfSaves' <=> r \in rowsOfSaves
    BY <2>1 DEF rowsOfSaves, Queued
  <2>3. CASE Queued = {}
    <3>1. \A r \in Requests : save'[r] = save[r]
      BY <2>1, <2>3
    <3>2. \A r \in Requests : reported'[r] = reported[r]
      BY <3>1 DEF reported
    <3>3. rowsOfSaves' = rowsOfSaves
      BY <2>2 DEF rowsOfSaves
    <3> QED
      BY <3>2, <3>3, NothingReported
  <2>4. CASE Queued # {}
    <3>1. Queued \in SUBSET {r \in Requests : save[r] \in Unfinished}
      BY DEF Queued, Unfinished
    <3>2. /\ \A r \in Queued : reported'[r] = "failed"
          /\ \A r \in Requests \ Queued : reported'[r] = reported[r]
      BY <2>1, <3>1 DEF reported, Unfinished, InThread
    <3> QED
      BY <1>9, <2>2, <2>4, <3>1, <3>2
  <2> QED
    BY <2>3, <2>4
<1>12. CASE Crash
  <2> DEFINE R == {r \in Requests : save[r] \in Unfinished}
  <2>1. PICK sent \in SUBSET {r \in Requests : save[r] = "commit"} :
            stored' = stored \cup {tx[r].id : r \in sent}
    BY <1>12 DEF Crash, Apply
  <2>2. /\ \A r \in Requests : tx'[r].id = tx[r].id
        /\ \A r \in Requests : save'[r] = IF r \in R THEN "lost" ELSE save[r]
    BY <1>12 DEF Crash, Over, NoTx
  <2>3. sent \in SUBSET Open /\ sent \subseteq R
    BY DEF Open, Unfinished, InThread
  <2>4. \A q \in Requests \ R : tx[q].id \in stored' <=> tx[q].id \in stored
    BY <2>1, <2>3, OthersRows
  <2>5. \A q \in Requests \ R : q \in rowsOfSaves' <=> q \in rowsOfSaves
    BY <2>2, <2>4 DEF rowsOfSaves
  <2>6. \A q \in R : q \in rowsOfSaves => q \in rowsOfSaves'
    BY <2>1, <2>2 DEF rowsOfSaves
  <2>7. /\ \A r \in R : reported'[r] = "failed"
        /\ \A r \in Requests \ R : reported'[r] = reported[r]
    BY <2>2 DEF reported, Unfinished, InThread
  <2>8. CASE R = {}
    <3>1. rowsOfSaves' = rowsOfSaves
      BY <2>5, <2>8 DEF rowsOfSaves
    <3> QED
      BY <2>7, <2>8, <3>1, NothingReported
  <2>9. CASE R # {}
    BY <1>9, <2>5, <2>6, <2>7, <2>9
  <2> QED
    BY <2>8, <2>9
<1> QED
  BY <1>1, <1>2, <1>4, <1>5, <1>6, <1>7, <1>8, <1>10, <1>11, <1>12, NextCases DEF Statement

\* What submissions may expect of the store they get: a save ends once, a
\* reported one has its row, and no row appears of one that failed or was never
\* accepted, through failing statements, lost commits, a closing executor and
\* crashes (save_execution_log_async, ExecutionLogRepo.save).
THEOREM Implementation == Spec => ImplementsSaveService
<1>1. Init => Service!Init
  BY DEF Init, NoTx, Service!Init, reported, rowsOfSaves, Unfinished, InThread
<1>2. IInv /\ OwnIdInv /\ [Next]_vars => [Service!Next]_(Service!vars)
  BY ServiceNext DEF ServiceStep
<1> QED
  BY <1>1, <1>2, LogInvariant, OwnIds, PTL DEF Spec, ImplementsSaveService, Service!Spec
=============================================================================
