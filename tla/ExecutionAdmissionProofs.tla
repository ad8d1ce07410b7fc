---------------------- MODULE ExecutionAdmissionProofs ----------------------
(***************************************************************************)
(* Proofs about ExecutionAdmission, for every number of requests, slots,   *)
(* tokens and failing thread starts.                                       *)
(***************************************************************************)
EXTENDS ExecutionAdmission, FiniteSetTheorems, TLAPS

\* A request that is on its way or rejected has no command, one that waits has
\* one, and a callback is registered only for a command that goes on without its
\* request.
RequestInv ==
    /\ \A r \in Requests : request[r] \in {"new", "rejected"} => future[r] = "none"
    /\ \A r \in Requests : request[r] = "waiting" => future[r] # "none"
    /\ \A r \in callbacks : request[r] # "waiting" /\ ~IsDone(r) /\ future[r] # "none"

\* The work queue has each pending command once.
QueueInv ==
    /\ \A i \in 1..Len(queue) : future[queue[i]] = "pending"
    /\ \A i, j \in 1..Len(queue) : queue[i] = queue[j] => i = j
    /\ Len(queue) = Cardinality(Queued)

\* A thread runs a command, is about to count itself idle, or is free.
ThreadInv == Cardinality(InExecution) + finishing <= threads

\* A command without a slot is one whose thread could not be started.
Unslotted    == (Queued \cup InExecution) \ Holders
UnslottedInv == Cardinality(Unslotted) <= startFailures

\* As long as threads can be started, each queued command has an idle thread or
\* a new one; the idle count only runs ahead of the threads that are free once
\* all have been started.
IdleInv ==
    \/ threads = Capacity
    \/ idle + Len(queue) + Cardinality(InExecution) + finishing <= threads + startFailures

\* The inductive invariant.
IInv == /\ TypeOK /\ RequestInv /\ SlotsAccounted
        /\ QueueInv /\ ThreadInv /\ UnslottedInv /\ IdleInv

-----------------------------------------------------------------------------
\* The sets of requests are finite, and one element more or less is one more or
\* less; a part has no more elements than the whole.
LEMMA Counting ==
    ASSUME NEW S \in SUBSET Requests
    PROVE  /\ IsFiniteSet(S) /\ Cardinality(S) \in Nat
           /\ \A r \in Requests \ S : Cardinality(S \cup {r}) = Cardinality(S) + 1
           /\ \A r \in S : Cardinality(S \ {r}) = Cardinality(S) - 1
           /\ \A T \in SUBSET S : Cardinality(T) \in Nat /\ Cardinality(T) <= Cardinality(S)
           /\ \A T : Cardinality(S \ T) = Cardinality(S) - Cardinality(S \cap T)
<1>1. IsFiniteSet(S)
  BY RequestsAssumption, FS_Subset
<1>2. \A T \in SUBSET S : IsFiniteSet(T) /\ Cardinality(T) <= Cardinality(S)
  BY <1>1, FS_Subset
<1>3. \A T : Cardinality(S \ T) = Cardinality(S) - Cardinality(S \cap T)
  BY <1>1, FS_Difference
<1> QED
  BY <1>1, <1>2, <1>3, FS_CardinalityType, FS_AddElement, FS_RemoveElement

\* Which sets the counters are about.
LEMMA Sets ==
    ASSUME IInv
    PROVE  /\ Queued \in SUBSET Requests /\ InExecution \in SUBSET Requests
           /\ Holders \in SUBSET Requests /\ Unslotted \in SUBSET Requests
BY DEF IInv, TypeOK, Queued, InExecution, Holders, Unslotted

-----------------------------------------------------------------------------
\* What a submitted command changes in the sets.
LEMMA SubmitSets ==
    ASSUME IInv, NEW r \in Requests, Submit(r)
    PROVE  /\ r \notin Queued /\ Queued' = Queued \cup {r}
           /\ r \notin Holders /\ Holders' = Holders \cup {r}
           /\ InExecution' = InExecution
           /\ Unslotted' = Unslotted
BY DEF IInv, TypeOK, RequestInv, Submit, Answer, Queued, InExecution, Holders, Unslotted

\* A command that is in the queue and has no slot.
LEMMA SubmitRaisesSets ==
    ASSUME IInv, NEW r \in Requests, SubmitRaises(r)
    PROVE  /\ r \notin Queued /\ Queued' = Queued \cup {r}
           /\ r \notin Unslotted /\ Unslotted' = Unslotted \cup {r}
           /\ InExecution' = InExecution
           /\ Holders' = Holders
BY DEF IInv, TypeOK, RequestInv, SubmitRaises, Answer, Queued, InExecution, Holders, Unslotted

\* The request sees its future done: it alone held the slot.
LEMMA WaitEndsSets ==
    ASSUME IInv, NEW r \in Requests, WaitEnds(r)
    PROVE  /\ r \in Holders /\ Holders' = Holders \ {r}
           /\ Queued' = Queued /\ InExecution' = InExecution /\ Unslotted' = Unslotted
BY DEF IInv, TypeOK, RequestInv, WaitEnds, Answer, IsDone, Queued, InExecution, Holders,
       Unslotted

\* The slot of a request that gives up is free, or becomes its callback's.
LEMMA WaitAbandonedSets ==
    ASSUME IInv, NEW r \in Requests, WaitAbandoned(r)
    PROVE  /\ \/ r \in Holders /\ Holders' = Holders \ {r} /\ slots' = slots + 1
              \/ Holders' = Holders /\ slots' = slots
           /\ Queued' = Queued /\ InExecution' = InExecution /\ Unslotted' = Unslotted
<1> USE DEF IInv, TypeOK, RequestInv, WaitAbandoned, ReleaseWhenDone, Answer, IsDone, Queued,
            InExecution, Holders, Unslotted
<1>1. CASE IsDone(r)
  BY <1>1
<1>2. CASE ~IsDone(r)
  BY <1>2
<1> QED
  BY <1>1, <1>2

\* A command moves from the queue to a thread.
LEMMA TakeCommandSets ==
    ASSUME IInv, TakeCommand
    PROVE  /\ Head(queue) \in Queued /\ Queued' = Queued \ {Head(queue)}
           /\ Head(queue) \notin InExecution
           /\ InExecution' = InExecution \cup {Head(queue)}
           /\ Holders' = Holders /\ Unslotted' = Unslotted
<1>1. Head(queue) \in Requests /\ future[Head(queue)] = "pending"
  <2>1. 1 \in 1..Len(queue) /\ Head(queue) = queue[1]
    BY DEF IInv, TypeOK, TakeCommand
  <2> QED
    BY <2>1 DEF IInv, TypeOK, QueueInv
<1> QED
  BY <1>1 DEF IInv, TypeOK, TakeCommand, Queued, InExecution, Holders, Unslotted

\* The end of a command returns the slot if its request has gone.
LEMMA CommandEndsSets ==
    ASSUME IInv, NEW r \in Requests, CommandEnds(r)
    PROVE  /\ \/ r \in Holders /\ Holders' = Holders \ {r} /\ slots' = slots + 1
              \/ Holders' = Holders /\ slots' = slots
           /\ r \in InExecution /\ InExecution' = InExecution \ {r}
           /\ Queued' = Queued /\ Unslotted' \subseteq Unslotted
<1> USE DEF IInv, TypeOK, RequestInv, CommandEnds, Queued, InExecution, Holders, Unslotted
<1>1. CASE r \in callbacks
  BY <1>1
<1>2. CASE r \notin callbacks
  BY <1>2
<1> QED
  BY <1>1, <1>2

\* close() cancels what is queued; their callbacks return the slots.
LEMMA CloseSets ==
    ASSUME IInv, Close
    PROVE  /\ Queued' = {} /\ InExecution' = InExecution /\ Unslotted' \subseteq Unslotted
           /\ Queued \cap callbacks = Holders \cap (Queued \cap callbacks)
           /\ Holders' = Holders \ (Queued \cap callbacks)
BY DEF IInv, TypeOK, RequestInv, Close, Queued, InExecution, Holders, Unslotted

\* The other steps touch none of the sets.
OtherStep ==
    \/ Refill \/ CountIdle \/ Idle \/ UNCHANGED vars
    \/ \E r \in Requests : Reject(r) \/ Busy(r)

\* None of these changes a set the invariant speaks of.
LEMMA OtherSets ==
    ASSUME IInv, OtherStep
    PROVE  /\ Queued' = Queued /\ InExecution' = InExecution
           /\ Holders' = Holders /\ Unslotted' = Unslotted
           /\ UNCHANGED <<slots, queue, future, threads, startFailures>>
<1> USE DEF IInv, TypeOK, RequestInv, Answer, Queued, InExecution, Holders, Unslotted,
            bucketVars, executorVars
<1>1. CASE Refill \/ CountIdle \/ Idle \/ UNCHANGED vars
  BY <1>1 DEF Refill, CountIdle, Idle, vars
<1>2. ASSUME NEW r \in Requests, Reject(r) \/ Busy(r)
      PROVE  /\ Queued' = Queued /\ InExecution' = InExecution
             /\ Holders' = Holders /\ Unslotted' = Unslotted
             /\ UNCHANGED <<slots, queue, future, threads, startFailures>>
  BY <1>2 DEF Reject, Busy
<1> QED
  BY <1>1, <1>2 DEF OtherStep

\* The steps, one disjunct for each kind.
LEMMA NextCases ==
    ASSUME [Next]_vars
    PROVE  \/ \E r \in Requests : \/ Submit(r) \/ SubmitRaises(r) \/ WaitEnds(r)
                                  \/ WaitAbandoned(r) \/ CommandEnds(r)
           \/ TakeCommand \/ Close
           \/ OtherStep
BY DEF Next, OtherStep

-----------------------------------------------------------------------------
\* Every slot keeps exactly one holder.
LEMMA SlotsNext ==
    ASSUME IInv, [Next]_vars
    PROVE  SlotsAccounted' /\ slots' \in 0..Capacity
<1> DEFINE Goal == SlotsAccounted' /\ slots' \in 0..Capacity
<1>0. /\ Holders \in SUBSET Requests /\ slots \in 0..Capacity
      /\ slots + Cardinality(Holders) = Capacity /\ Capacity \in Nat
  BY Sets, CapacityAssumption DEF IInv, TypeOK, SlotsAccounted
<1>1. ASSUME slots' = slots, Holders' = Holders PROVE Goal
  BY <1>0, <1>1 DEF SlotsAccounted
<1>2. ASSUME NEW r \in Holders, slots' = slots + 1, Holders' = Holders \ {r} PROVE Goal
  <2>1. Cardinality(Holders') = Cardinality(Holders) - 1 /\ Cardinality(Holders') \in Nat
    BY <1>0, <1>2, Counting
  <2> QED
    BY <1>0, <1>2, <2>1, Counting DEF SlotsAccounted
<1>3. ASSUME NEW r \in Requests, Submit(r) PROVE Goal
  <2>1. Cardinality(Holders') = Cardinality(Holders) + 1
    BY <1>0, <1>3, SubmitSets, Counting
  <2> QED
    BY <1>0, <1>3, <2>1, Counting DEF Submit, SlotsAccounted
<1>4. ASSUME NEW r \in Requests, SubmitRaises(r) PROVE Goal
  BY <1>1, <1>4, SubmitRaisesSets DEF SubmitRaises
<1>5. ASSUME NEW r \in Requests, WaitEnds(r) PROVE Goal
  BY <1>2, <1>5, WaitEndsSets DEF WaitEnds
<1>6. ASSUME NEW r \in Requests, WaitAbandoned(r) PROVE Goal
  BY <1>1, <1>2, <1>6, WaitAbandonedSets
<1>7. ASSUME NEW r \in Requests, CommandEnds(r) PROVE Goal
  BY <1>1, <1>2, <1>7, CommandEndsSets
<1>8. CASE TakeCommand
  BY <1>1, <1>8, TakeCommandSets DEF TakeCommand
<1>9. CASE Close
  <2>1. /\ Cardinality(Holders') = Cardinality(Holders) - Cardinality(Queued \cap callbacks)
        /\ Cardinality(Holders') \in Nat /\ Cardinality(Queued \cap callbacks) \in Nat
    <3>1. Queued \cap callbacks \in SUBSET Holders
      BY <1>9, CloseSets
    <3> QED
      BY <1>0, <1>9, <3>1, CloseSets, Counting
  <2> QED
    BY <1>0, <1>9, <2>1, Counting DEF Close, SlotsAccounted
<1>10. CASE OtherStep
  BY <1>1, <1>10, OtherSets
<1> QED
  BY <1>3, <1>4, <1>5, <1>6, <1>7, <1>8, <1>9, <1>10, NextCases

\* The queue keeps each pending command once.
LEMMA QueueNext ==
    ASSUME IInv, [Next]_vars
    PROVE  QueueInv' /\ queue' \in Seq(Requests)
<1> DEFINE Goal == QueueInv' /\ queue' \in Seq(Requests)
<1>0. /\ queue \in Seq(Requests) /\ Queued \in SUBSET Requests
      /\ QueueInv /\ future \in [Requests -> {"none", "pending", "running", "done", "cancelled"}]
  BY Sets DEF IInv, TypeOK
<1>1. ASSUME NEW r \in Requests, r \notin Queued, Queued' = Queued \cup {r},
             queue' = Append(queue, r), future' = [future EXCEPT ![r] = "pending"]
      PROVE  Goal
  <2>1. /\ Len(queue') = Len(queue) + 1 /\ queue' \in Seq(Requests)
        /\ \A i \in 1..Len(queue) : queue'[i] = queue[i]
        /\ queue'[Len(queue) + 1] = r
    BY <1>0, <1>1
  <2>2. \A i \in 1..Len(queue) : queue[i] # r /\ queue[i] \in Requests
    BY <1>0, <1>1 DEF QueueInv, Queued
  <2>3. Cardinality(Queued') = Cardinality(Queued) + 1
    BY <1>0, <1>1, Counting
  <2> QED
    BY <1>0, <1>1, <2>1, <2>2, <2>3 DEF QueueInv
<1>2. ASSUME UNCHANGED queue, Queued' = Queued,
             \A r \in Requests : future[r] = "pending" => future'[r] = "pending"
      PROVE  Goal
  <2>1. \A i \in 1..Len(queue) : queue[i] \in Requests
    BY <1>0
  <2> QED
    BY <1>0, <1>2, <2>1 DEF QueueInv
<1>3. ASSUME NEW r \in Requests, Submit(r) \/ SubmitRaises(r) PROVE Goal
  BY <1>1, <1>3, SubmitSets, SubmitRaisesSets DEF Submit, SubmitRaises
<1>4. ASSUME NEW r \in Requests, WaitEnds(r) \/ WaitAbandoned(r) PROVE Goal
  BY <1>2, <1>4, WaitEndsSets, WaitAbandonedSets DEF WaitEnds, WaitAbandoned, executorVars
<1>5. ASSUME NEW r \in Requests, CommandEnds(r) PROVE Goal
  BY <1>0, <1>2, <1>5, CommandEndsSets DEF CommandEnds
<1>6. CASE TakeCommand
  <2>1. /\ queue # <<>> /\ Len(queue) \in Nat /\ Len(queue) >= 1 /\ Head(queue) = queue[1]
        /\ Len(queue') = Len(queue) - 1 /\ queue' \in Seq(Requests)
        /\ \A i \in 1..Len(queue) - 1 : queue'[i] = queue[i + 1]
    BY <1>0, <1>6 DEF TakeCommand
  <2>2. \A i \in 1..Len(queue) : queue[i] \in Requests
    BY <1>0
  <2>3. Cardinality(Queued') = Cardinality(Queued) - 1
    BY <1>0, <1>6, TakeCommandSets, Counting
  <2>4. \A i \in 1..Len(queue') : future'[queue'[i]] = "pending"
    <3> SUFFICES ASSUME NEW i \in 1..Len(queue') PROVE future'[queue'[i]] = "pending"
      OBVIOUS
    <3>1. i + 1 \in 1..Len(queue) /\ i + 1 # 1 /\ 1 \in 1..Len(queue)
      BY <2>1
    <3>2. queue[i + 1] # Head(queue) /\ future[queue[i + 1]] = "pending"
      BY <1>0, <2>1, <3>1 DEF QueueInv
    <3> QED
      BY <1>0, <1>6, <2>1, <2>2, <3>1, <3>2 DEF TakeCommand
  <2>5. \A i, j \in 1..Len(queue') : queue'[i] = queue'[j] => i = j
    <3> SUFFICES ASSUME NEW i \in 1..Len(queue'), NEW j \in 1..Len(queue'), queue'[i] = queue'[j]
                 PROVE  i = j
      OBVIOUS
    <3>1. i + 1 \in 1..Len(queue) /\ j + 1 \in 1..Len(queue)
      BY <2>1
    <3> QED
      BY <1>0, <2>1, <3>1 DEF QueueInv
  <2> QED
    BY <1>0, <2>1, <2>3, <2>4, <2>5 DEF QueueInv
<1>7. CASE Close
  <2>1. queue' = <<>> /\ Len(queue') = 0 /\ 1..Len(queue') = {} /\ queue' \in Seq(Requests)
    BY <1>7 DEF Close
  <2>2. Cardinality(Queued') = 0
    BY <1>7, CloseSets, FS_EmptySet
  <2> QED
    BY <2>1, <2>2 DEF QueueInv
<1>8. CASE OtherStep
  BY <1>2, <1>8, OtherSets
<1> QED
  BY <1>3, <1>4, <1>5, <1>6, <1>7, <1>8, NextCases

-----------------------------------------------------------------------------
\* Threads are enough for what they run, no command is without a slot but those
\* whose thread could not be started, and the idle count keeps its bound.
LEMMA CountsNext ==
    ASSUME IInv, [Next]_vars
    PROVE  ThreadInv' /\ UnslottedInv' /\ IdleInv'
<1> DEFINE Goal == ThreadInv' /\ UnslottedInv' /\ IdleInv'
<1> USE DEF ThreadInv, UnslottedInv, IdleInv
<1>0. /\ Queued \in SUBSET Requests /\ InExecution \in SUBSET Requests
      /\ Unslotted \in SUBSET Requests /\ Cardinality(Unslotted) \in Nat
      /\ Cardinality(InExecution) \in Nat
      /\ Capacity \in Nat /\ threads \in 0..Capacity /\ finishing \in Nat /\ idle \in Nat
      /\ startFailures \in Nat /\ Len(queue) \in Nat
      /\ ThreadInv /\ UnslottedInv /\ IdleInv
  BY Sets, Counting, CapacityAssumption, BoundsAssumption DEF IInv, TypeOK
<1>1. ASSUME NEW r \in Requests, Submit(r) PROVE Goal
  <2>1. Len(queue') = Len(queue) + 1
    BY <1>1 DEF Submit, IInv, TypeOK
  <2>2. \/ idle > 0 /\ idle' = idle - 1 /\ threads' = threads
        \/ idle = 0 /\ threads < Capacity /\ threads' = threads + 1 /\ idle' = idle
        \/ threads = Capacity /\ threads' = threads /\ idle' = idle
    BY <1>0, <1>1 DEF Submit, ThreadForCommand, MaxWorkers
  <2>3. /\ Cardinality(InExecution') = Cardinality(InExecution)
        /\ Cardinality(Unslotted') = Cardinality(Unslotted)
        /\ UNCHANGED <<finishing, startFailures>>
    BY <1>1, SubmitSets DEF Submit
  <2>4. ThreadInv' /\ UnslottedInv'
    BY <1>0, <2>2, <2>3
  <2>5. IdleInv'
    <3>1. CASE threads' = Capacity
      BY <3>1
    <3>2. CASE threads' # Capacity
      <4>1. idle + Len(queue) + Cardinality(InExecution) + finishing <= threads + startFailures
        BY <1>0, <2>2, <3>2
      <4>2. \/ idle' = idle - 1 /\ threads' = threads
            \/ idle' = idle /\ threads' = threads + 1
        BY <2>2, <3>2
      <4> QED
        BY <1>0, <2>1, <2>3, <4>1, <4>2
    <3> QED
      BY <3>1, <3>2
  <2> QED
    BY <2>4, <2>5
<1>2. ASSUME NEW r \in Requests, SubmitRaises(r) PROVE Goal
  <2>1. Len(queue') = Len(queue) + 1
    BY <1>2 DEF SubmitRaises, IInv, TypeOK
  <2>2. Cardinality(Unslotted') = Cardinality(Unslotted) + 1
    BY <1>0, <1>2, SubmitRaisesSets, Counting
  <2>3. /\ Cardinality(InExecution') = Cardinality(InExecution)
        /\ startFailures' = startFailures + 1 /\ UNCHANGED <<threads, idle, finishing>>
    BY <1>2, SubmitRaisesSets DEF SubmitRaises
  <2> QED
    BY <1>0, <2>1, <2>2, <2>3
<1>3. ASSUME NEW r \in Requests, WaitEnds(r) \/ WaitAbandoned(r) PROVE Goal
  BY <1>0, <1>3, WaitEndsSets, WaitAbandonedSets DEF WaitEnds, WaitAbandoned, executorVars
<1>4. ASSUME NEW r \in Requests, CommandEnds(r) PROVE Goal
  <2>1. Cardinality(InExecution') = Cardinality(InExecution) - 1
    BY <1>0, <1>4, CommandEndsSets, Counting
  <2>2. Cardinality(Unslotted') \in Nat /\ Cardinality(Unslotted') <= Cardinality(Unslotted)
    BY <1>0, <1>4, CommandEndsSets, Counting
  <2> QED
    BY <1>0, <1>4, <2>1, <2>2 DEF CommandEnds
<1>5. CASE TakeCommand
  <2>1. /\ Cardinality(InExecution') = Cardinality(InExecution) + 1
        /\ Cardinality(Unslotted') = Cardinality(Unslotted)
    BY <1>0, <1>5, TakeCommandSets, Counting
  <2>2. Len(queue') = Len(queue) - 1
    BY <1>5 DEF TakeCommand, IInv, TypeOK
  <2> QED
    BY <1>0, <1>5, <2>1, <2>2 DEF TakeCommand
<1>6. CASE Close
  <2>1. Cardinality(Unslotted') \in Nat /\ Cardinality(Unslotted') <= Cardinality(Unslotted)
    BY <1>0, <1>6, CloseSets, Counting
  <2>2. Cardinality(InExecution') = Cardinality(InExecution) /\ Len(queue') = 0
    BY <1>6, CloseSets DEF Close
  <2> QED
    BY <1>0, <1>6, <2>1, <2>2 DEF Close
<1>7. CASE OtherStep
  <2>1. /\ Cardinality(InExecution') = Cardinality(InExecution)
        /\ Cardinality(Unslotted') = Cardinality(Unslotted)
        /\ threads' = threads /\ startFailures' = startFailures
        /\ Len(queue') = Len(queue)
    BY <1>7, OtherSets
  <2>2. \/ idle' = idle /\ finishing' = finishing
        \/ idle' = idle + 1 /\ finishing' = finishing - 1 /\ finishing > 0
    BY <1>7 DEF OtherStep, Refill, CountIdle, Idle, Reject, Busy, executorVars, vars
  <2> QED
    BY <1>0, <2>1, <2>2
<1> QED
  BY <1>1, <1>2, <1>3, <1>4, <1>5, <1>6, <1>7, NextCases

\* Types and requests, given the slots and the queue.
LEMMA TypeNext ==
    ASSUME IInv, [Next]_vars, slots' \in 0..Capacity, queue' \in Seq(Requests)
    PROVE  TypeOK' /\ RequestInv'
<1> DEFINE Goal == TypeOK' /\ RequestInv'
<1> USE CapacityAssumption, BoundsAssumption
        DEF IInv, TypeOK, RequestInv, IsDone, Answer, TokenTaken, bucketVars, executorVars
<1>1. ASSUME NEW r \in Requests, Submit(r) PROVE Goal
  BY <1>1 DEF Submit, ThreadForCommand, MaxWorkers
<1>2. ASSUME NEW r \in Requests, SubmitRaises(r) PROVE Goal
  BY <1>2 DEF SubmitRaises
<1>3. ASSUME NEW r \in Requests, WaitEnds(r) PROVE Goal
  BY <1>3 DEF WaitEnds
<1>4. ASSUME NEW r \in Requests, WaitAbandoned(r) PROVE Goal
  BY <1>4 DEF WaitAbandoned, ReleaseWhenDone
<1>5. ASSUME NEW r \in Requests, CommandEnds(r) PROVE Goal
  <2>1. Cardinality(InExecution) \in Nat /\ Cardinality(InExecution) >= 1
    <3>1. r \in InExecution /\ Cardinality(InExecution \ {r}) \in Nat
      BY <1>5, Sets, Counting DEF CommandEnds, InExecution
    <3> QED
      BY <3>1, Sets, Counting
  <2>2. finishing + 1 <= Capacity
    BY <2>1 DEF ThreadInv
  <2> QED
    BY <1>5, <2>2 DEF CommandEnds
<1>6. CASE TakeCommand
  <2>1. Head(queue) \in Requests /\ future[Head(queue)] = "pending"
    BY <1>6, TakeCommandSets DEF Queued
  <2> QED
    BY <1>6, <2>1 DEF TakeCommand
<1>7. CASE Close
  BY <1>7 DEF Close, Queued
<1>8. CASE OtherStep
  BY <1>8 DEF OtherStep, Refill, CountIdle, Idle, Reject, Busy, vars
<1> QED
  BY <1>1, <1>2, <1>3, <1>4, <1>5, <1>6, <1>7, <1>8, NextCases

\* At the start every slot is free, nothing is queued and no thread runs.
LEMMA AdmissionInit == Init => IInv
<1> SUFFICES ASSUME Init PROVE IInv
  OBVIOUS
<1>1. Holders = {} /\ Queued = {} /\ InExecution = {} /\ Unslotted = {}
  BY DEF Init, Holders, Queued, InExecution, Unslotted
<1>2. Len(queue) = 0 /\ 1..Len(queue) = {} /\ queue \in Seq(Requests)
  BY DEF Init
<1>3. SlotsAccounted /\ QueueInv
  BY <1>1, <1>2, FS_EmptySet, CapacityAssumption DEF Init, SlotsAccounted, QueueInv
<1>4. ThreadInv /\ UnslottedInv /\ IdleInv
  BY <1>1, <1>2, FS_EmptySet, CapacityAssumption DEF Init, ThreadInv, UnslottedInv, IdleInv
<1>5. TypeOK
  <2>1. request \in [Requests -> {"new", "waiting", "answered", "rejected", "gone"}]
    BY DEF Init
  <2>2. future \in [Requests -> {"none", "pending", "running", "done", "cancelled"}]
    BY DEF Init
  <2>3. slots \in 0..Capacity /\ tokens \in 0..Burst /\ threads \in 0..Capacity
        /\ finishing \in 0..Capacity
    BY CapacityAssumption DEF Init
  <2>4. callbacks \subseteq Requests /\ idle \in Nat /\ closing \in BOOLEAN
    BY DEF Init
  <2>5. refills \in 0..MaxRefills /\ startFailures \in 0..MaxStartFailures
    BY BoundsAssumption DEF Init
  <2> QED
    BY <1>2, <2>1, <2>2, <2>3, <2>4, <2>5 DEF TypeOK
<1>6. RequestInv
  BY DEF Init, RequestInv, IsDone
<1> QED
  BY <1>3, <1>4, <1>5, <1>6 DEF IInv

\* Slots, queue, threads and requests fit together in every state.
THEOREM AdmissionInvariant == Spec => []IInv
<1>1. IInv /\ [Next]_vars => IInv'
  <2> SUFFICES ASSUME IInv, [Next]_vars PROVE IInv'
    OBVIOUS
  <2> QED
    BY SlotsNext, QueueNext, CountsNext, TypeNext DEF IInv
<1> QED
  BY AdmissionInit, <1>1, PTL DEF Spec

\* Every variable keeps its type; neither slots nor threads leave their range.
THEOREM TypeCorrect == Spec => []TypeOK
<1>1. IInv => TypeOK
  BY DEF IInv
<1> QED
  BY AdmissionInvariant, <1>1, PTL

\* Each slot is free or has one holder, however timeouts, cancellations, ends of
\* commands and close() fall together (run_with_timeout, close).
THEOREM SlotsAccountedHolds == Spec => []SlotsAccounted
<1>1. IInv => SlotsAccounted
  BY DEF IInv
<1> QED
  BY AdmissionInvariant, <1>1, PTL

\* Commands that have a slot are as many as the slots that are taken.
LEMMA CommandsBounded ==
    ASSUME IInv
    PROVE  Len(queue) + Cardinality(InExecution) <= Capacity - slots + startFailures
<1> DEFINE Commands == Queued \cup InExecution
<1>1. /\ Queued \in SUBSET Requests /\ InExecution \in SUBSET Requests
      /\ Commands \in SUBSET Requests /\ Holders \in SUBSET Requests
  BY Sets
<1>2. Cardinality(Commands) = Cardinality(Queued) + Cardinality(InExecution)
  <2>1. Queued \cap InExecution = {}
    BY DEF Queued, InExecution
  <2> QED
    <3>1. IsFiniteSet(Queued) /\ IsFiniteSet(InExecution)
      BY <1>1, Counting
    <3>2. Cardinality(Commands)
            = Cardinality(Queued) + Cardinality(InExecution) - Cardinality(Queued \cap InExecution)
      BY <3>1, FS_Union
    <3> QED
      BY <1>1, <2>1, <3>2, Counting, FS_EmptySet
<1>3. Cardinality(Unslotted) = Cardinality(Commands) - Cardinality(Commands \cap Holders)
  BY <1>1, Counting DEF Unslotted
<1>4. Cardinality(Commands \cap Holders) \in Nat
      /\ Cardinality(Commands \cap Holders) <= Cardinality(Holders)
  BY <1>1, Counting
<1>5. Cardinality(Commands) \in Nat /\ Cardinality(Unslotted) \in Nat /\ Cardinality(Holders) \in Nat
  BY <1>1, Sets, Counting
<1> QED
  BY <1>1, <1>2, <1>3, <1>4, <1>5, Counting, CapacityAssumption, BoundsAssumption
     DEF IInv, TypeOK, QueueInv, UnslottedInv, SlotsAccounted

\* No command waits behind a running one, but for one per failing thread start
\* (max_workers is the number of slots).
THEOREM NoQueueingHolds == Spec => []NoQueueing
<1>1. IInv => NoQueueing
  <2> SUFFICES ASSUME IInv PROVE NoQueueing
    OBVIOUS
  <2>1. Len(queue) + Cardinality(InExecution) <= Capacity - slots + startFailures
    BY CommandsBounded
  <2>2. Cardinality(InExecution) \in Nat /\ Len(queue) \in Nat
    BY Sets, Counting DEF IInv, TypeOK
  <2> QED
    BY <2>1, <2>2, CapacityAssumption, BoundsAssumption DEF IInv, TypeOK, IdleInv, NoQueueing
<1> QED
  BY AdmissionInvariant, <1>1, PTL

\* Only a failing Thread.start leaves a command in the executor without a slot,
\* one for each failure: CommandsHoldSlots holds as long as none fails
\* (run_with_timeout).
THEOREM UnslottedBounded ==
    Spec => [](UnslottedInv /\ (startFailures = 0 => CommandsHoldSlots))
<1>1. IInv => UnslottedInv /\ (startFailures = 0 => CommandsHoldSlots)
  <2> SUFFICES ASSUME IInv PROVE UnslottedInv /\ (startFailures = 0 => CommandsHoldSlots)
    OBVIOUS
  <2>1. UnslottedInv
    BY DEF IInv
  <2>2. ASSUME startFailures = 0 PROVE CommandsHoldSlots
    <3>1. Queued \cup InExecution \in SUBSET Requests /\ Holders \in SUBSET Requests
      BY Sets
    <3>2. Cardinality(Unslotted) \in Nat /\ IsFiniteSet(Unslotted)
      BY Sets, Counting
    <3>3. Unslotted = {}
      BY <2>1, <2>2, <3>2, FS_EmptySet DEF UnslottedInv
    <3>4. Queued \cup InExecution \in SUBSET Holders
      BY <3>3 DEF Unslotted
    <3>5. /\ Cardinality(Queued \cup InExecution) \in Nat
          /\ Cardinality(Holders) \in Nat
          /\ Cardinality(Queued \cup InExecution) <= Cardinality(Holders)
      BY <3>1, <3>4, Counting
    <3> QED
      BY <3>5, CapacityAssumption DEF IInv, TypeOK, SlotsAccounted, CommandsHoldSlots
  <2> QED
    BY <2>1, <2>2
<1> QED
  BY AdmissionInvariant, <1>1, PTL

-----------------------------------------------------------------------------
\* The cardinalities of the two modules are one definition.
LEMMA SameCardinality == \A S : Service!Cardinality(S) = Cardinality(S)
BY DEF Service!Cardinality, Cardinality

\* What a future is to the service.
LEMMA StateValues == /\ StateOf["none"] = "arrived" /\ StateOf["pending"] = "arrived"
                     /\ StateOf["running"] = "running" /\ StateOf["done"] = "ended"
                     /\ StateOf["cancelled"] = "killed"
BY DEF StateOf

\* What runs for the service is what the threads execute, and no command of a
\* rejected request is in the executor.
LEMMA CommandStates ==
    ASSUME IInv
    PROVE  /\ Service!Running = InExecution
           /\ \A r \in Requests : request[r] = "rejected" => future[r] = "none"
<1>1. \A r \in Requests : request[r] = "rejected" => future[r] = "none"
  BY DEF IInv, RequestInv
<1>2. \A r \in Requests : commandOf[r] = "running" <=> future[r] = "running"
  <2> SUFFICES ASSUME NEW r \in Requests
               PROVE  commandOf[r] = "running" <=> future[r] = "running"
    OBVIOUS
  <2>1. CASE request[r] = "rejected"
    BY <1>1, <2>1 DEF commandOf
  <2>2. CASE request[r] # "rejected"
    <3>1. commandOf[r] = StateOf[future[r]]
      BY <2>2 DEF commandOf
    <3>2. future[r] \in {"none", "pending", "running", "done", "cancelled"}
      BY DEF IInv, TypeOK
    <3> QED
      BY <3>1, <3>2, StateValues
  <2> QED
    BY <2>1, <2>2
<1> QED
  BY <1>1, <1>2 DEF Service!Running, InExecution

\* A step that leaves the futures alone and rejects nobody is none of the
\* service's.
LEMMA NothingCommanded ==
    ASSUME IInv, UNCHANGED future,
           \A r \in Requests : (request[r] = "rejected") <=> (request'[r] = "rejected")
    PROVE  UNCHANGED commandOf
BY DEF commandOf

\* A request is rejected before there is a command.
LEMMA RejectStep ==
    ASSUME IInv, NEW r \in Requests, Reject(r) \/ Busy(r)
    PROVE  Service!Reject(r)
<1>1. /\ request \in [Requests -> {"new", "waiting", "answered", "rejected", "gone"}]
      /\ request[r] = "new" /\ request' = [request EXCEPT ![r] = "rejected"]
      /\ future' = future /\ future[r] = "none"
  BY DEF IInv, TypeOK, RequestInv, Reject, Busy, Answer, executorVars
<1>2. commandOf[r] = "arrived"
  BY <1>1, StateValues DEF commandOf
<1>3. commandOf' = [commandOf EXCEPT ![r] = "rejected"]
  BY <1>1 DEF commandOf
<1> QED
  BY <1>2, <1>3 DEF Service!Reject, Service!Becomes

\* A command is executed that was not, and only on a thread that is free: there
\* are at most Capacity.
LEMMA RunStep ==
    ASSUME IInv, TakeCommand
    PROVE  Service!Run(Head(queue))
<1> DEFINE r == Head(queue)
<1>1. /\ r \in Requests /\ future[r] = "pending" /\ UNCHANGED request
      /\ future' = [future EXCEPT ![r] = "running"]
      /\ future \in [Requests -> {"none", "pending", "running", "done", "cancelled"}]
  BY TakeCommandSets DEF IInv, TypeOK, Queued, TakeCommand
<1>2. request[r] # "rejected"
  BY <1>1 DEF IInv, RequestInv
<1>3. commandOf[r] = "arrived"
  BY <1>1, <1>2, StateValues DEF commandOf
<1>4. commandOf' = [commandOf EXCEPT ![r] = "running"]
  BY <1>1, <1>2, StateValues DEF commandOf
<1>5. Cardinality(InExecution) < Capacity
  <2>1. Cardinality(InExecution) \in Nat
    BY Sets, Counting
  <2> QED
    BY <2>1, CapacityAssumption DEF IInv, TypeOK, TakeCommand
<1>6. Service!Cardinality(Service!Running) < Capacity
  BY <1>5, CommandStates, SameCardinality
<1> QED
  BY <1>3, <1>4, <1>6 DEF Service!Run, Service!Becomes

\* A command ends once.
LEMMA EndStep ==
    ASSUME IInv, NEW r \in Requests, CommandEnds(r)
    PROVE  Service!End(r)
<1>1. /\ future[r] = "running" /\ UNCHANGED request
      /\ future' = [future EXCEPT ![r] = "done"] /\ request[r] # "rejected"
      /\ future \in [Requests -> {"none", "pending", "running", "done", "cancelled"}]
  BY DEF IInv, TypeOK, RequestInv, CommandEnds
<1>2. commandOf[r] = "running"
  BY <1>1, StateValues DEF commandOf
<1>3. commandOf' = [commandOf EXCEPT ![r] = "ended"]
  BY <1>1, StateValues DEF commandOf
<1> QED
  BY <1>2, <1>3 DEF Service!End, Service!Becomes

\* close() kills what no thread has taken.
LEMMA KillStep ==
    ASSUME IInv, Close
    PROVE  Service!Kill(Queued)
<1>1. \A r \in Queued : r \in Requests /\ future[r] = "pending" /\ request[r] # "rejected"
  BY DEF IInv, RequestInv, Queued
<1>2. \A r \in Queued : commandOf[r] = "arrived"
  BY <1>1, StateValues DEF commandOf
<1>3. /\ UNCHANGED request
      /\ future' = [r \in Requests |-> IF r \in Queued THEN "cancelled" ELSE future[r]]
  BY DEF Close
<1>4. commandOf' = [r \in Requests |-> IF r \in Queued THEN "killed" ELSE commandOf[r]]
  BY <1>1, <1>3, StateValues DEF commandOf
<1> QED
  BY <1>2, <1>4 DEF Service!Kill

\* A command that was just submitted, with or without a thread for it, is still
\* to be executed.
LEMMA SubmitStep ==
    ASSUME IInv, NEW r \in Requests, Submit(r) \/ SubmitRaises(r)
    PROVE  UNCHANGED commandOf
<1>1. /\ request \in [Requests -> {"new", "waiting", "answered", "rejected", "gone"}]
      /\ future \in [Requests -> {"none", "pending", "running", "done", "cancelled"}]
      /\ request[r] = "new" /\ future[r] = "none"
      /\ future' = [future EXCEPT ![r] = "pending"]
      /\ \E state \in {"waiting", "answered"} : request' = [request EXCEPT ![r] = state]
  BY DEF IInv, TypeOK, RequestInv, Submit, SubmitRaises, Answer
<1>2. \A q \in Requests : commandOf'[q] = commandOf[q]
  <2> SUFFICES ASSUME NEW q \in Requests PROVE commandOf'[q] = commandOf[q]
    OBVIOUS
  <2>1. CASE q = r
    BY <1>1, <2>1, StateValues DEF commandOf
  <2>2. CASE q # r
    BY <1>1, <2>2 DEF commandOf
  <2> QED
    BY <2>1, <2>2
<1> QED
  BY <1>2 DEF commandOf

\* Every step of the runner is one of the service's, or none.
LEMMA ServiceNext ==
    ASSUME IInv, [Next]_vars
    PROVE  [Service!Next]_commandOf
<1> DEFINE Goal == [Service!Next]_commandOf
<1>1. ASSUME NEW r \in Requests, Submit(r) \/ SubmitRaises(r) PROVE Goal
  BY <1>1, SubmitStep
<1>2. ASSUME NEW r \in Requests, WaitEnds(r) \/ WaitAbandoned(r) PROVE Goal
  BY <1>2, NothingCommanded DEF WaitEnds, WaitAbandoned, Answer, IInv, TypeOK
<1>3. ASSUME NEW r \in Requests, CommandEnds(r) PROVE Goal
  BY <1>3, EndStep DEF Service!Next
<1>4. CASE TakeCommand
  BY <1>4, RunStep, TakeCommandSets DEF Service!Next, Queued
<1>5. CASE Close
  BY <1>5, KillStep, Sets DEF Service!Next
<1>6. ASSUME NEW r \in Requests, Reject(r) \/ Busy(r) PROVE Goal
  BY <1>6, RejectStep DEF Service!Next
<1>7. CASE Refill \/ CountIdle \/ Idle \/ UNCHANGED vars
  BY <1>7, NothingCommanded DEF Refill, CountIdle, Idle, vars
<1> QED
  BY <1>1, <1>2, <1>3, <1>4, <1>5, <1>6, <1>7, NextCases DEF OtherStep

\* The executor, its slots and its threads execute the commands as the service
\* promises the backend: each at most once, at most Capacity at a time, and none
\* that was refused or cancelled (run_with_timeout, close).
THEOREM Implementation == Spec => ImplementsCommandService
<1>1. Init => Service!Init
  BY DEF Init, Service!Init, commandOf, StateOf
<1>2. IInv /\ [Next]_vars => [Service!Next]_commandOf
  BY ServiceNext
<1> QED
  BY <1>1, <1>2, AdmissionInvariant, PTL DEF Spec, ImplementsCommandService, Service!Spec
=============================================================================
