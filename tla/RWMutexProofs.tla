--------------------------- MODULE RWMutexProofs ---------------------------
(***************************************************************************)
(* ReadWriteMutex implements a read/write lock, for every number of        *)
(* threads.  The methods decide on counters and the promise is about sets  *)
(* of threads, so the inductive invariant is that the counters are exact.  *)
(***************************************************************************)
EXTENDS RWMutex, FiniteSetTheorems, TLAPS

TypeInv ==
    /\ m_policy \in Policies
    /\ m_numQueued \in [Kinds -> Nat] /\ m_numActive \in [Kinds -> Nat]
    /\ pc \in [Threads -> {"idle", "queued", "holding"}]
    /\ kind \in [Threads -> Kinds]
    /\ asleep \in [Threads -> BOOLEAN]
    /\ timed \in [Threads -> BOOLEAN]
    /\ expired \in [Threads -> BOOLEAN]

IInv == TypeInv /\ CountsExact

\* The threads in a queue or inside the mutex are finitely many.
LEMMA Finite ==
    ASSUME NEW k
    PROVE  /\ IsFiniteSet(Queued(k)) /\ IsFiniteSet(Holding(k))
           /\ Cardinality(Queued(k)) \in Nat /\ Cardinality(Holding(k)) \in Nat
           /\ Cardinality(Queued(k)) <= Cardinality(Threads)
           /\ Cardinality(Holding(k)) <= Cardinality(Threads)
<1>1. Queued(k) \in SUBSET Threads /\ Holding(k) \in SUBSET Threads
  BY DEF Queued, Holding
<1>2. IsFiniteSet(Threads)
  BY RWMutexAssumption
<1> QED
  BY <1>1, <1>2, FS_Subset, FS_CardinalityType

\* With exact counters, a half whose counter is zero is empty.
LEMMA NoneActive ==
    ASSUME IInv, NEW k \in Kinds, ~(m_numActive[k] > 0)
    PROVE  Holding(k) = {}
<1>1. m_numActive[k] = Cardinality(Holding(k)) /\ m_numActive[k] \in Nat
  BY DEF IInv, TypeInv, CountsExact
<1>2. Cardinality(Holding(k)) = 0
  BY <1>1
<1> QED
  BY <1>2, Finite, FS_EmptySet

\* A thread that shouldQueueReader or shouldQueueWriter lets pass finds no writer
\* inside, and a writer finds nobody.
LEMMA Admitted ==
    ASSUME IInv, NEW k \in Kinds, ~ShouldQueue(k)
    PROVE  Holding("writer") = {} /\ (k = "writer" => Holding("reader") = {})
<1>1. ~(m_numActive["writer"] > 0) /\ (k = "writer" => ~(m_numActive["reader"] > 0))
  BY DEF ShouldQueue, shouldQueueReader, shouldQueueWriter, Kinds
<1> QED
  BY <1>1, NoneActive DEF Kinds

-----------------------------------------------------------------------------
(* What each operation does to the sets of threads *)

\* A thread enters the mutex, from outside or from the queue.
LEMMA EnterSets ==
    ASSUME TypeInv, NEW t \in Threads, NEW k \in Kinds,
           Acquire(t, k) \/ (Granted(t) /\ k = kind[t])
    PROVE  /\ t \notin Holding(k) /\ Holding(k)' = Holding(k) \cup {t}
           /\ \A j \in Kinds \ {k} : Holding(j)' = Holding(j)
           /\ \A j \in Kinds : Queued(j)' = Queued(j) \ {t}
<1> QED
  BY DEF TypeInv, Acquire, Granted, Holding, Queued

\* A thread leaves the mutex.
LEMMA UnlockSets ==
    ASSUME TypeInv, NEW t \in Threads, NEW k \in Kinds, k = kind[t], Unlock(t)
    PROVE  /\ t \in Holding(k) /\ Holding(k)' = Holding(k) \ {t}
           /\ \A j \in Kinds \ {k} : Holding(j)' = Holding(j)
           /\ \A j \in Kinds : Queued(j)' = Queued(j)
<1> QED
  BY DEF TypeInv, Unlock, Holding, Queued

\* A thread queues.
LEMMA EnqueueSets ==
    ASSUME TypeInv, NEW t \in Threads, NEW k \in Kinds, NEW b \in BOOLEAN, Enqueue(t, k, b)
    PROVE  /\ t \notin Queued(k) /\ Queued(k)' = Queued(k) \cup {t}
           /\ \A j \in Kinds \ {k} : Queued(j)' = Queued(j)
           /\ \A j \in Kinds : Holding(j)' = Holding(j)
<1> QED
  BY DEF TypeInv, Enqueue, Holding, Queued

\* A thread gives up.
LEMMA GiveUpSets ==
    ASSUME TypeInv, NEW t \in Threads, NEW k \in Kinds, k = kind[t], GiveUp(t)
    PROVE  /\ t \in Queued(k) /\ Queued(k)' = Queued(k) \ {t}
           /\ \A j \in Kinds \ {k} : Queued(j)' = Queued(j)
           /\ \A j \in Kinds : Holding(j)' = Holding(j)
<1> QED
  BY DEF TypeInv, GiveUp, Holding, Queued

\* Waking, sleeping and the clock move no thread.
WaitStep(t) == WaitAgain(t) \/ Elapse(t) \/ TimedOut(t) \/ Spurious(t)

\* Queues and holders stay the same in such a step.
LEMMA WaitSets ==
    ASSUME NEW t \in Threads, WaitStep(t)
    PROVE  \A j \in Kinds : Queued(j)' = Queued(j) /\ Holding(j)' = Holding(j)
<1> QED
  BY DEF WaitStep, WaitAgain, Elapse, TimedOut, Spurious, Holding, Queued

\* A step of Next, by what it does to the sets.
LEMMA NextCases ==
    ASSUME TypeInv, Next
    PROVE  \E t \in Threads :
              \/ \E k \in Kinds : Acquire(t, k) \/ (Granted(t) /\ k = kind[t])
              \/ \E k \in Kinds, b \in BOOLEAN : Enqueue(t, k, b)
              \/ GiveUp(t) \/ WaitStep(t) \/ Unlock(t)
<1> QED
  BY DEF TypeInv, Next, Retest, WaitStep

-----------------------------------------------------------------------------
(* The invariant *)

\* A new mutex has nobody in it.
LEMMA InitInv == Init => IInv
<1> SUFFICES ASSUME Init PROVE IInv
    OBVIOUS
<1>1. TypeInv
  BY DEF Init, TypeInv, Kinds
<1>2. ASSUME NEW k \in Kinds
      PROVE  Queued(k) = {} /\ Holding(k) = {}
  BY DEF Init, Queued, Holding
<1>3. CountsExact
  BY <1>2, FS_EmptySet DEF Init, CountsExact
<1> QED
  BY <1>1, <1>3 DEF IInv

\* Every step keeps the types, the counters staying natural because a thread that
\* leaves was counted.
LEMMA TypeStep ==
    ASSUME IInv, NEW t \in Threads
    PROVE  /\ \A k \in Kinds : Acquire(t, k) => TypeInv'
           /\ \A k \in Kinds, b \in BOOLEAN : Enqueue(t, k, b) => TypeInv'
           /\ Granted(t) \/ GiveUp(t) \/ WaitStep(t) \/ Unlock(t) => TypeInv'
<1> USE DEF IInv, TypeInv
<1>1. ASSUME NEW S, NEW x \in S, IsFiniteSet(S) PROVE Cardinality(S) # 0
  BY <1>1, FS_EmptySet
<1>2. ASSUME pc[t] = "queued" PROVE m_numQueued[kind[t]] \in Nat \ {0}
  <2>1. t \in Queued(kind[t]) /\ kind[t] \in Kinds
    BY <1>2 DEF Queued
  <2> QED
    BY <2>1, <1>1, Finite DEF CountsExact
<1>3. ASSUME pc[t] = "holding" PROVE m_numActive[kind[t]] \in Nat \ {0}
  <2>1. t \in Holding(kind[t]) /\ kind[t] \in Kinds
    BY <1>3 DEF Holding
  <2> QED
    BY <2>1, <1>1, Finite DEF CountsExact
<1>4. ASSUME NEW k \in Kinds, Acquire(t, k) PROVE TypeInv'
  BY <1>4 DEF Acquire
<1>5. ASSUME NEW k \in Kinds, NEW b \in BOOLEAN, Enqueue(t, k, b) PROVE TypeInv'
  BY <1>5 DEF Enqueue
<1>6. CASE Granted(t)
  BY <1>6, <1>2 DEF Granted
<1>7. CASE GiveUp(t)
  BY <1>7, <1>2 DEF GiveUp
<1>8. CASE WaitStep(t)
  BY <1>8 DEF WaitStep, WaitAgain, Elapse, TimedOut, Spurious
<1>9. CASE Unlock(t)
  <2>1. asleep' \in [Threads -> BOOLEAN]
    BY <1>9 DEF Unlock, AfterReader, AfterWriter, notify, notifyAll, Sleeping, Queued
  <2> QED
    BY <2>1, <1>9, <1>3 DEF Unlock
<1> QED
  BY <1>4, <1>5, <1>6, <1>7, <1>8, <1>9

\* Every step changes the counters the way it changes the sets.
LEMMA CountStep ==
    ASSUME IInv, Next
    PROVE  CountsExact'
<1> USE DEF IInv
<1>1. PICK t \in Threads :
              \/ \E k \in Kinds : Acquire(t, k) \/ (Granted(t) /\ k = kind[t])
              \/ \E k \in Kinds, b \in BOOLEAN : Enqueue(t, k, b)
              \/ GiveUp(t) \/ WaitStep(t) \/ Unlock(t)
  BY NextCases
<1>k. kind[t] \in Kinds /\ m_numQueued \in [Kinds -> Nat] /\ m_numActive \in [Kinds -> Nat]
  BY DEF TypeInv
<1>2. ASSUME NEW k \in Kinds, Acquire(t, k) PROVE CountsExact'
  <2>1. t \notin Queued("reader") /\ t \notin Queued("writer")
    BY <1>2 DEF Acquire, Queued
  <2>2. \A j \in Kinds : Queued(j)' = Queued(j)
    BY <2>1, <1>2, EnterSets DEF Kinds
  <2>3. Cardinality(Holding(k)') = Cardinality(Holding(k)) + 1
    BY <1>2, EnterSets, Finite, FS_AddElement
  <2>4. \A j \in Kinds \ {k} : Holding(j)' = Holding(j)
    BY <1>2, EnterSets
  <2> QED
    BY <1>2, <1>k, <2>2, <2>3, <2>4 DEF Acquire, CountsExact
<1>3. ASSUME NEW k \in Kinds, k = kind[t], Granted(t) PROVE CountsExact'
  <2>1. Cardinality(Holding(k)') = Cardinality(Holding(k)) + 1
    BY <1>3, EnterSets, Finite, FS_AddElement
  <2>2. t \in Queued(k) /\ \A j \in Kinds \ {k} : t \notin Queued(j)
    BY <1>3 DEF Granted, Queued
  <2>3. Cardinality(Queued(k)') = Cardinality(Queued(k)) - 1
    BY <1>3, <2>2, EnterSets, Finite, FS_RemoveElement
  <2>4. \A j \in Kinds \ {k} : Queued(j)' = Queued(j) /\ Holding(j)' = Holding(j)
    BY <1>3, <2>2, EnterSets
  <2> QED
    BY <1>3, <1>k, <2>1, <2>3, <2>4 DEF Granted, CountsExact
<1>4. ASSUME NEW k \in Kinds, NEW b \in BOOLEAN, Enqueue(t, k, b) PROVE CountsExact'
  <2>1. Cardinality(Queued(k)') = Cardinality(Queued(k)) + 1
    BY <1>4, EnqueueSets, Finite, FS_AddElement
  <2> QED
    BY <1>4, <1>k, <2>1, EnqueueSets DEF Enqueue, CountsExact
<1>5. ASSUME NEW k \in Kinds, k = kind[t], GiveUp(t) PROVE CountsExact'
  <2>1. Cardinality(Queued(k)') = Cardinality(Queued(k)) - 1
    BY <1>5, GiveUpSets, Finite, FS_RemoveElement
  <2> QED
    BY <1>5, <1>k, <2>1, GiveUpSets DEF GiveUp, CountsExact
<1>6. CASE WaitStep(t)
  BY <1>6, WaitSets DEF WaitStep, WaitAgain, Elapse, TimedOut, Spurious, CountsExact
<1>7. ASSUME NEW k \in Kinds, k = kind[t], Unlock(t) PROVE CountsExact'
  <2>1. Cardinality(Holding(k)') = Cardinality(Holding(k)) - 1
    BY <1>7, UnlockSets, Finite, FS_RemoveElement
  <2> QED
    BY <1>7, <1>k, <2>1, UnlockSets DEF Unlock, CountsExact
<1> QED
  BY <1>1, <1>k, <1>2, <1>3, <1>4, <1>5, <1>6, <1>7

\* Every step keeps the invariant.
LEMMA NextInv == IInv /\ [Next]_vars => IInv'
<1>1. ASSUME IInv, Next PROVE IInv'
  <2>1. TypeInv'
    BY <1>1, TypeStep, NextCases DEF IInv
  <2> QED
    BY <1>1, <2>1, CountStep DEF IInv
<1>2. ASSUME IInv, UNCHANGED vars PROVE IInv'
  BY <1>2 DEF IInv, TypeInv, CountsExact, Queued, Holding, vars
<1> QED
  BY <1>1, <1>2

-----------------------------------------------------------------------------
(* Theorems *)

\* m_numQueuedReaders, m_numQueuedWriters, m_numActiveReaders and m_numActiveWriters
\* are exact through every call, early return and timeout, and bounded by the threads.
THEOREM Counts == Spec => [](TypeOK /\ CountsExact)
<1>1. Init => IInv
  BY InitInv
<1>2. IInv /\ [Next]_vars => IInv'
  BY NextInv
<1>3. IInv => TypeOK /\ CountsExact
  <2> SUFFICES ASSUME IInv PROVE TypeOK /\ CountsExact
    OBVIOUS
  <2>1. \A k \in Kinds : /\ m_numQueued[k] \in 0 .. Cardinality(Threads)
                         /\ m_numActive[k] \in 0 .. Cardinality(Threads)
    <3>1. Cardinality(Threads) \in Nat
      BY RWMutexAssumption, FS_CardinalityType
    <3> QED
      BY <3>1, Finite DEF IInv, CountsExact
  <2> QED
    BY <2>1 DEF IInv, TypeInv, TypeOK
<1> QED
  BY <1>1, <1>2, <1>3, PTL DEF Spec

\* No counter is negative or exceeds the number of threads.
THEOREM TypeCorrect == Spec => []TypeOK
<1> QED
  BY Counts, PTL

\* Every step of the mutex is a step of a read/write lock, or changes no holder.
LEMMA StepRefines ==
    ASSUME IInv, [Next]_vars
    PROVE  [Abs!Next]_(Abs!vars)
<1> USE DEF IInv
<1>1. CASE UNCHANGED vars
  BY <1>1 DEF vars, Abs!vars, Holding
<1>2. CASE Next
  <2>1. PICK t \in Threads :
              \/ \E k \in Kinds : Acquire(t, k) \/ (Granted(t) /\ k = kind[t])
              \/ \E k \in Kinds, b \in BOOLEAN : Enqueue(t, k, b)
              \/ GiveUp(t) \/ WaitStep(t) \/ Unlock(t)
    BY <1>2, NextCases
  <2>2. ASSUME NEW k \in Kinds, Acquire(t, k) \/ (Granted(t) /\ k = kind[t])
        PROVE  Abs!BeginRead(t) \/ Abs!BeginWrite(t)
    <3>1. ~ShouldQueue(k)
      BY <2>2 DEF Acquire, Granted
    <3>2. Holding("writer") = {} /\ (k = "writer" => Holding("reader") = {})
      BY <3>1, Admitted
    <3>3. CASE k = "reader"
      <4>1. t \notin Holding("reader") /\ Holding("reader")' = Holding("reader") \cup {t}
        BY <2>2, <3>3, EnterSets
      <4>2. Holding("writer")' = Holding("writer")
        BY <2>2, <3>3, EnterSets DEF Kinds
      <4> QED
        BY <3>2, <4>1, <4>2 DEF Abs!BeginRead
    <3>4. CASE k = "writer"
      <4>1. Holding("writer")' = {t} /\ Holding("reader")' = Holding("reader")
        BY <2>2, <3>2, <3>4, EnterSets DEF Kinds
      <4> QED
        BY <3>2, <3>4, <4>1 DEF Abs!BeginWrite
    <3> QED
      BY <3>3, <3>4 DEF Kinds
  <2>3. CASE Unlock(t)
    <3>1. ASSUME kind[t] = "reader" PROVE Abs!EndRead(t)
      <4>1. t \in Holding("reader") /\ Holding("reader")' = Holding("reader") \ {t}
        BY <2>3, <3>1, UnlockSets DEF Kinds
      <4>2. Holding("writer")' = Holding("writer")
        BY <2>3, <3>1, UnlockSets DEF Kinds
      <4> QED
        BY <4>1, <4>2 DEF Abs!EndRead
    <3>2. ASSUME kind[t] = "writer" PROVE Abs!EndWrite(t)
      <4>1. t \in Holding("writer") /\ Holding("writer")' = Holding("writer") \ {t}
        BY <2>3, <3>2, UnlockSets DEF Kinds
      <4>2. Holding("reader")' = Holding("reader")
        BY <2>3, <3>2, UnlockSets DEF Kinds
      <4> QED
        BY <4>1, <4>2 DEF Abs!EndWrite
    <3>3. Abs!EndRead(t) \/ Abs!EndWrite(t)
      BY <3>1, <3>2 DEF TypeInv, Kinds
    <3> QED
      BY <3>3 DEF Abs!Next
  <2>4. ASSUME NEW k \in Kinds, NEW b \in BOOLEAN, Enqueue(t, k, b)
        PROVE  UNCHANGED Abs!vars
    BY <2>4, EnqueueSets DEF Abs!vars, Kinds
  <2>5. CASE GiveUp(t) \/ WaitStep(t)
    BY <2>5, GiveUpSets, WaitSets DEF TypeInv, Abs!vars, Kinds
  <2> QED
    BY <2>1, <2>2, <2>3, <2>4, <2>5 DEF Abs!Next
<1> QED
  BY <1>1, <1>2

\* The mutex is a read/write lock: writers exclude everybody, readers exclude writers,
\* under both policies and for any number of threads.
THEOREM Implementation == Spec => ImplementsRWLock
<1>1. Init => IInv /\ Abs!Init
  <2>1. Init => Abs!Init
    BY DEF Init, Abs!Init, Holding
  <2> QED
    BY <2>1, InitInv
<1>2. IInv /\ [Next]_vars => IInv'
  BY NextInv
<1>3. IInv /\ [Next]_vars => [Abs!Next]_(Abs!vars)
  BY StepRefines
<1> QED
  BY <1>1, <1>2, <1>3, PTL DEF Spec, ImplementsRWLock, Abs!Spec
-----------------------------------------------------------------------------
(* No wakeup is lost, if no writer times out under PREFER_WRITERS *)

Free == Holding("reader") = {} /\ Holding("writer") = {}
Awake(k) == Queued(k) \ Sleeping(k)

\* Without a writer in their way all queued readers are awake; a free lock that writers
\* may take has a writer awake; and preferred writers do not time out.
WakeInv ==
    /\ Holding("writer") = {} /\ (m_policy = "PREFER_READERS" \/ Queued("writer") = {})
          => Sleeping("reader") = {}
    /\ Free /\ Queued("writer") # {} /\ (m_policy = "PREFER_WRITERS" \/ Queued("reader") = {})
          => Awake("writer") # {}
    /\ m_policy = "PREFER_WRITERS" => \A t \in Queued("writer") : ~timed[t]

\* With exact counters, shouldQueueReader and shouldQueueWriter ask about sets.
LEMMA QueueTest ==
    ASSUME IInv
    PROVE  /\ \A k \in Kinds : /\ m_numActive[k] > 0 <=> Holding(k) # {}
                               /\ m_numQueued[k] > 0 <=> Queued(k) # {}
           /\ ShouldQueue("reader") <=>
                 Holding("writer") # {} \/ (m_policy = "PREFER_WRITERS" /\ Queued("writer") # {})
           /\ ShouldQueue("writer") <=>
                 ~Free \/ (m_policy = "PREFER_READERS" /\ Queued("reader") # {})
<1>1. ASSUME NEW S, IsFiniteSet(S) PROVE Cardinality(S) > 0 <=> S # {}
  <2>1. Cardinality(S) \in Nat /\ (Cardinality(S) = 0 <=> S = {})
    BY <1>1, FS_CardinalityType, FS_EmptySet
  <2> QED
    BY <2>1
<1>2. \A k \in Kinds : /\ m_numActive[k] > 0 <=> Holding(k) # {}
                       /\ m_numQueued[k] > 0 <=> Queued(k) # {}
  BY <1>1, Finite DEF IInv, CountsExact
<1> QED
  BY <1>2 DEF ShouldQueue, shouldQueueReader, shouldQueueWriter, Kinds, Free

\* What unlock wakes.
LEMMA Wakes ==
    ASSUME IInv, NEW t \in Threads, Unlock(t)
    PROVE  /\ \A k \in Kinds : Sleeping(k)' \subseteq Sleeping(k)
           /\ Holding("writer") # {} /\ Holding("writer")' = {} =>
                 IF m_policy = "PREFER_READERS"
                   THEN /\ Sleeping("reader")' = {}
                        /\ Queued("reader") = {} /\ Queued("writer") # {} => Awake("writer")' # {}
                   ELSE IF Queued("writer") = {} THEN Sleeping("reader")' = {}
                        ELSE Awake("writer")' # {}
           /\ Free' /\ kind[t] = "reader" /\ Queued("writer") # {} => Awake("writer")' # {}
<1>k. PICK k0 \in Kinds : k0 = kind[t]
  BY DEF IInv, TypeInv
<1>0. /\ TypeInv /\ k0 \in Kinds /\ t \in Holding(k0) /\ Holding(k0)' = Holding(k0) \ {t}
      /\ \A j \in Kinds \ {k0} : Holding(j)' = Holding(j)
      /\ \A j \in Kinds : Queued(j)' = Queued(j)
  BY <1>k, UnlockSets DEF IInv
<1>1. ASSUME NEW k \in Kinds, notify(k)
      PROVE  /\ \A j \in Kinds : Sleeping(j)' \subseteq Sleeping(j)
             /\ Queued(k) # {} => Awake(k)' # {}
  <2>1. CASE Sleeping(k) = {}
    <3>1. UNCHANGED asleep
      BY <1>1, <2>1 DEF notify
    <3> QED
      BY <1>0, <2>1, <3>1 DEF Sleeping, Awake
  <2>2. CASE Sleeping(k) # {}
    <3>1. PICK u \in Sleeping(k) : asleep' = [asleep EXCEPT ![u] = FALSE]
      BY <1>1, <2>2 DEF notify
    <3>2. u \in Queued(k) /\ u \in Threads
      BY <3>1 DEF Sleeping, Queued
    <3>3. asleep'[u] = FALSE /\ \A v \in Threads : asleep'[v] => asleep[v]
      BY <1>0, <3>1, <3>2 DEF TypeInv
    <3>4. u \in Awake(k)'
      BY <1>0, <3>2, <3>3 DEF Sleeping, Awake
    <3>5. \A j \in Kinds : Sleeping(j)' \subseteq Sleeping(j)
      BY <1>0, <3>3 DEF Sleeping, Queued
    <3> QED
      BY <3>4, <3>5
  <2> QED
    BY <2>1, <2>2
<1>2. ASSUME notifyAll("reader")
      PROVE  /\ \A j \in Kinds : Sleeping(j)' \subseteq Sleeping(j)
             /\ Sleeping("reader")' = {}
  <2>1. \A v \in Threads : asleep'[v] = (asleep[v] /\ v \notin Sleeping("reader"))
    BY <1>2 DEF notifyAll
  <2>2. \A j \in Kinds : Queued(j)' = Queued(j) /\ Queued(j) \subseteq Threads
    BY <1>0 DEF Queued
  <2> QED
    BY <2>1, <2>2 DEF Sleeping, Kinds
<1>3. ASSUME UNCHANGED asleep PROVE \A j \in Kinds : Sleeping(j)' = Sleeping(j)
  BY <1>0, <1>3 DEF Sleeping
<1>4. \A k \in Kinds : /\ m_numActive[k] > 0 <=> Holding(k) # {}
                       /\ m_numQueued[k] > 0 <=> Queued(k) # {}
  BY QueueTest
<1>5. Holding(k0)' = {} => m_numActive[k0] - 1 < 1
  <2>1. ASSUME Holding(k0)' = {} PROVE m_numActive[k0] = 1
    <3>1. Holding(k0) = {t}
      BY <1>0, <2>1
    <3>2. Cardinality(Holding(k0)) = 1
      BY <3>1, FS_Singleton
    <3> QED
      BY <1>0, <3>2 DEF IInv, CountsExact
  <2> QED
    BY <2>1
<1>6. CASE k0 = "reader"
  <2>1. AfterReader
    BY <1>k, <1>6 DEF Unlock
  <2>2. \A k \in Kinds : Sleeping(k)' \subseteq Sleeping(k)
    BY <2>1, <1>1, <1>3 DEF AfterReader, Kinds
  <2>3. Holding("writer")' = Holding("writer")
    BY <1>0, <1>6 DEF Kinds
  <2>4. ASSUME Free', Queued("writer") # {} PROVE Awake("writer")' # {}
    <3>1. Holding("reader")' = {}
      BY <2>4 DEF Free
    <3>2. notify("writer")
      BY <1>4, <1>5, <1>6, <2>1, <2>4, <3>1 DEF AfterReader, Kinds
    <3> QED
      BY <1>1, <2>4, <3>2 DEF Kinds
  <2> QED
    BY <1>k, <1>6, <2>2, <2>3, <2>4
<1>7. CASE k0 = "writer"
  <2>1. \/ AfterWriter
        \/ ~(m_numActive["writer"] - 1 < 1) /\ UNCHANGED asleep
    BY <1>k, <1>7 DEF Unlock
  <2>2. ASSUME AfterWriter
        PROVE  \/ m_policy = "PREFER_READERS" /\ Queued("reader") # {} /\ notifyAll("reader")
               \/ m_policy = "PREFER_WRITERS" /\ Queued("writer") # {} /\ notify("writer")
               \/ /\ m_policy = "PREFER_READERS" /\ Queued("reader") = {} /\ Queued("writer") # {}
                  /\ notify("writer")
               \/ /\ m_policy = "PREFER_WRITERS" /\ Queued("writer") = {} /\ Queued("reader") # {}
                  /\ notifyAll("reader")
               \/ Queued("writer") = {} /\ Queued("reader") = {} /\ UNCHANGED asleep
    BY <1>0, <1>4, <2>2 DEF AfterWriter, TypeInv, Policies, Kinds
  <2>3. \A k \in Kinds : Sleeping(k)' \subseteq Sleeping(k)
    BY <1>1, <1>2, <1>3, <2>1, <2>2 DEF Kinds
  <2>4. Sleeping("reader")' \subseteq Queued("reader")
    BY <1>0 DEF Sleeping, Kinds
  <2>5. ASSUME Holding("writer")' = {}
        PROVE  IF m_policy = "PREFER_READERS"
                 THEN /\ Sleeping("reader")' = {}
                      /\ Queued("reader") = {} /\ Queued("writer") # {} => Awake("writer")' # {}
                 ELSE IF Queued("writer") = {} THEN Sleeping("reader")' = {}
                      ELSE Awake("writer")' # {}
    <3>1. AfterWriter
      BY <1>5, <1>7, <2>1, <2>5
    <3>2. "reader" \in Kinds /\ "writer" \in Kinds
      BY DEF Kinds
    <3> QED
      BY <1>1, <1>2, <2>2, <2>4, <3>1, <3>2
  <2> QED
    BY <1>k, <1>7, <2>3, <2>5
<1> QED
  BY <1>0, <1>6, <1>7 DEF Kinds

\* Every step preserves WakeInv.
LEMMA WakeStep ==
    ASSUME IInv, WakeInv, Next, ~WriterTimeouts
    PROVE  WakeInv'
<1>1. PICK t \in Threads :
              \/ \E k \in Kinds : Acquire(t, k) \/ (Granted(t) /\ k = kind[t])
              \/ \E k \in Kinds, b \in BOOLEAN : Enqueue(t, k, b)
              \/ GiveUp(t) \/ WaitStep(t) \/ Unlock(t)
  BY NextCases DEF IInv
<1>2. TypeInv /\ kind[t] \in Kinds
  BY DEF IInv, TypeInv
<1>k. Kinds = {"reader", "writer"}
  BY DEF Kinds
<1>q. /\ ShouldQueue("reader") <=>
            Holding("writer") # {} \/ (m_policy = "PREFER_WRITERS" /\ Queued("writer") # {})
      /\ ShouldQueue("writer") <=>
            ~Free \/ (m_policy = "PREFER_READERS" /\ Queued("reader") # {})
  BY QueueTest
<1>p. m_policy' = m_policy /\ m_policy \in {"PREFER_READERS", "PREFER_WRITERS"}
  BY <1>1, <1>2 DEF Acquire, Granted, Enqueue, GiveUp, WaitStep, WaitAgain, Elapse, TimedOut,
                    Spurious, Unlock, TypeInv, Policies
<1>3. ASSUME NEW k \in Kinds, Acquire(t, k) \/ (Granted(t) /\ k = kind[t]) PROVE WakeInv'
  <2>1. /\ Holding(k)' = Holding(k) \cup {t}
        /\ \A j \in Kinds \ {k} : Holding(j)' = Holding(j)
        /\ \A j \in Kinds : Queued(j)' = Queued(j) \ {t}
    BY <1>2, <1>3, EnterSets
  <2>2. \A u \in Threads \ {t} : timed'[u] = timed[u]
    BY <1>2, <1>3 DEF Acquire, Granted, TypeInv
  <2>3. UNCHANGED asleep /\ ~ShouldQueue(k)
    BY <1>3 DEF Acquire, Granted
  <2>4. ~Free'
    BY <1>k, <2>1 DEF Free
  <2>5. m_policy = "PREFER_WRITERS" => \A u \in Queued("writer")' : ~timed'[u]
    BY <1>k, <2>1, <2>2 DEF WakeInv, Queued
  <2>6. Sleeping("reader")' \subseteq Sleeping("reader")
    BY <1>k, <2>1, <2>3 DEF Sleeping
  <2>7. k = "reader" => Sleeping("reader") = {}
    BY <1>q, <1>p, <2>3 DEF WakeInv
  <2> QED
    BY <1>k, <1>p, <2>1, <2>4, <2>5, <2>6, <2>7 DEF WakeInv
<1>4. ASSUME NEW k \in Kinds, NEW b \in BOOLEAN, Enqueue(t, k, b) PROVE WakeInv'
  <2>1. /\ t \notin Queued(k) /\ Queued(k)' = Queued(k) \cup {t}
        /\ \A j \in Kinds \ {k} : Queued(j)' = Queued(j)
        /\ \A j \in Kinds : Holding(j)' = Holding(j)
    BY <1>2, <1>4, EnqueueSets
  <2>2. /\ \A u \in Threads \ {t} : timed'[u] = timed[u] /\ asleep'[u] = asleep[u]
        /\ timed'[t] = b /\ ShouldQueue(k) /\ pc[t] = "idle"
        /\ k = "writer" /\ m_policy = "PREFER_WRITERS" => b = FALSE
    BY <1>2, <1>4, <1>p DEF Enqueue, TypeInv
  <2>3. \A j \in Kinds : t \notin Queued(j) /\ Queued(j) \subseteq Threads
    BY <2>2 DEF Queued
  <2>4. \A j \in Kinds \ {k} : Sleeping(j)' = Sleeping(j)
    BY <2>1, <2>2, <2>3 DEF Sleeping
  <2>5. Awake(k) \subseteq Awake(k)'
    BY <2>1, <2>2, <2>3 DEF Sleeping, Awake
  <2>6. m_policy = "PREFER_WRITERS" => \A u \in Queued("writer")' : ~timed'[u]
    BY <1>k, <2>1, <2>2, <2>3 DEF WakeInv
  <2>7. CASE k = "reader"
    <3>1. Awake("writer")' = Awake("writer")
      BY <1>k, <2>1, <2>4, <2>7 DEF Awake
    <3> QED
      BY <1>k, <1>p, <1>q, <2>1, <2>2, <2>4, <2>6, <2>7, <3>1 DEF WakeInv, Free
  <2>8. CASE k = "writer"
    BY <1>k, <1>p, <1>q, <2>1, <2>2, <2>4, <2>5, <2>6, <2>8 DEF WakeInv, Free
  <2> QED
    BY <1>k, <2>7, <2>8
<1>5. CASE GiveUp(t)
  <2>3. PICK k \in Kinds : k = kind[t]
    BY <1>2
  <2>1. /\ t \in Queued(k) /\ Queued(k)' = Queued(k) \ {t}
        /\ \A j \in Kinds \ {k} : Queued(j)' = Queued(j)
        /\ \A j \in Kinds : Holding(j)' = Holding(j)
    BY <1>2, <1>5, <2>3, GiveUpSets
  <2>2. /\ \A u \in Threads \ {t} : timed'[u] = timed[u]
        /\ timed[t] /\ ShouldQueue(k) /\ UNCHANGED asleep
    BY <1>2, <1>5, <2>3 DEF GiveUp, TypeInv
  <2>4. m_policy = "PREFER_WRITERS" => k = "reader"
    BY <1>k, <2>1, <2>2, <2>3 DEF WakeInv
  <2>5. \A j \in Kinds : Sleeping(j)' \subseteq Sleeping(j) /\ Queued(j)' \subseteq Queued(j)
    BY <2>1, <2>2 DEF Sleeping
  <2>6. m_policy = "PREFER_WRITERS" => \A u \in Queued("writer")' : ~timed'[u]
    BY <1>k, <2>1, <2>2, <2>5 DEF WakeInv, Queued
  <2>7. CASE k = "reader"
    <3>1. Awake("writer")' = Awake("writer") /\ Queued("writer")' = Queued("writer")
      BY <1>k, <2>1, <2>2, <2>7 DEF Awake, Sleeping
    <3> QED
      BY <1>k, <1>p, <1>q, <2>1, <2>2, <2>5, <2>6, <2>7, <3>1 DEF WakeInv, Free
  <2>8. CASE k = "writer"
    <3>1. m_policy = "PREFER_READERS" /\ Queued("reader")' = Queued("reader")
      BY <1>k, <1>p, <2>1, <2>4, <2>8
    <3> QED
      BY <1>k, <1>p, <1>q, <2>1, <2>2, <2>5, <2>8, <3>1 DEF WakeInv, Free
  <2> QED
    BY <1>k, <2>3, <2>7, <2>8
<1>6. CASE WaitStep(t)
  <2>1. \A j \in Kinds : Queued(j)' = Queued(j) /\ Holding(j)' = Holding(j)
    BY <1>6, WaitSets
  <2>2. UNCHANGED timed
    BY <1>6 DEF WaitStep, WaitAgain, Elapse, TimedOut, Spurious
  <2>3. CASE \A u \in Threads : asleep'[u] => asleep[u]
    <3>1. \A j \in Kinds : Sleeping(j)' \subseteq Sleeping(j)
      BY <2>1, <2>3 DEF Sleeping, Queued
    <3>2. \A j \in Kinds : Awake(j) \subseteq Awake(j)'
      BY <2>1, <2>3 DEF Awake, Sleeping, Queued
    <3> QED
      BY <1>k, <1>p, <2>1, <2>2, <3>1, <3>2 DEF WakeInv, Free
  <2>4. CASE WaitAgain(t)
    <3>1. /\ ShouldQueue(kind[t]) /\ t \in Queued(kind[t])
          /\ \A u \in Threads \ {t} : asleep'[u] = asleep[u]
      BY <1>2, <2>4 DEF WaitAgain, Queued, TypeInv
    <3>2. \A j \in Kinds \ {kind[t]} : Sleeping(j)' = Sleeping(j)
      BY <2>1, <3>1 DEF Sleeping, Queued
    <3>3. \A j \in Kinds \ {kind[t]} : Awake(j)' = Awake(j)
      BY <2>1, <3>2 DEF Awake
    <3>4. CASE kind[t] = "reader"
      BY <1>k, <1>p, <1>q, <2>1, <2>2, <3>1, <3>2, <3>3, <3>4 DEF WakeInv, Free
    <3>5. CASE kind[t] = "writer"
      BY <1>k, <1>p, <1>q, <2>1, <2>2, <3>1, <3>2, <3>5 DEF WakeInv, Free
    <3> QED
      BY <1>2, <1>k, <3>4, <3>5
  <2>5. Elapse(t) \/ TimedOut(t) \/ Spurious(t) => \A u \in Threads : asleep'[u] => asleep[u]
    BY <1>2 DEF Elapse, TimedOut, Spurious, TypeInv
  <2> QED
    BY <1>6, <2>3, <2>4, <2>5 DEF WaitStep
<1>7. CASE Unlock(t)
  <2>0. PICK k \in Kinds : k = kind[t]
    BY <1>2
  <2>1. /\ Holding(k)' = Holding(k) \ {t} /\ t \in Holding(k)
        /\ \A j \in Kinds \ {k} : Holding(j)' = Holding(j)
        /\ \A j \in Kinds : Queued(j)' = Queued(j)
    BY <1>2, <1>7, <2>0, UnlockSets
  <2>2. /\ \A j \in Kinds : Sleeping(j)' \subseteq Sleeping(j)
        /\ Holding("writer") # {} /\ Holding("writer")' = {} =>
              IF m_policy = "PREFER_READERS"
                THEN /\ Sleeping("reader")' = {}
                     /\ Queued("reader") = {} /\ Queued("writer") # {} => Awake("writer")' # {}
                ELSE IF Queued("writer") = {} THEN Sleeping("reader")' = {}
                     ELSE Awake("writer")' # {}
        /\ Free' /\ kind[t] = "reader" /\ Queued("writer") # {} => Awake("writer")' # {}
    BY <1>7, Wakes
  <2>3. UNCHANGED timed
    BY <1>7 DEF Unlock
  <2>4. kind[t] = "reader" => Holding("writer")' = Holding("writer")
    BY <1>k, <2>0, <2>1
  <2>5. kind[t] = "writer" => Holding("writer") # {}
    BY <2>0, <2>1
  <2> QED
    BY <1>2, <1>k, <1>p, <2>0, <2>1, <2>2, <2>3, <2>4, <2>5 DEF WakeInv, Free
<1> QED
  BY <1>1, <1>2, <1>3, <1>4, <1>5, <1>6, <1>7

\* When the lock is free and somebody waits for it, somebody is awake to take it, if no
\* writer times out under PREFER_WRITERS.  (If one does, the readers it kept out sleep
\* on: see the run rwmutex_timeout.)
THEOREM WakeupsNotLost == ~WriterTimeouts => (Spec => []NoLostWakeup)
<1> SUFFICES ASSUME ~WriterTimeouts PROVE Spec => []NoLostWakeup
  OBVIOUS
<1>1. Init => IInv /\ WakeInv
  BY InitInv DEF Init, WakeInv, Queued, Sleeping
<1>2. IInv /\ WakeInv /\ [Next]_vars => (IInv /\ WakeInv)'
  <2>1. ASSUME IInv, WakeInv, Next PROVE WakeInv'
    BY <2>1, WakeStep
  <2>2. ASSUME WakeInv, UNCHANGED vars PROVE WakeInv'
    BY <2>2 DEF WakeInv, Free, Awake, Sleeping, Queued, Holding, vars
  <2> QED
    BY <2>1, <2>2, NextInv
<1>3. IInv /\ WakeInv => NoLostWakeup
  <2> SUFFICES ASSUME IInv, WakeInv, Free, Queued("reader") # {} \/ Queued("writer") # {}
               PROVE  Awake("reader") # {} \/ Awake("writer") # {}
    BY DEF NoLostWakeup, Free, Awake, Kinds
  <2>1. m_policy \in {"PREFER_READERS", "PREFER_WRITERS"}
    BY DEF IInv, TypeInv, Policies
  <2> QED
    BY <2>1 DEF WakeInv, Free, Awake
<1> QED
  BY <1>1, <1>2, <1>3, PTL DEF Spec
=============================================================================
