------------------------------ MODULE RWMutex ------------------------------
(***************************************************************************)
(* core.sync.rwmutex.ReadWriteMutex: lock, tryLock, tryLock(timeout) and   *)
(* unlock of its Reader and Writer, plain and shared, under both policies. *)
(*                                                                         *)
(* Every method runs under m_commonMutex, which it gives up only in        *)
(* Condition.wait: a step is what happens between two such points.  The    *)
(* Condition is that of POSIX, one call of pthread_cond_* per method:      *)
(* notify wakes one sleeper and forgets itself when there is none, and a   *)
(* wait may return although nobody notified it.  Its SyncErrors are left   *)
(* out.  Time is abstract: a timeout elapses at any moment after its call. *)
(***************************************************************************)
EXTENDS Integers, FiniteSets

CONSTANTS
    Threads,
    WriterTimeouts   \* do writers call tryLock(timeout) under PREFER_WRITERS?

ASSUME RWMutexAssumption == IsFiniteSet(Threads) /\ WriterTimeouts \in BOOLEAN

Kinds == {"reader", "writer"}
Policies == {"PREFER_READERS", "PREFER_WRITERS"}

VARIABLES
    m_policy,
    m_numQueued,    \* m_numQueuedReaders, m_numQueuedWriters
    m_numActive,    \* m_numActiveReaders, m_numActiveWriters
    pc,             \* out of the mutex, inside lock or tryLock(timeout), or holding it
    kind,           \* which half of the mutex a thread uses
    asleep,         \* in the wait of m_readerQueue or m_writerQueue
    timed,          \* waits in tryLock(timeout) ...
    expired         \* ... and timeElapsed >= timeout

vars == <<m_policy, m_numQueued, m_numActive, pc, kind, asleep, timed, expired>>

Queued(k) == {t \in Threads : pc[t] = "queued" /\ kind[t] = k}
Holding(k) == {t \in Threads : pc[t] = "holding" /\ kind[t] = k}
Sleeping(k) == {t \in Queued(k) : asleep[t]}

\* Counters count threads, locals are what their names say.
TypeOK ==
    /\ m_policy \in Policies
    /\ m_numQueued \in [Kinds -> 0 .. Cardinality(Threads)]
    /\ m_numActive \in [Kinds -> 0 .. Cardinality(Threads)]
    /\ pc \in [Threads -> {"idle", "queued", "holding"}]
    /\ kind \in [Threads -> Kinds]
    /\ asleep \in [Threads -> BOOLEAN]
    /\ timed \in [Threads -> BOOLEAN]
    /\ expired \in [Threads -> BOOLEAN]

Init ==
    /\ m_policy \in Policies
    /\ m_numQueued = [k \in Kinds |-> 0] /\ m_numActive = [k \in Kinds |-> 0]
    /\ pc = [t \in Threads |-> "idle"] /\ kind = [t \in Threads |-> "reader"]
    /\ asleep = [t \in Threads |-> FALSE]
    /\ timed = [t \in Threads |-> FALSE] /\ expired = [t \in Threads |-> FALSE]

-----------------------------------------------------------------------------
(* The policies *)

\* Mutant: a reader does not look at queued writers.
Bug_ReaderBarges == m_numActive["writer"] > 0

shouldQueueReader ==
    \/ m_numActive["writer"] > 0
    \/ m_policy = "PREFER_WRITERS" /\ m_numQueued["writer"] > 0

\* Mutant: a writer forgets the readers inside.
Bug_WriterIgnoresReaders ==
    \/ m_numActive["writer"] > 0
    \/ m_policy = "PREFER_READERS" /\ m_numQueued["reader"] > 0

shouldQueueWriter ==
    \/ m_numActive["writer"] > 0 \/ m_numActive["reader"] > 0
    \/ m_policy = "PREFER_READERS" /\ m_numQueued["reader"] > 0

ShouldQueue(k) == IF k = "reader" THEN shouldQueueReader ELSE shouldQueueWriter

-----------------------------------------------------------------------------
(* lock, tryLock, tryLock(timeout) *)

\* The lock is free for this thread: any of the three calls takes it at once.
Acquire(t, k) ==
    /\ pc[t] = "idle" /\ ~ShouldQueue(k)
    /\ m_numActive' = [m_numActive EXCEPT ![k] = @ + 1]
    /\ pc' = [pc EXCEPT ![t] = "holding"]
    /\ kind' = [kind EXCEPT ![t] = k]
    /\ UNCHANGED <<m_policy, m_numQueued, asleep, timed, expired>>

\* It is not: lock and tryLock(timeout) count themselves and wait.  tryLock, and
\* tryLock(timeout) whose time is over already, return false and change nothing.
Enqueue(t, k, withTimeout) ==
    /\ pc[t] = "idle" /\ ShouldQueue(k)
    /\ withTimeout => k = "reader" \/ WriterTimeouts \/ m_policy = "PREFER_READERS"
    /\ m_numQueued' = [m_numQueued EXCEPT ![k] = @ + 1]
    /\ pc' = [pc EXCEPT ![t] = "queued"]
    /\ kind' = [kind EXCEPT ![t] = k]
    /\ asleep' = [asleep EXCEPT ![t] = TRUE]
    /\ timed' = [timed EXCEPT ![t] = withTimeout]
    /\ UNCHANGED <<m_policy, m_numActive, expired>>

\* The thread is back from wait and the lock is free.
Granted(t) ==
    /\ pc[t] = "queued" /\ ~asleep[t] /\ ~ShouldQueue(kind[t])
    /\ m_numActive' = [m_numActive EXCEPT ![kind[t]] = @ + 1]
    /\ m_numQueued' = [m_numQueued EXCEPT ![kind[t]] = @ - 1]
    /\ pc' = [pc EXCEPT ![t] = "holding"]
    /\ timed' = [timed EXCEPT ![t] = FALSE] /\ expired' = [expired EXCEPT ![t] = FALSE]
    /\ UNCHANGED <<m_policy, kind, asleep>>

\* Mutant: tryLock(timeout) stays counted when it gives up.
Bug_GiveUpStaysCounted(t) ==
    /\ pc[t] = "queued" /\ ~asleep[t] /\ ShouldQueue(kind[t])
    /\ timed[t] /\ expired[t]
    /\ pc' = [pc EXCEPT ![t] = "idle"]
    /\ timed' = [timed EXCEPT ![t] = FALSE] /\ expired' = [expired EXCEPT ![t] = FALSE]
    /\ UNCHANGED <<m_policy, m_numQueued, m_numActive, kind, asleep>>

\* It is not, and tryLock(timeout) has no time left: it returns false.
GiveUp(t) ==
    /\ pc[t] = "queued" /\ ~asleep[t] /\ ShouldQueue(kind[t])
    /\ timed[t] /\ expired[t]
    /\ m_numQueued' = [m_numQueued EXCEPT ![kind[t]] = @ - 1]
    /\ pc' = [pc EXCEPT ![t] = "idle"]
    /\ timed' = [timed EXCEPT ![t] = FALSE] /\ expired' = [expired EXCEPT ![t] = FALSE]
    /\ UNCHANGED <<m_policy, m_numActive, kind, asleep>>

\* It is not, and it waits again.
WaitAgain(t) ==
    /\ pc[t] = "queued" /\ ~asleep[t] /\ ShouldQueue(kind[t])
    /\ ~(timed[t] /\ expired[t])
    /\ asleep' = [asleep EXCEPT ![t] = TRUE]
    /\ UNCHANGED <<m_policy, m_numQueued, m_numActive, pc, kind, timed, expired>>

-----------------------------------------------------------------------------
(* The Condition and the clock *)

\* Condition.notify: one sleeper wakes, if there is one.
notify(k) ==
    IF Sleeping(k) = {} THEN UNCHANGED asleep
    ELSE \E t \in Sleeping(k) : asleep' = [asleep EXCEPT ![t] = FALSE]

\* Condition.notifyAll.
notifyAll(k) == asleep' = [t \in Threads |-> asleep[t] /\ t \notin Sleeping(k)]

\* The timeout of a tryLock(timeout) is over.
Elapse(t) ==
    /\ pc[t] = "queued" /\ timed[t] /\ ~expired[t]
    /\ expired' = [expired EXCEPT ![t] = TRUE]
    /\ UNCHANGED <<m_policy, m_numQueued, m_numActive, pc, kind, asleep, timed>>

\* The wait returns for that reason.
TimedOut(t) ==
    /\ pc[t] = "queued" /\ asleep[t] /\ expired[t]
    /\ asleep' = [asleep EXCEPT ![t] = FALSE]
    /\ UNCHANGED <<m_policy, m_numQueued, m_numActive, pc, kind, timed, expired>>

\* The wait returns for no reason, or because it was cut at maxWaitPerCall.
Spurious(t) ==
    /\ pc[t] = "queued" /\ asleep[t] /\ ~expired[t]
    /\ asleep' = [asleep EXCEPT ![t] = FALSE]
    /\ UNCHANGED <<m_policy, m_numQueued, m_numActive, pc, kind, timed, expired>>

-----------------------------------------------------------------------------
(* unlock *)

\* Mutant: the last reader wakes nobody.
Bug_ReaderWakesNobody == UNCHANGED asleep

\* The last reader lets a writer in.
AfterReader ==
    IF m_numActive["reader"] - 1 < 1 /\ m_numQueued["writer"] > 0
      THEN notify("writer")
      ELSE UNCHANGED asleep

\* A writer wakes the half its policy prefers, or else the other.
AfterWriter ==
    LET wakeReaders == notifyAll("reader")
        wakeWriter == notify("writer")
        readers == m_numQueued["reader"] > 0
        writers == m_numQueued["writer"] > 0
    IN CASE m_policy = "PREFER_READERS" /\ readers -> wakeReaders
         [] m_policy = "PREFER_WRITERS" /\ writers -> wakeWriter
         [] m_policy = "PREFER_READERS" /\ ~readers /\ writers -> wakeWriter
         [] m_policy = "PREFER_WRITERS" /\ ~writers /\ readers -> wakeReaders
         [] OTHER -> UNCHANGED asleep

Unlock(t) ==
    /\ pc[t] = "holding"
    /\ m_numActive' = [m_numActive EXCEPT ![kind[t]] = @ - 1]
    /\ IF kind[t] = "reader" THEN AfterReader
       ELSE IF m_numActive["writer"] - 1 < 1 THEN AfterWriter ELSE UNCHANGED asleep
    /\ pc' = [pc EXCEPT ![t] = "idle"]
    /\ UNCHANGED <<m_policy, m_numQueued, kind, timed, expired>>

-----------------------------------------------------------------------------
Retest(t) == Granted(t) \/ GiveUp(t) \/ WaitAgain(t)

Next ==
    \E t \in Threads :
        \/ \E k \in Kinds : Acquire(t, k) \/ \E b \in BOOLEAN : Enqueue(t, k, b)
        \/ Retest(t) \/ Elapse(t) \/ TimedOut(t) \/ Spurious(t) \/ Unlock(t)

Spec == Init /\ [][Next]_vars

\* A thread that is awake tests its condition, time passes, a wait whose time is over
\* returns, and whoever holds the lock releases it.  Nobody has to ask for the lock,
\* and no wait has to return without a reason.
Fairness ==
    \A t \in Threads : /\ WF_vars(Retest(t)) /\ WF_vars(Unlock(t))
                       /\ WF_vars(Elapse(t)) /\ WF_vars(TimedOut(t))

FairSpec == Spec /\ Fairness

-----------------------------------------------------------------------------
(* Properties *)

\* The counters are the numbers of threads they are named for, through every early
\* return and timeout.
CountsExact ==
    \A k \in Kinds : /\ m_numQueued[k] = Cardinality(Queued(k))
                     /\ m_numActive[k] = Cardinality(Holding(k))

\* When the lock is free and somebody waits for it, somebody is awake to take it: no
\* wakeup is lost between unlock, timeouts and the threads that overtake.
NoLostWakeup ==
    (\A k \in Kinds : Holding(k) = {}) /\ (\E k \in Kinds : Queued(k) # {})
        => \E k \in Kinds : Queued(k) \ Sleeping(k) # {}

\* The mutex does what any read/write lock does.
Abs == INSTANCE RWLock WITH readers <- Holding("reader"), writers <- Holding("writer")
ImplementsRWLock == Abs!Spec

\* "Once there are no writers present, all queued readers will be alerted"
\* (Policy, PREFER_WRITERS): none sleeps for ever in a mutex without writers.
QueuedReadersAlerted ==
    \A t \in Threads :
        t \in Queued("reader")
            ~> (t \notin Sleeping("reader") \/ m_numActive["writer"] + m_numQueued["writer"] > 0)

\* The preferred half is not starved by the other: under PREFER_READERS every queued
\* reader leaves the queue, under PREFER_WRITERS a queued writer lets some writer in.
PreferenceHonoured ==
    /\ \A t \in Threads :
          (m_policy = "PREFER_READERS" /\ t \in Queued("reader")) ~> (t \notin Queued("reader"))
    /\ (m_policy = "PREFER_WRITERS" /\ Queued("writer") # {})
          ~> (Holding("writer") # {} \/ Queued("writer") = {})
=============================================================================
