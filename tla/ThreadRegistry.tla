--------------------------- MODULE ThreadRegistry ---------------------------
(***************************************************************************)
(* The registry of D threads and the stop-the-world protocol of the        *)
(* FreeRTOS port: core.thread.threadbase (global thread list, context      *)
(* list, about-to-start list, critical regions, joinAll, resumeAll) with   *)
(* config/freertos core.thread.osthread (start, entry point, suspendAll,   *)
(* suspend, resume, attachThread, join).                                   *)
(*                                                                         *)
(* A task executes one action per step between two points where another    *)
(* task can observe it: taking a lock, releasing it, an OS call, a write   *)
(* to memory that is read without a lock.  The linked lists are sets here: *)
(* their order is not observable by these operations.                      *)
(***************************************************************************)
EXTENDS Naturals, FiniteSets

CONSTANTS
    Main,            \* the thread that thread_init attaches
    Workers,         \* Thread objects that may be start()ed
    External,        \* tasks created outside D that call thread_attachThis
    Daemons,         \* workers with isDaemon set
    Throwing,        \* workers whose run() ends with an unhandled Throwable
    Droppable,       \* workers to which the program keeps no reference
    LateAttach,      \* external tasks attach only once the flag is set
    Asserts,         \* the library is built with its assertions
    MaxSuspendDepth, \* bound on nested calls of thread_suspendAll
    null

Threads == {Main} \cup Workers \cup External

ASSUME ThreadsAssumption ==
    /\ Main \notin Workers /\ Main \notin External
    /\ Workers \cap External = {}
    /\ Daemons \subseteq Workers
    /\ Throwing \subseteq Workers
    /\ Droppable \subseteq Workers
    /\ null \notin Threads

ASSUME DepthAssumption == MaxSuspendDepth \in Nat \ {0}

ASSUME AttachAssumption == LateAttach \in BOOLEAN

ASSUME BuildAssumption == Asserts \in BOOLEAN

VARIABLES
    pc,                \* where each task is
    arg,               \* its local thread reference (loop variable, this, argument)
    visited,           \* threads its current list traversal has left behind
    myDepth,           \* suspendAll calls it has not matched with resumeAll
    listed,            \* sm_tbeg and its successors
    contexts,          \* threads whose m_main is in the list at sm_cbeg
    aboutToStart,      \* pAboutToStart[0 .. nAboutToStart]
    isRunning,         \* m_isRunning
    hasAddr,           \* m_addr != m_addr.init
    this,              \* the TLS pointer behind getThis() is set
    joinEvent,         \* taskProperties.joinEvent is set
    inCR,              \* m_isInCriticalRegion
    tstack,            \* m_main.tstack: "bottom" (= bstack) or "top"
    stackFreed,        \* ~Thread has freed stackBuff
    slockOwner,        \* recursive mutex slock
    slockCount,
    crOwner,           \* criticalRegionLock
    suspendDepth,
    multiThreadedFlag,
    suspended,         \* tasks the kernel does not schedule (vTaskSuspend)
    fault,             \* first assertion or SyncError hit, "none" before
    detached           \* history: the tasks that have called thread_detachThis

locals == <<pc, arg, visited, myDepth>>
lists  == <<listed, contexts, aboutToStart>>
object == <<isRunning, hasAddr, this, joinEvent, inCR, tstack, stackFreed>>
slock  == <<slockOwner, slockCount>>
vars   == <<locals, lists, object, slock, crOwner, suspendDepth,
            multiThreadedFlag, suspended, fault, detached>>

Locations ==
    {"idle",
     "att_add", "att_ctx", "att_flag",
     "init", "add", "addctx", "run",
     "remove", "unlist", "stopping", "signal", "delete", "gone",
     "start", "create",
     "sus_lock", "sus_cr", "sus_scan", "sus_check", "sus_sleep", "sus_task",
     "res_scan",
     "cr_enter", "cr_exit",
     "join", "joined",
     "ja_lock", "ja_yield", "ja_scan", "ja_join", "ja_joined", "term"}

Faults == {"none", "attachThread: bstack", "add: not running", "add: suspendDepth",
           "add: not about to start", "suspend: remove not implemented",
           "suspendAll: cnt", "unlock: not owner"}

\* Every shared variable has the type its declaration gives it.
TypeOK ==
    /\ pc \in [Threads -> Locations]
    /\ arg \in [Threads -> Threads \cup {null}]
    /\ visited \in [Threads -> SUBSET Threads]
    /\ myDepth \in [Threads -> Nat]
    /\ listed \subseteq Threads
    /\ contexts \subseteq Threads
    /\ aboutToStart \subseteq Workers
    /\ isRunning \in [Threads -> BOOLEAN]
    /\ hasAddr \in [Threads -> BOOLEAN]
    /\ this \in [Threads -> BOOLEAN]
    /\ joinEvent \in [Threads -> BOOLEAN]
    /\ inCR \in [Threads -> BOOLEAN]
    /\ tstack \in [Threads -> {"bottom", "top"}]
    /\ stackFreed \in [Threads -> BOOLEAN]
    /\ slockOwner \in Threads \cup {null}
    /\ slockCount \in Nat
    /\ crOwner \in Threads \cup {null}
    /\ suspendDepth \in Nat
    /\ multiThreadedFlag \in BOOLEAN
    /\ suspended \subseteq Threads
    /\ fault \in Faults
    /\ detached \subseteq External

\* thread_init: the main thread is attached before any other task runs;
\* sm_main is still null then, so attachThread leaves multiThreadedFlag false.
Init ==
    /\ pc = [t \in Threads |-> IF t = Main THEN "run" ELSE "idle"]
    /\ arg = [t \in Threads |-> null]
    /\ visited = [t \in Threads |-> {}]
    /\ myDepth = [t \in Threads |-> 0]
    /\ listed = {Main}
    /\ contexts = {Main}
    /\ aboutToStart = {}
    /\ isRunning = [t \in Threads |-> t = Main]
    /\ hasAddr = [t \in Threads |-> t = Main]
    /\ this = [t \in Threads |-> t = Main]
    /\ joinEvent = [t \in Threads |-> FALSE]
    /\ inCR = [t \in Threads |-> FALSE]
    /\ tstack = [t \in Threads |-> "bottom"]
    /\ stackFreed = [t \in Threads |-> FALSE]
    /\ slockOwner = null
    /\ slockCount = 0
    /\ crOwner = null
    /\ suspendDepth = 0
    /\ multiThreadedFlag = FALSE
    /\ suspended = {}
    /\ fault = "none"
    /\ detached = {}

-----------------------------------------------------------------------------
(* Helpers *)

\* Task t is scheduled at location l.
At(t, l) == fault = "none" /\ t \notin suspended /\ pc[t] = l

Goto(t, l) == pc' = [pc EXCEPT ![t] = l]

\* A failed assertion, or an Error thrown by a nothrow function, ends the program.
\* A release build has no assertions; assert(false) stays in it as a trap, and so
\* does the SyncError of a mutex.
Fail(msg) ==
    /\ fault' = msg
    /\ UNCHANGED <<locals, lists, object, slock, crOwner, suspendDepth,
                   multiThreadedFlag, suspended, detached>>

\* Mutex.lock_nothrow / unlock_nothrow on slock, a recursive mutex.
SlockFree(t) == slockOwner \in {null, t}

\* Mutant: the mutex does not count its owner's calls.
Bug_LockUncounted(t) == slockOwner' = t /\ UNCHANGED slockCount

LockSlock(t) == slockOwner' = t /\ slockCount' = slockCount + 1

\* Mutant: the owner's first unlock releases the mutex.
Bug_UnlockFrees(t) == slockOwner' = null /\ slockCount' = 0

UnlockSlock(t) ==
    /\ slockCount' = slockCount - 1
    /\ slockOwner' = IF slockCount = 1 THEN null ELSE t

\* Thread.isRunning: ThreadBase's test of m_addr, then m_isRunning.
Running(t) == hasAddr[t] /\ isRunning[t]

\* A task in ordinary user code.  While it holds the world stopped, or is in a
\* critical region, it makes no call that takes a lock (see the warning of
\* thread_enterCriticalRegion).
Free(t) == At(t, "run") /\ myDepth[t] = 0 /\ ~inCR[t]

-----------------------------------------------------------------------------
(* Thread.start and thread_entryPoint *)

\* start(): the flag is set before slock is taken.
StartFlag(t, w) ==
    /\ Free(t) /\ w \in Workers /\ pc[w] = "idle" /\ w \notin aboutToStart
    /\ \A u \in Threads : ~(pc[u] \in {"start", "create"} /\ arg[u] = w)
    /\ multiThreadedFlag' = TRUE
    /\ arg' = [arg EXCEPT ![t] = w]
    /\ Goto(t, "start")
    /\ UNCHANGED <<visited, myDepth, lists, object, slock, crOwner, suspendDepth,
                   suspended, fault, detached>>

\* start() under slock: register as about to start, mark running, create the
\* task.  The new task may run before its creator stores the handle in m_addr.
StartCreate(t) ==
    LET w == arg[t] IN
    /\ At(t, "start") /\ SlockFree(t)
    /\ LockSlock(t)
    /\ aboutToStart' = aboutToStart \cup {w}
    /\ isRunning' = [isRunning EXCEPT ![w] = TRUE]
    /\ pc' = [pc EXCEPT ![t] = "create", ![w] = "init"]
    /\ UNCHANGED <<arg, visited, myDepth, listed, contexts, hasAddr, this, joinEvent,
                   inCR, tstack, stackFreed, crOwner, suspendDepth,
                   multiThreadedFlag, suspended, fault, detached>>

\* start(): m_addr gets the handle, slock is released on return.
StartReturn(t) ==
    /\ At(t, "create")
    /\ hasAddr' = [hasAddr EXCEPT ![arg[t]] = TRUE]
    /\ UnlockSlock(t)
    /\ arg' = [arg EXCEPT ![t] = null]
    /\ Goto(t, "run")
    /\ UNCHANGED <<visited, myDepth, lists, isRunning, this, joinEvent, inCR, tstack,
                   stackFreed, crOwner, suspendDepth, multiThreadedFlag, suspended,
                   fault, detached>>

\* thread_entryPoint: initDataStorage and setThis.
EntryInit(t) ==
    /\ At(t, "init")
    /\ tstack' = [tstack EXCEPT ![t] = "bottom"]
    /\ this' = [this EXCEPT ![t] = TRUE]
    /\ Goto(t, "add")
    /\ UNCHANGED <<arg, visited, myDepth, lists, isRunning, hasAddr, joinEvent, inCR,
                   stackFreed, slock, crOwner, suspendDepth, multiThreadedFlag,
                   suspended, fault, detached>>

\* Mutant: add() leaves the thread in pAboutToStart.
Bug_AddKeepsAboutToStart(t, rmAboutToStart, next) ==
    /\ listed' = listed \cup {t}
    /\ Goto(t, next)
    /\ UNCHANGED <<arg, visited, myDepth, contexts, aboutToStart, object, slock,
                   crOwner, suspendDepth, multiThreadedFlag, suspended, fault, detached>>

\* The body of ThreadBase.add(ThreadBase) under slock.  A thread that is not found
\* in pAboutToStart makes memmove work at index -1 where nothing asserts that it is.
AddThread(t, rmAboutToStart, next) ==
    IF Asserts /\ ~Running(t) THEN Fail("add: not running")
    ELSE IF Asserts /\ suspendDepth # 0 THEN Fail("add: suspendDepth")
    ELSE IF rmAboutToStart /\ t \notin aboutToStart THEN Fail("add: not about to start")
    ELSE /\ aboutToStart' = IF rmAboutToStart THEN aboutToStart \ {t} ELSE aboutToStart
         /\ listed' = listed \cup {t}
         /\ Goto(t, next)
         /\ UNCHANGED <<arg, visited, myDepth, contexts, object, slock, crOwner,
                        suspendDepth, multiThreadedFlag, suspended, fault, detached>>

\* Mutant: the entry point registers the thread but not its stack.
Bug_EntryAddOnly(t) == At(t, "add") /\ SlockFree(t) /\ AddThread(t, TRUE, "run")

\* Mutant: add() does not take slock.
Bug_EntryAddUnlocked(t) == At(t, "add") /\ AddThread(t, TRUE, "addctx")

EntryAdd(t) == At(t, "add") /\ SlockFree(t) /\ AddThread(t, TRUE, "addctx")

\* ThreadBase.add(StackContext*) under slock.
AddContext(t, next) ==
    IF Asserts /\ suspendDepth # 0 THEN Fail("add: suspendDepth")
    ELSE /\ contexts' = contexts \cup {t}
         /\ Goto(t, next)
         /\ UNCHANGED <<arg, visited, myDepth, listed, aboutToStart, object, slock,
                        crOwner, suspendDepth, multiThreadedFlag, suspended,
                        fault, detached>>

EntryAddContext(t) == At(t, "addctx") /\ SlockFree(t) /\ AddContext(t, "run")

\* Mutant: the scope(exit) statements run in the order they are written.
Bug_FinishStopsFirst(t) ==
    /\ Free(t) /\ t \in Workers
    /\ isRunning' = [isRunning EXCEPT ![t] = FALSE]
    /\ Goto(t, "remove")
    /\ UNCHANGED <<arg, visited, myDepth, lists, hasAddr, this, joinEvent, inCR, tstack,
                   stackFreed, slock, crOwner, suspendDepth, multiThreadedFlag,
                   suspended, fault, detached>>

\* obj.run() returns or throws; the scope(exit) statements run last in, first out.
Finish(t) ==
    /\ Free(t) /\ t \in Workers
    /\ Goto(t, "remove")
    /\ UNCHANGED <<arg, visited, myDepth, lists, object, slock, crOwner, suspendDepth,
                   multiThreadedFlag, suspended, fault, detached>>

\* ThreadBase.remove: its first test is made without slock.
RemoveTest(t) ==
    /\ At(t, "remove")
    /\ Goto(t, IF t \in listed THEN "unlist"
               ELSE IF t \in External THEN "idle" ELSE "stopping")
    /\ UNCHANGED <<arg, visited, myDepth, lists, object, slock, crOwner, suspendDepth,
                   multiThreadedFlag, suspended, fault, detached>>

RemoveUnlist(t) ==
    /\ At(t, "unlist") /\ SlockFree(t)
    /\ contexts' = contexts \ {t}
    /\ listed' = listed \ {t}
    /\ Goto(t, IF t \in External THEN "idle" ELSE "stopping")
    /\ UNCHANGED <<arg, visited, myDepth, aboutToStart, object, slock, crOwner,
                   suspendDepth, multiThreadedFlag, suspended, fault, detached>>

EntryStop(t) ==
    /\ At(t, "stopping")
    /\ isRunning' = [isRunning EXCEPT ![t] = FALSE]
    /\ Goto(t, "signal")
    /\ UNCHANGED <<arg, visited, myDepth, lists, hasAddr, this, joinEvent, inCR, tstack,
                   stackFreed, slock, crOwner, suspendDepth, multiThreadedFlag,
                   suspended, fault, detached>>

EntrySignal(t) ==
    /\ At(t, "signal")
    /\ joinEvent' = [joinEvent EXCEPT ![t] = TRUE]
    /\ Goto(t, "delete")
    /\ UNCHANGED <<arg, visited, myDepth, lists, isRunning, hasAddr, this, inCR, tstack,
                   stackFreed, slock, crOwner, suspendDepth, multiThreadedFlag,
                   suspended, fault, detached>>

\* vTaskDelete(null): the task never runs again.
EntryDelete(t) ==
    /\ At(t, "delete")
    /\ Goto(t, "gone")
    /\ UNCHANGED <<arg, visited, myDepth, lists, object, slock, crOwner, suspendDepth,
                   multiThreadedFlag, suspended, fault, detached>>

-----------------------------------------------------------------------------
(* thread_attachThis and thread_detachThis of a task created outside D *)

\* thread_attachThis_tpl: nothing to do when getThis() is not null, which it stays
\* after thread_detachThis.
AttachAgain(t) ==
    /\ At(t, "idle") /\ t \in External /\ this[t]
    /\ Goto(t, "run")
    /\ UNCHANGED <<arg, visited, myDepth, lists, object, slock, crOwner, suspendDepth,
                   multiThreadedFlag, suspended, fault, detached>>

\* attachThread of a Thread made by the empty constructor, which leaves bstack null.
AttachBegin(t) ==
    /\ At(t, "idle") /\ t \in External /\ ~this[t]
    /\ LateAttach => multiThreadedFlag
    /\ IF Asserts THEN Fail("attachThread: bstack")
       ELSE /\ hasAddr' = [hasAddr EXCEPT ![t] = TRUE]
            /\ tstack' = [tstack EXCEPT ![t] = "bottom"]
            /\ isRunning' = [isRunning EXCEPT ![t] = TRUE]
            /\ this' = [this EXCEPT ![t] = TRUE]
            /\ Goto(t, "att_add")
            /\ UNCHANGED <<arg, visited, myDepth, lists, joinEvent, inCR, stackFreed,
                           slock, crOwner, suspendDepth, multiThreadedFlag,
                           suspended, fault, detached>>

AttachAdd(t) == At(t, "att_add") /\ SlockFree(t) /\ AddThread(t, FALSE, "att_ctx")

AttachContext(t) == At(t, "att_ctx") /\ SlockFree(t) /\ AddContext(t, "att_flag")

\* sm_main is not null any more, so the flag is set.
AttachFlag(t) ==
    /\ At(t, "att_flag")
    /\ multiThreadedFlag' = TRUE
    /\ Goto(t, "run")
    /\ UNCHANGED <<arg, visited, myDepth, lists, object, slock, crOwner, suspendDepth,
                   suspended, fault, detached>>

\* thread_detachThis: remove, and the TLS pointer stays set.
Detach(t) ==
    /\ Free(t) /\ t \in External
    /\ detached' = detached \cup {t}
    /\ Goto(t, "remove")
    /\ UNCHANGED <<arg, visited, myDepth, lists, object, slock, crOwner, suspendDepth,
                   multiThreadedFlag, suspended, fault>>

-----------------------------------------------------------------------------
(* thread_suspendAll, suspend *)

\* The caller's own stack top is recorded; nothing is suspended.
SuspendSelf(t) == tstack' = [tstack EXCEPT ![t] = "top"]

MayCallSuspendAll(t) ==
    At(t, "run") /\ ~inCR[t] /\ myDepth[t] < MaxSuspendDepth

\* The shortcut of a program that has had only one thread.
SuspendAllShortcut(t) ==
    /\ MayCallSuspendAll(t) /\ ~multiThreadedFlag /\ listed # {}
    /\ IF suspendDepth = 0 /\ ~Running(t)
         THEN Fail("suspend: remove not implemented")
         ELSE /\ suspendDepth' = suspendDepth + 1
              /\ myDepth' = [myDepth EXCEPT ![t] = @ + 1]
              /\ IF suspendDepth = 0 THEN SuspendSelf(t) ELSE UNCHANGED tstack
              /\ UNCHANGED <<pc, arg, visited, lists, isRunning, hasAddr, this,
                             joinEvent, inCR, stackFreed, slock, crOwner,
                             multiThreadedFlag, suspended, fault, detached>>

SuspendAllBegin(t) ==
    /\ MayCallSuspendAll(t) /\ multiThreadedFlag
    /\ Goto(t, "sus_lock")
    /\ UNCHANGED <<arg, visited, myDepth, lists, object, slock, crOwner, suspendDepth,
                   multiThreadedFlag, suspended, fault, detached>>

\* slock is taken and kept until the matching resumeAll.
SuspendAllLock(t) ==
    /\ At(t, "sus_lock") /\ SlockFree(t)
    /\ LockSlock(t)
    /\ suspendDepth' = suspendDepth + 1
    /\ myDepth' = [myDepth EXCEPT ![t] = @ + 1]
    /\ Goto(t, IF suspendDepth > 0 THEN "run" ELSE "sus_cr")
    /\ UNCHANGED <<arg, visited, lists, object, crOwner, multiThreadedFlag, suspended,
                   fault, detached>>

\* Mutant: suspendAll does not take criticalRegionLock.
Bug_SuspendAllNoCRLock(t) ==
    /\ At(t, "sus_cr")
    /\ visited' = [visited EXCEPT ![t] = {}]
    /\ Goto(t, "sus_scan")
    /\ UNCHANGED <<arg, myDepth, lists, object, slock, crOwner, suspendDepth,
                   multiThreadedFlag, suspended, fault, detached>>

SuspendAllLockCR(t) ==
    /\ At(t, "sus_cr") /\ crOwner = null
    /\ crOwner' = t
    /\ visited' = [visited EXCEPT ![t] = {}]
    /\ Goto(t, "sus_scan")
    /\ UNCHANGED <<arg, myDepth, lists, object, slock, suspendDepth, multiThreadedFlag,
                   suspended, fault, detached>>

\* The next thread of the list.
SuspendAllNext(t) ==
    /\ At(t, "sus_scan")
    /\ \E u \in listed \ visited[t] :
          /\ arg' = [arg EXCEPT ![t] = u]
          /\ visited' = [visited EXCEPT ![t] = @ \cup {u}]
    /\ Goto(t, "sus_check")
    /\ UNCHANGED <<myDepth, lists, object, slock, crOwner, suspendDepth,
                   multiThreadedFlag, suspended, fault, detached>>

\* Mutant: critical regions are ignored.
Bug_NeverWait(u) == FALSE

\* suspend() may not stop a thread inside a critical region.
MustWaitFor(u) == inCR[u]

\* suspend(): the tests at label Lagain.  Thread.remove is not implemented.
SuspendCheck(t) ==
    /\ At(t, "sus_check")
    /\ IF ~Running(arg[t]) THEN Fail("suspend: remove not implemented")
       ELSE /\ IF MustWaitFor(arg[t])
                 THEN Goto(t, "sus_sleep") /\ crOwner' = null
                 ELSE Goto(t, "sus_task") /\ UNCHANGED crOwner
            /\ UNCHANGED <<arg, visited, myDepth, lists, object, slock, suspendDepth,
                           multiThreadedFlag, suspended, fault, detached>>

\* After the sleep, criticalRegionLock is taken again and the tests repeated.
SuspendRetry(t) ==
    /\ At(t, "sus_sleep") /\ crOwner = null
    /\ crOwner' = t
    /\ Goto(t, "sus_check")
    /\ UNCHANGED <<arg, visited, myDepth, lists, object, slock, suspendDepth,
                   multiThreadedFlag, suspended, fault, detached>>

\* vTaskSuspend of another task, or the caller's own stack top.  The stack top of
\* the other task is not recorded.
SuspendTask(t) ==
    LET u == arg[t] IN
    /\ At(t, "sus_task")
    /\ IF u # t THEN suspended' = suspended \cup {u} /\ UNCHANGED tstack
                ELSE SuspendSelf(t) /\ UNCHANGED suspended
    /\ arg' = [arg EXCEPT ![t] = null]
    /\ Goto(t, "sus_scan")
    /\ UNCHANGED <<visited, myDepth, lists, isRunning, hasAddr, this, joinEvent, inCR,
                   stackFreed, slock, crOwner, suspendDepth, multiThreadedFlag,
                   fault, detached>>

\* End of the list: assert(cnt >= 1), criticalRegionLock is released.
SuspendAllEnd(t) ==
    /\ At(t, "sus_scan") /\ listed \subseteq visited[t]
    /\ IF Asserts /\ visited[t] = {} THEN Fail("suspendAll: cnt")
       ELSE /\ crOwner' = null
            /\ visited' = [visited EXCEPT ![t] = {}]
            /\ Goto(t, "run")
            /\ UNCHANGED <<arg, myDepth, lists, object, slock, suspendDepth,
                           multiThreadedFlag, suspended, fault, detached>>

-----------------------------------------------------------------------------
(* thread_resumeAll, resume *)

ResumeAllShortcut(t) ==
    /\ At(t, "run") /\ myDepth[t] > 0 /\ ~multiThreadedFlag /\ listed # {}
    /\ suspendDepth' = suspendDepth - 1
    /\ myDepth' = [myDepth EXCEPT ![t] = @ - 1]
    /\ tstack' = IF suspendDepth = 1 THEN [tstack EXCEPT ![t] = "bottom"] ELSE tstack
    /\ UNCHANGED <<pc, arg, visited, lists, isRunning, hasAddr, this, joinEvent, inCR,
                   stackFreed, slock, crOwner, multiThreadedFlag, suspended,
                   fault, detached>>

\* An inner resumeAll only undoes one level; unlocking a mutex the caller does not
\* own is a SyncError.
ResumeAllInner(t) ==
    /\ At(t, "run") /\ myDepth[t] > 0 /\ multiThreadedFlag /\ suspendDepth > 1
    /\ IF slockOwner # t THEN Fail("unlock: not owner")
       ELSE /\ suspendDepth' = suspendDepth - 1
            /\ myDepth' = [myDepth EXCEPT ![t] = @ - 1]
            /\ UnlockSlock(t)
            /\ UNCHANGED <<pc, arg, visited, lists, object, crOwner, multiThreadedFlag,
                           suspended, fault, detached>>

ResumeAllBegin(t) ==
    /\ At(t, "run") /\ myDepth[t] > 0 /\ multiThreadedFlag /\ suspendDepth = 1
    /\ suspendDepth' = 0
    /\ myDepth' = [myDepth EXCEPT ![t] = @ - 1]
    /\ visited' = [visited EXCEPT ![t] = {}]
    /\ Goto(t, "res_scan")
    /\ UNCHANGED <<arg, lists, object, slock, crOwner, multiThreadedFlag, suspended,
                   fault, detached>>

\* Mutant: resumeAll follows the context list instead of the thread list.
Bug_ResumeByContext(t) == (listed \cap contexts) \ visited[t]

\* The threads resumeAll visits.
ToResume(t) == listed \ visited[t]

ResumeTask(t) ==
    /\ At(t, "res_scan")
    /\ \E u \in ToResume(t) :
          /\ visited' = [visited EXCEPT ![t] = @ \cup {u}]
          /\ IF u # t
               THEN suspended' = suspended \ {u} /\ UNCHANGED tstack
               ELSE tstack' = [tstack EXCEPT ![t] = "bottom"] /\ UNCHANGED suspended
    /\ UNCHANGED <<pc, arg, myDepth, lists, isRunning, hasAddr, this, joinEvent, inCR,
                   stackFreed, slock, crOwner, suspendDepth, multiThreadedFlag,
                   fault, detached>>

ResumeAllEnd(t) ==
    /\ At(t, "res_scan") /\ ToResume(t) = {}
    /\ IF slockOwner # t THEN Fail("unlock: not owner")
       ELSE /\ UnlockSlock(t)
            /\ visited' = [visited EXCEPT ![t] = {}]
            /\ Goto(t, "run")
            /\ UNCHANGED <<arg, myDepth, lists, object, crOwner, suspendDepth,
                           multiThreadedFlag, suspended, fault, detached>>

-----------------------------------------------------------------------------
(* Critical regions: synchronized (criticalRegionLock) around one assignment *)

EnterCriticalRegion(t) ==
    /\ Free(t) /\ crOwner = null
    /\ crOwner' = t
    /\ Goto(t, "cr_enter")
    /\ UNCHANGED <<arg, visited, myDepth, lists, object, slock, suspendDepth,
                   multiThreadedFlag, suspended, fault, detached>>

ExitCriticalRegion(t) ==
    /\ At(t, "run") /\ inCR[t] /\ crOwner = null
    /\ crOwner' = t
    /\ Goto(t, "cr_exit")
    /\ UNCHANGED <<arg, visited, myDepth, lists, object, slock, suspendDepth,
                   multiThreadedFlag, suspended, fault, detached>>

\* Mutant: exitCriticalRegion does not clear the flag.
Bug_StaysInRegion(t) ==
    /\ At(t, "cr_enter") \/ At(t, "cr_exit")
    /\ inCR' = [inCR EXCEPT ![t] = TRUE]
    /\ crOwner' = null
    /\ Goto(t, "run")
    /\ UNCHANGED <<arg, visited, myDepth, lists, isRunning, hasAddr, this, joinEvent,
                   tstack, stackFreed, slock, suspendDepth, multiThreadedFlag,
                   suspended, fault, detached>>

SetCriticalRegion(t) ==
    /\ At(t, "cr_enter") \/ At(t, "cr_exit")
    /\ inCR' = [inCR EXCEPT ![t] = (pc[t] = "cr_enter")]
    /\ crOwner' = null
    /\ Goto(t, "run")
    /\ UNCHANGED <<arg, visited, myDepth, lists, isRunning, hasAddr, this, joinEvent,
                   tstack, stackFreed, slock, suspendDepth, multiThreadedFlag,
                   suspended, fault, detached>>

-----------------------------------------------------------------------------
(* Thread.join and thread_joinAll *)

\* A program joins no thread that is itself waiting in join, so that threads do not
\* wait for each other in a circle.
JoinBegin(t, w) ==
    /\ Free(t) /\ w \in Workers \ (Droppable \cup {t}) /\ pc[w] \notin {"idle", "join"}
    /\ arg' = [arg EXCEPT ![t] = w]
    /\ Goto(t, "join")
    /\ UNCHANGED <<visited, myDepth, lists, object, slock, crOwner, suspendDepth,
                   multiThreadedFlag, suspended, fault, detached>>

\* joinEvent.wait(): a manual-reset event, it stays set.
JoinWait(t, from, to) ==
    /\ At(t, from) /\ joinEvent[arg[t]]
    /\ Goto(t, to)
    /\ UNCHANGED <<arg, visited, myDepth, lists, object, slock, crOwner, suspendDepth,
                   multiThreadedFlag, suspended, fault, detached>>

\* m_addr = m_addr.init
JoinReturn(t, from, to) ==
    /\ At(t, from)
    /\ hasAddr' = [hasAddr EXCEPT ![arg[t]] = FALSE]
    /\ arg' = [arg EXCEPT ![t] = null]
    /\ Goto(t, to)
    /\ UNCHANGED <<visited, myDepth, lists, isRunning, this, joinEvent, inCR, tstack,
                   stackFreed, slock, crOwner, suspendDepth, multiThreadedFlag,
                   suspended, fault, detached>>

Join(t) == JoinWait(t, "join", "joined") \/ JoinReturn(t, "joined", "run")

\* rt_term calls thread_joinAll once the main function has returned.
JoinAllBegin(t) ==
    /\ Free(t) /\ t = Main
    /\ Goto(t, "ja_lock")
    /\ UNCHANGED <<arg, visited, myDepth, lists, object, slock, crOwner, suspendDepth,
                   multiThreadedFlag, suspended, fault, detached>>

\* Mutant: joinAll does not wait for threads about to start.
Bug_JoinAllNoYield == FALSE

JoinAllMustYield == aboutToStart # {}

JoinAllLock(t) ==
    /\ At(t, "ja_lock") /\ SlockFree(t)
    /\ IF JoinAllMustYield
         THEN Goto(t, "ja_yield") /\ UNCHANGED slock
         ELSE Goto(t, "ja_scan") /\ LockSlock(t)
    /\ visited' = [visited EXCEPT ![t] = {}]
    /\ UNCHANGED <<arg, myDepth, lists, object, crOwner, suspendDepth,
                   multiThreadedFlag, suspended, fault, detached>>

JoinAllYield(t) ==
    /\ At(t, "ja_yield")
    /\ Goto(t, "ja_lock")
    /\ UNCHANGED <<arg, visited, myDepth, lists, object, slock, crOwner, suspendDepth,
                   multiThreadedFlag, suspended, fault, detached>>

\* One iteration: a thread that is not running is removed, a daemon is skipped, any
\* other thread is joined without slock and the traversal restarts.
IsDaemon(u) == u = Main \/ u \in External \/ u \in Daemons

JoinAllNext(t) ==
    /\ At(t, "ja_scan")
    /\ \E u \in listed \ visited[t] :
         IF ~Running(u)
           THEN /\ listed' = listed \ {u}
                /\ contexts' = contexts \ {u}
                /\ UNCHANGED <<pc, arg, visited, slock>>
           ELSE /\ UNCHANGED <<listed, contexts>>
                /\ IF IsDaemon(u)
                     THEN /\ visited' = [visited EXCEPT ![t] = @ \cup {u}]
                          /\ UNCHANGED <<pc, arg, slock>>
                     ELSE /\ UnlockSlock(t)
                          /\ arg' = [arg EXCEPT ![t] = u]
                          /\ Goto(t, "ja_join")
                          /\ UNCHANGED visited
    /\ UNCHANGED <<myDepth, aboutToStart, object, crOwner, suspendDepth,
                   multiThreadedFlag, suspended, fault, detached>>

\* join rethrows what the joined thread did not handle, and joinAll is left.
JoinAllJoin(t) ==
    \/ JoinWait(t, "ja_join", "ja_joined")
    \/ JoinReturn(t, "ja_joined", IF arg[t] \in Throwing THEN "term" ELSE "ja_lock")

JoinAllEnd(t) ==
    /\ At(t, "ja_scan") /\ listed \subseteq visited[t]
    /\ UnlockSlock(t)
    /\ visited' = [visited EXCEPT ![t] = {}]
    /\ Goto(t, "term")
    /\ UNCHANGED <<arg, myDepth, lists, object, crOwner, suspendDepth,
                   multiThreadedFlag, suspended, fault, detached>>

-----------------------------------------------------------------------------
(* The collector *)

\* A collection made by t finds w unreachable (the program holds no reference, w is
\* in neither list) and runs its destructor, which frees stackBuff.
Finalize(t, w) ==
    /\ Free(t) /\ w \in Droppable \ (listed \cup aboutToStart \cup {t})
    /\ pc[w] # "idle" /\ ~stackFreed[w]
    /\ \A u \in Threads : arg[u] # w
    /\ stackFreed' = [stackFreed EXCEPT ![w] = TRUE]
    /\ UNCHANGED <<locals, lists, isRunning, hasAddr, this, joinEvent, inCR, tstack,
                   slock, crOwner, suspendDepth, multiThreadedFlag, suspended,
                   fault, detached>>

-----------------------------------------------------------------------------
\* After thread_joinAll the main task leaves through exit(); a failed assertion ends
\* the program too.
Terminated == (pc[Main] = "term" \/ fault # "none") /\ UNCHANGED vars

Lifecycle(t) ==
    \/ StartCreate(t) \/ StartReturn(t)
    \/ EntryInit(t) \/ EntryAdd(t) \/ EntryAddContext(t)
    \/ RemoveTest(t) \/ RemoveUnlist(t)
    \/ EntryStop(t) \/ EntrySignal(t) \/ EntryDelete(t)
    \/ AttachAdd(t) \/ AttachContext(t) \/ AttachFlag(t)

Suspend(t) ==
    \/ SuspendAllLock(t) \/ SuspendAllLockCR(t) \/ SuspendAllNext(t)
    \/ SuspendCheck(t) \/ SuspendRetry(t) \/ SuspendTask(t) \/ SuspendAllEnd(t)

Resume(t) == ResumeTask(t) \/ ResumeAllEnd(t)

ResumeCall(t) == ResumeAllShortcut(t) \/ ResumeAllInner(t) \/ ResumeAllBegin(t)

JoinAll(t) ==
    \/ JoinAllLock(t) \/ JoinAllYield(t) \/ JoinAllNext(t) \/ JoinAllJoin(t)
    \/ JoinAllEnd(t)

\* What a task does inside the runtime, and what a program asks of it.
Steps(t) ==
    \/ Lifecycle(t) \/ Suspend(t) \/ Resume(t)
    \/ SetCriticalRegion(t) \/ Join(t) \/ JoinAll(t)

Calls(t) ==
    \/ \E w \in Workers : StartFlag(t, w) \/ JoinBegin(t, w) \/ Finalize(t, w)
    \/ AttachBegin(t) \/ AttachAgain(t) \/ Detach(t) \/ Finish(t)
    \/ SuspendAllShortcut(t) \/ SuspendAllBegin(t) \/ ResumeCall(t)
    \/ EnterCriticalRegion(t) \/ ExitCriticalRegion(t) \/ JoinAllBegin(t)

Next ==
    \/ \E t \in Threads : Steps(t) \/ Calls(t)
    \/ Terminated

Spec == Init /\ [][Next]_vars

\* The kernel schedules every ready task, and a task that waits for a mutex gets it
\* if it is released again and again (tasks of one priority are served in order).
\* The program leaves its critical regions and resumes the world it stopped.
Scheduling ==
    \A t \in Threads :
        /\ SF_vars(Steps(t))
        /\ SF_vars(ExitCriticalRegion(t))
        /\ SF_vars(ResumeCall(t))

\* The program returns from run() and eventually returns from main.
Ending == \A t \in Threads : SF_vars(Finish(t) \/ JoinAllBegin(t))

FairSpec == Spec /\ Scheduling

-----------------------------------------------------------------------------
(* Properties *)

\* t has come back from the outermost thread_suspendAll by way of slock and has not
\* yet called the matching thread_resumeAll.
WorldStoppedBy(t) == slockOwner = t /\ myDepth[t] > 0 /\ pc[t] \in {"run", "sus_lock"}

\* thread_suspendAll: when it has returned, no registered thread but the caller can
\* run, and none was stopped inside a critical region.
WorldStopped ==
    \A t \in Threads : WorldStoppedBy(t) =>
        \A u \in listed \ {t} : u \in suspended /\ ~inCR[u]

\* A task the kernel has suspended holds neither slock nor criticalRegionLock: the
\* collector, and the resumeAll that follows, can take both.
SuspendedHoldsNoLock ==
    \A u \in suspended : slockOwner # u /\ crOwner # u

\* thread_resumeAll leaves nobody behind: outside a stop-the-world phase no task is
\* suspended, whichever threads came and went meanwhile.
NoneLeftSuspended == slockOwner = null => suspended = {}

\* No assertion of attachThread, add and suspendAll fails where they are compiled in,
\* no mutex is unlocked by another than its owner, and suspend() never meets a
\* registered thread that is not running, for which it would call the unimplemented
\* Thread.remove.
NoFault == fault = "none"

\* Whoever has slock to add itself to a list finds suspendDepth 0 ("must be 0 b/c it's
\* only set with slock held"), whether or not an assertion looks at it: otherwise the
\* collector has stopped the world and counted the threads without this one.
AddFindsNoneStopped ==
    \A t \in Threads \ suspended :
        pc[t] \in {"add", "addctx", "att_add", "att_ctx"} /\ SlockFree(t) => suspendDepth = 0

\* A thread in user code is registered, and so is the context of its stack: the
\* collector stops it and knows its stack.  This holds of the main thread, of every
\* worker from obj.run() on, and of an external task from its thread_attachThis to
\* its first thread_detachThis; a task that has called that is not covered, even
\* where it has attached again and AttachAgain left it unlisted.  thread_detachInstance, by
\* which one thread takes another off the list, is not among the actions.
RegisteredWhileRunning ==
    \A t \in Threads \ detached :
        pc[t] = "run" => t \in listed /\ t \in contexts

\* The main task has come back from a thread_joinAll that joined every thread there
\* was: none threw and none was a daemon, which could start others later.
JoinedAll == pc[Main] = "term" /\ Throwing = {} /\ Daemons = {} /\ External = {}

\* thread_joinAll: when it returns, no started thread is in user code or will be, and
\* none can touch the thread lists any more.
JoinAllComplete ==
    JoinedAll => \A w \in Workers :
        pc[w] \in {"idle", "stopping", "signal", "delete", "gone"}

\* suspendAll completes if every thread enters critical regions only finitely often,
\* however long each goes on running.  Without that it need not: suspend() only
\* sleeps and looks again, and may find the thread in another critical region each
\* time.
SuspendAllReturns ==
    (\A u \in Threads : <>[](pc[u] # "cr_enter")) =>
        \A t \in Threads : (pc[t] = "sus_lock") ~> (pc[t] = "run")

\* joinAll completes when every thread function returns.
JoinAllReturns == Ending => ((pc[Main] = "ja_lock") ~> (pc[Main] = "term"))
=============================================================================
