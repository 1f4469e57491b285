------------------------ MODULE ThreadRegistryProofs ------------------------
(***************************************************************************)
(* Proofs about ThreadRegistry, for every set of workers and external      *)
(* tasks and every bound on the nesting of suspendAll.                     *)
(*                                                                         *)
(* WorldStopped and its companions are not inductive: they rest on who     *)
(* holds slock and criticalRegionLock at which program location, on how    *)
(* the depth counters relate to slock's recursion count, and on how far    *)
(* the suspending task has come in the thread list.  IInv is the           *)
(* conjunction of these facts.  JoinAllInv adds what thread_joinAll has    *)
(* established so far, and AttachInv where an external task is that has    *)
(* attached and not yet detached.                                          *)
(***************************************************************************)
EXTENDS ThreadRegistry, TLAPS

\* Locations at which a task owns slock whatever its depth.
SlockLocs == {"create", "sus_cr", "sus_scan", "sus_check", "sus_sleep", "sus_task",
              "res_scan", "ja_scan"}

\* Locations inside the traversal of suspendAll, after slock has been taken.
SuspendLocs == {"sus_cr", "sus_scan", "sus_check", "sus_sleep", "sus_task"}

CRLocs == {"sus_scan", "sus_check", "sus_task", "cr_enter", "cr_exit"}

\* Locations of a task that is not, or not any more, in the thread list.
UnlistedLocs == {"idle", "att_add", "init", "add", "stopping", "signal", "delete", "gone"}

JoinLocs == {"join", "joined", "ja_join", "ja_joined"}

\* t has the world stopped, or calls suspendAll again while it has.
Stopped(t) == pc[t] \in {"run", "sus_lock"} /\ myDepth[t] > 0

\* slock is owned exactly by the task whose location, or whose depth, says so, and
\* its recursion count is the number of levels that task has to undo.
SlockInv ==
    /\ \A t \in Threads :
          slockOwner = t <=> pc[t] \in SlockLocs \/ (Stopped(t) /\ multiThreadedFlag)
    /\ slockOwner = null <=> slockCount = 0
    /\ \A t \in Threads :
          slockOwner = t => slockCount = IF Stopped(t) THEN myDepth[t] ELSE 1

CRInv == \A t \in Threads : crOwner = t <=> pc[t] \in CRLocs

\* At most one task has a depth, and it is suspendDepth.
DepthInv ==
    /\ \A t \in Threads : myDepth[t] > 0 => myDepth[t] = suspendDepth
    /\ suspendDepth > 0 => \E t \in Threads : myDepth[t] = suspendDepth
    /\ \A t \in Threads : myDepth[t] > 0 => pc[t] \in SuspendLocs \cup {"run", "sus_lock"}
    /\ \A t \in Threads : pc[t] \in SuspendLocs => myDepth[t] = 1
    /\ \A t \in Threads : Stopped(t) \/ pc[t] \in SuspendLocs \cup {"sus_lock"} => ~inCR[t]

\* Before the flag is set the main task is alone.
AloneInv ==
    ~multiThreadedFlag =>
        /\ \A t \in Threads \ {Main} : pc[t] = "idle" /\ ~this[t]
        /\ pc[Main] \notin {"start", "create", "res_scan", "sus_lock"} \cup SuspendLocs

\* Where a thread is in its life, and what the lists and its flags say of it.
LifeInv ==
    /\ \A t \in Threads : pc[t] \in UnlistedLocs => t \notin listed
    /\ \A t \in Workers \cup {Main} : pc[t] \notin UnlistedLocs => t \in listed
    /\ \A t \in listed : isRunning[t] /\ hasAddr[t]
    /\ \A w \in Workers : w \in aboutToStart <=> pc[w] \in {"init", "add"}
    /\ \A w \in Workers : pc[w] \in {"init", "add"} =>
          /\ isRunning[w]
          /\ hasAddr[w] \/ \E t \in Threads : pc[t] = "create" /\ arg[t] = w
    /\ \A t \in External : pc[t] = "att_add" => isRunning[t] /\ hasAddr[t]
    /\ \A w \in Workers : joinEvent[w] => pc[w] \in {"delete", "gone"}
    /\ pc[Main] \notin UnlistedLocs \cup {"remove", "unlist", "addctx", "att_ctx", "att_flag"}
    /\ \A t \in Workers : pc[t] \notin {"att_add", "att_ctx", "att_flag"}
    /\ \A t \in External : pc[t] \notin {"init", "add", "addctx", "stopping", "signal",
                                         "delete", "gone"}
    /\ \A t \in Workers \cup {Main} :
          pc[t] \notin UnlistedLocs \cup {"addctx"} => t \in contexts

ArgInv ==
    /\ \A t \in Threads : pc[t] \in {"start", "create"} \cup JoinLocs => arg[t] \in Workers
    /\ \A t \in Threads : pc[t] \in {"joined", "ja_joined"} => joinEvent[arg[t]]
    /\ \A t \in Threads : pc[t] = "start" =>
          /\ pc[arg[t]] = "idle"
          /\ \A u \in Threads \ {t} : pc[u] = "start" => arg[u] # arg[t]

\* How far the traversal has come.
ScanInv ==
    /\ suspended \subseteq listed
    /\ slockOwner = null => suspended = {}
    /\ \A t \in Threads : slockOwner = t =>
          /\ t \notin suspended
          /\ pc[t] \in {"create", "ja_scan", "sus_cr"} => suspended = {}
          /\ pc[t] \in SuspendLocs \ {"sus_cr"} => suspended \subseteq visited[t]
          /\ pc[t] = "sus_scan" => visited[t] \ {t} \subseteq suspended
          /\ pc[t] \in {"sus_check", "sus_sleep", "sus_task"} =>
                /\ arg[t] \in listed \cap visited[t]
                /\ visited[t] \ {t, arg[t]} \subseteq suspended
          /\ Stopped(t) => listed \ {t} \subseteq suspended
          /\ pc[t] = "res_scan" => suspended \cap visited[t] = {}
    /\ \A t \in Threads : pc[t] = "sus_task" => ~inCR[arg[t]]
    /\ \A u \in suspended : ~inCR[u] /\ crOwner # u

\* Nothing fails but the assertion that every task meets that attaches.
FaultInv ==
    fault = "none" \/ (Asserts /\ External # {} /\ fault = "attachThread: bstack")

StateInv == /\ TypeOK /\ SlockInv /\ CRInv /\ DepthInv /\ AloneInv
            /\ LifeInv /\ ArgInv /\ ScanInv

RunInv == StateInv /\ fault = "none"

IInv == StateInv /\ FaultInv

-----------------------------------------------------------------------------
(* The initial state *)

\* The runtime starts with the main thread registered alone, slock free, nothing stopped.
LEMMA InitInv == Init => RunInv
<1> SUFFICES ASSUME Init PROVE RunInv
    OBVIOUS
<1> USE ThreadsAssumption DEF Threads, Init
<1>1. TypeOK /\ fault = "none"
  BY DEF TypeOK, Locations, Faults
<1>2. SlockInv /\ CRInv
  BY DEF SlockInv, CRInv, SlockLocs, CRLocs, Stopped
<1>3. DepthInv
  BY DEF DepthInv, SuspendLocs, Stopped
<1>4. AloneInv /\ ArgInv
  BY DEF AloneInv, ArgInv, SuspendLocs, JoinLocs
<1>5. LifeInv
  BY DEF LifeInv, UnlistedLocs
<1>6. ScanInv
  BY DEF ScanInv
<1> QED
  BY <1>1, <1>2, <1>3, <1>4, <1>5, <1>6 DEF RunInv, StateInv

-----------------------------------------------------------------------------
(* One lemma per group of actions.  An action that contains an assertion of the
   code is first shown to satisfy it. *)

\* start(), thread_entryPoint and attachThread keep the invariant: in particular
\* the new task finds m_addr set once it gets slock, and no world is stopped then.
LEMMA LifecycleInv ==
    ASSUME RunInv, LateAttach, NEW t \in Threads, Lifecycle(t)
    PROVE  RunInv'
<1> USE ThreadsAssumption, DepthAssumption
        DEF Threads, RunInv, StateInv, TypeOK, SlockInv, CRInv, DepthInv, AloneInv, LifeInv, ArgInv,
            ScanInv, Locations, SlockLocs, SuspendLocs, CRLocs, UnlistedLocs, JoinLocs,
            Stopped, Faults
<1>1. CASE StartCreate(t)
  <2>1. arg[t] \in Workers /\ pc[arg[t]] = "idle" /\ arg[t] # t /\ slockOwner = null
    BY <1>1 DEF StartCreate, At, SlockFree
  <2>2. SlockInv' /\ ScanInv'
    BY <1>1, <2>1 DEF StartCreate, At, LockSlock
  <2>3. TypeOK' /\ CRInv' /\ DepthInv'
    BY <1>1, <2>1 DEF StartCreate, At, LockSlock
  <2>4. LifeInv'
    BY <1>1, <2>1 DEF StartCreate, At
  <2>5. AloneInv' /\ ArgInv' /\ fault' = "none"
    BY <1>1, <2>1 DEF StartCreate, At
  <2> QED
    BY <2>2, <2>3, <2>4, <2>5
<1>2. CASE StartReturn(t)
  BY <1>2 DEF StartReturn, At, Goto, UnlockSlock, lists
<1>3. CASE EntryInit(t)
  BY <1>3 DEF EntryInit, At, Goto, lists, slock
<1>4. CASE EntryAdd(t)
  <2>1. Running(t) /\ suspendDepth = 0 /\ t \in aboutToStart
    BY <1>4 DEF EntryAdd, At, SlockFree, Running
  <2> QED
    BY <1>4, <2>1 DEF EntryAdd, AddThread, At, Goto, Running, SlockFree,
       lists, locals, object, slock
<1>5. CASE EntryAddContext(t)
  <2>1. suspendDepth = 0
    BY <1>5 DEF EntryAddContext, At, SlockFree
  <2> QED
    BY <1>5, <2>1, SMTT(30) DEF EntryAddContext, AddContext, At, Goto, SlockFree,
       lists, locals, object, slock
<1>6. CASE RemoveTest(t)
  BY <1>6 DEF RemoveTest, At, Goto, lists, object, slock
<1>7. CASE RemoveUnlist(t)
  BY <1>7 DEF RemoveUnlist, At, Goto, SlockFree, object, slock
<1>8. CASE EntryStop(t)
  BY <1>8 DEF EntryStop, At, Goto, lists, slock
<1>9. CASE EntrySignal(t)
  BY <1>9 DEF EntrySignal, At, Goto, lists, slock
<1>10. CASE EntryDelete(t)
  BY <1>10 DEF EntryDelete, At, Goto, lists, object, slock
<1>11. CASE AttachAdd(t)
  <2>1. Running(t) /\ suspendDepth = 0
    BY <1>11 DEF AttachAdd, At, SlockFree, Running
  <2> QED
    BY <1>11, <2>1 DEF AttachAdd, AddThread, At, Goto, Running, SlockFree,
       lists, locals, object, slock
<1>12. CASE AttachContext(t)
  <2>1. suspendDepth = 0
    BY <1>12 DEF AttachContext, At, SlockFree
  <2> QED
    BY <1>12, <2>1 DEF AttachContext, AddContext, At, Goto, SlockFree, lists,
       locals, object, slock
<1>13. CASE AttachFlag(t)
  BY <1>13 DEF AttachFlag, At, Goto, lists, object, slock
<1> QED
  BY <1>1, <1>2, <1>3, <1>4, <1>5, <1>6, <1>7, <1>8, <1>9, <1>10, <1>11,
     <1>12, <1>13 DEF Lifecycle

\* thread_suspendAll and suspend keep the invariant; suspend meets running threads
\* only and at least one of them.
LEMMA SuspendInv ==
    ASSUME RunInv, LateAttach, NEW t \in Threads, Suspend(t)
    PROVE  RunInv'
<1> USE ThreadsAssumption, DepthAssumption
        DEF Threads, RunInv, StateInv, TypeOK, SlockInv, CRInv, DepthInv, AloneInv, LifeInv, ArgInv,
            ScanInv, Locations, SlockLocs, SuspendLocs, CRLocs, UnlistedLocs, JoinLocs,
            Stopped, Faults
<1>1. CASE SuspendAllLock(t)
  BY <1>1 DEF SuspendAllLock, At, Goto, LockSlock, SlockFree, lists, object
<1>2. CASE SuspendAllLockCR(t)
  BY <1>2 DEF SuspendAllLockCR, At, Goto, lists, object, slock
<1>3. CASE SuspendAllNext(t)
  BY <1>3 DEF SuspendAllNext, At, Goto, lists, object, slock
<1>4. CASE SuspendCheck(t)
  <2>1. Running(arg[t])
    BY <1>4 DEF SuspendCheck, At, Running
  <2> QED
    BY <1>4, <2>1 DEF SuspendCheck, At, Goto, MustWaitFor, Running, lists,
       locals, object, slock
<1>5. CASE SuspendRetry(t)
  BY <1>5 DEF SuspendRetry, At, Goto, lists, object, slock
<1>6. CASE SuspendTask(t)
  <2>1. ScanInv'
    <3>1. CASE arg[t] = t
      BY <1>6, <3>1 DEF SuspendTask, At, Goto, SuspendSelf, lists, slock
    <3>2. CASE arg[t] # t
      <4>1. slockOwner = t /\ slockOwner' = t /\ suspended' = suspended \cup {arg[t]}
        BY <1>6, <3>2 DEF SuspendTask, At, slock
      <4>2. arg[t] \in listed /\ ~inCR[arg[t]] /\ crOwner = t
        BY <1>6, <4>1 DEF SuspendTask, At
      <4>3. /\ pc' = [pc EXCEPT ![t] = "sus_scan"]
            /\ arg' = [arg EXCEPT ![t] = null]
            /\ UNCHANGED <<visited, listed, inCR, crOwner>>
        BY <1>6, <3>2 DEF SuspendTask, Goto, lists
      <4>4. suspended \subseteq visited[t] /\ visited[t] \ {t, arg[t]} \subseteq suspended
        BY <1>6, <4>1 DEF SuspendTask, At
      <4>5. arg[t] \in visited[t]
        BY <1>6, <4>1 DEF SuspendTask, At
      <4>6. \A u \in Threads : pc'[u] # "sus_task"
        BY <4>1, <4>3
      <4> QED
        BY <3>2, <4>1, <4>2, <4>3, <4>4, <4>5, <4>6
    <3> QED BY <3>1, <3>2
  <2> QED
    BY <1>6, <2>1 DEF SuspendTask, At, Goto, SuspendSelf, lists, slock
<1>7. CASE SuspendAllEnd(t)
  <2>1. Main \in listed
    OBVIOUS
  <2>2. visited[t] # {}
    BY <1>7, <2>1 DEF SuspendAllEnd
  <2>3. /\ pc' = [pc EXCEPT ![t] = "run"]
        /\ visited' = [visited EXCEPT ![t] = {}]
        /\ crOwner' = null
        /\ UNCHANGED <<arg, myDepth, lists, object, slock, suspendDepth,
                       multiThreadedFlag, suspended, fault, detached>>
    BY <1>7, <2>2 DEF SuspendAllEnd, Goto
  <2>4. pc[t] = "sus_scan" /\ listed \subseteq visited[t]
    BY <1>7 DEF SuspendAllEnd, At
  <2> QED
    BY <2>3, <2>4 DEF lists, object, slock
<1> QED
  BY <1>1, <1>2, <1>3, <1>4, <1>5, <1>6, <1>7 DEF Suspend

\* thread_resumeAll keeps the invariant; it releases only a slock it owns.
LEMMA ResumeInv ==
    ASSUME RunInv, LateAttach, NEW t \in Threads, Resume(t) \/ ResumeCall(t)
    PROVE  RunInv'
<1> USE ThreadsAssumption, DepthAssumption
        DEF Threads, RunInv, StateInv, TypeOK, SlockInv, CRInv, DepthInv, AloneInv, LifeInv, ArgInv,
            ScanInv, Locations, SlockLocs, SuspendLocs, CRLocs, UnlistedLocs, JoinLocs,
            Stopped, Faults
<1>1. CASE ResumeTask(t)
  BY <1>1 DEF ResumeTask, At, ToResume, lists, slock
<1>2. CASE ResumeAllEnd(t)
  <2>1. slockOwner = t
    BY <1>2 DEF ResumeAllEnd, At
  <2> QED
    BY <1>2, <2>1, SMTT(30) DEF ResumeAllEnd, At, Goto, ToResume, UnlockSlock, lists,
       locals, object, slock
<1>3. CASE ResumeAllShortcut(t)
  BY <1>3 DEF ResumeAllShortcut, At, lists, slock
<1>4. CASE ResumeAllInner(t)
  <2>1. slockOwner = t
    BY <1>4 DEF ResumeAllInner, At
  <2> QED
    BY <1>4, <2>1 DEF ResumeAllInner, At, UnlockSlock, lists, locals,
       object, slock
<1>5. CASE ResumeAllBegin(t)
  BY <1>5 DEF ResumeAllBegin, At, Goto, lists, object, slock
<1> QED
  BY <1>1, <1>2, <1>3, <1>4, <1>5 DEF Resume, ResumeCall

\* join and thread_joinAll keep the invariant: m_addr is reset only for a thread
\* that has left the list.
LEMMA JoinInv ==
    ASSUME RunInv, LateAttach, NEW t \in Threads, Join(t) \/ JoinAll(t)
    PROVE  RunInv'
<1> USE ThreadsAssumption, DepthAssumption
        DEF Threads, RunInv, StateInv, TypeOK, SlockInv, CRInv, DepthInv, AloneInv, LifeInv, ArgInv,
            ScanInv, Locations, SlockLocs, SuspendLocs, CRLocs, UnlistedLocs, JoinLocs,
            Stopped, Faults
<1>1. CASE JoinWait(t, "join", "joined")
  BY <1>1 DEF JoinWait, At, Goto, lists, object, slock
<1>2. CASE JoinReturn(t, "joined", "run")
  BY <1>2 DEF JoinReturn, At, Goto, lists, slock
<1>3. CASE JoinAllLock(t)
  <2>1. CASE JoinAllMustYield
    <3>1. /\ pc[t] = "ja_lock"
          /\ pc' = [pc EXCEPT ![t] = "ja_yield"]
          /\ visited' = [visited EXCEPT ![t] = {}]
          /\ UNCHANGED <<arg, myDepth, lists, object, slock, crOwner, suspendDepth,
                         multiThreadedFlag, suspended, fault, detached>>
      BY <1>3, <2>1 DEF JoinAllLock, At, Goto
    <3>2. TypeOK'
      BY <3>1 DEF lists, object, slock
    <3> QED
      BY <3>1, <3>2 DEF lists, object, slock
  <2>2. CASE ~JoinAllMustYield
    BY <1>3, <2>2 DEF JoinAllLock, At, Goto, lists, object, SlockFree,
       LockSlock
  <2> QED BY <2>1, <2>2
<1>4. CASE JoinAllYield(t)
  BY <1>4 DEF JoinAllYield, At, Goto, lists, object, slock
<1>5. CASE JoinAllNext(t)
  <2>1. PICK u \in listed \ visited[t] :
           \/ /\ IsDaemon(u)
              /\ visited' = [visited EXCEPT ![t] = @ \cup {u}]
              /\ UNCHANGED <<pc, arg, slock>>
           \/ /\ ~IsDaemon(u)
              /\ UnlockSlock(t)
              /\ arg' = [arg EXCEPT ![t] = u]
              /\ pc' = [pc EXCEPT ![t] = "ja_join"]
              /\ UNCHANGED visited
    BY <1>5 DEF JoinAllNext, Running, Goto
  <2>2. pc[t] = "ja_scan" /\ UNCHANGED <<listed, contexts>>
    BY <1>5 DEF JoinAllNext, Running, At
  <2>3. UNCHANGED <<myDepth, aboutToStart, object, crOwner, suspendDepth,
                    multiThreadedFlag, suspended, fault, detached>>
    BY <1>5 DEF JoinAllNext
  <2>4. CASE UNCHANGED <<pc, arg, slock>> /\ visited' = [visited EXCEPT ![t] = @ \cup {u}]
    BY <2>2, <2>3, <2>4 DEF object, slock
  <2>5. CASE /\ ~IsDaemon(u) /\ UnlockSlock(t) /\ UNCHANGED visited
             /\ arg' = [arg EXCEPT ![t] = u] /\ pc' = [pc EXCEPT ![t] = "ja_join"]
    BY <2>2, <2>3, <2>5 DEF IsDaemon, UnlockSlock, object
  <2> QED
    BY <2>1, <2>4, <2>5
<1>6. CASE JoinWait(t, "ja_join", "ja_joined")
  BY <1>6 DEF JoinWait, At, Goto, lists, object, slock
<1>7. ASSUME NEW l \in {"term", "ja_lock"}, JoinReturn(t, "ja_joined", l)
      PROVE  RunInv'
  BY <1>7 DEF JoinReturn, At, Goto, lists, slock
<1>8. CASE JoinAllEnd(t)
  BY <1>8 DEF JoinAllEnd, At, Goto, UnlockSlock, lists, object
<1> QED
  BY <1>1, <1>2, <1>3, <1>4, <1>5, <1>6, <1>7, <1>8 DEF Join, JoinAll,
     JoinAllJoin

\* The calls a program makes keep the invariant; the shortcut of suspendAll is taken
\* by the main task alone.
LEMMA CallInv ==
    ASSUME RunInv, LateAttach, NEW t \in Threads, Calls(t) \/ SetCriticalRegion(t),
           AttachBegin(t) => ~Asserts
    PROVE  RunInv'
<1> USE ThreadsAssumption, DepthAssumption
        DEF Threads, RunInv, StateInv, TypeOK, SlockInv, CRInv, DepthInv, AloneInv, LifeInv, ArgInv,
            ScanInv, Locations, SlockLocs, SuspendLocs, CRLocs, UnlistedLocs, JoinLocs,
            Stopped, Faults
<1>1. CASE SuspendAllShortcut(t)
  <2>1. Running(t)
    BY <1>1 DEF SuspendAllShortcut, MayCallSuspendAll, At, Running
  <2> QED
    BY <1>1, <2>1 DEF SuspendAllShortcut, At, MayCallSuspendAll, Running,
       SuspendSelf, lists, locals, object, slock
<1>2. CASE SuspendAllBegin(t)
  BY <1>2 DEF SuspendAllBegin, At, Goto, MayCallSuspendAll, lists, object,
     slock
<1>3. CASE EnterCriticalRegion(t)
  BY <1>3 DEF EnterCriticalRegion, At, Free, Goto, lists, object, slock
<1>4. CASE ExitCriticalRegion(t)
  BY <1>4 DEF ExitCriticalRegion, At, Goto, lists, object, slock
<1>5. CASE SetCriticalRegion(t)
  BY <1>5 DEF SetCriticalRegion, At, Goto, lists, slock
<1>6. CASE AttachBegin(t)
  <2>1. /\ pc[t] = "idle" /\ t \in External /\ ~this[t] /\ multiThreadedFlag
        /\ pc' = [pc EXCEPT ![t] = "att_add"]
        /\ hasAddr' = [hasAddr EXCEPT ![t] = TRUE]
        /\ isRunning' = [isRunning EXCEPT ![t] = TRUE]
        /\ this' = [this EXCEPT ![t] = TRUE]
        /\ tstack' = [tstack EXCEPT ![t] = "bottom"]
        /\ UNCHANGED <<arg, visited, myDepth, lists, joinEvent, inCR, stackFreed, slock,
                       crOwner, suspendDepth, multiThreadedFlag, suspended, fault,
                       detached>>
    BY <1>6 DEF AttachBegin, At, Goto
  <2>2. /\ hasAddr' \in [Threads -> BOOLEAN]
        /\ isRunning' \in [Threads -> BOOLEAN]
        /\ this' \in [Threads -> BOOLEAN]
    BY <2>1
  <2>3. TypeOK'
    BY <2>1, <2>2 DEF lists, slock
  <2> QED
    BY <2>1, <2>3 DEF lists, slock
<1>7. CASE Detach(t)
  BY <1>7 DEF Detach, At, Free, Goto, lists, object, slock
<1>8. CASE Finish(t)
  BY <1>8 DEF Finish, At, Free, Goto, lists, object, slock
<1>9. CASE JoinAllBegin(t)
  BY <1>9 DEF JoinAllBegin, At, Free, Goto, lists, object, slock
<1>10. ASSUME NEW w \in Workers, StartFlag(t, w)
      PROVE  RunInv'
  BY <1>10 DEF StartFlag, At, Free, Goto, lists, object, slock
<1>11. ASSUME NEW w \in Workers, JoinBegin(t, w)
      PROVE  RunInv'
  BY <1>11 DEF JoinBegin, At, Free, Goto, lists, object, slock
<1>12. ASSUME NEW w \in Workers, Finalize(t, w)
      PROVE  RunInv'
  BY <1>12 DEF Finalize, At, Free, lists, locals, slock
<1>13. CASE ResumeCall(t)
  BY <1>13, ResumeInv
<1>14. CASE AttachAgain(t)
  BY <1>14 DEF AttachAgain, At, Goto, lists, object, slock
<1> QED
  BY <1>1, <1>2, <1>3, <1>4, <1>5, <1>6, <1>7, <1>8, <1>9, <1>10, <1>11,
     <1>12, <1>13, <1>14 DEF Calls

\* A task that attaches to a library with assertions ends the program.
LEMMA AttachFails ==
    ASSUME RunInv, NEW t \in Threads, AttachBegin(t), Asserts
    PROVE  IInv'
<1>1. FaultInv' /\ fault' \in Faults
  BY DEF AttachBegin, Fail, FaultInv, Faults
<1>2. UNCHANGED <<locals, lists, object, slock, crOwner, suspendDepth,
                  multiThreadedFlag, suspended, detached>>
  BY DEF AttachBegin, Fail
<1>3. TypeOK'
  BY <1>1, <1>2 DEF locals, lists, object, slock, RunInv, StateInv, TypeOK
<1>4. SlockInv' /\ CRInv' /\ DepthInv' /\ AloneInv'
  BY <1>2 DEF locals, lists, object, slock, RunInv, StateInv, SlockInv, CRInv, DepthInv,
     AloneInv, Stopped
<1>5. LifeInv' /\ ArgInv' /\ ScanInv'
  BY <1>2 DEF locals, lists, object, slock, RunInv, StateInv, LifeInv, ArgInv, ScanInv, Stopped
<1> QED
  BY <1>1, <1>3, <1>4, <1>5 DEF IInv, StateInv

\* Once something has failed no task takes another step.
LEMMA NoStepAfterFault ==
    ASSUME fault # "none", NEW t \in Threads, Steps(t) \/ Calls(t)
    PROVE  FALSE
<1>1. ~Lifecycle(t)
  BY DEF Lifecycle, StartCreate, StartReturn, EntryInit, EntryAdd, EntryAddContext, RemoveTest,
     RemoveUnlist, EntryStop, EntrySignal, EntryDelete, AttachAdd, AttachContext,
     AttachFlag, At
<1>2. ~Suspend(t) /\ ~Resume(t) /\ ~ResumeCall(t)
  BY DEF Suspend, SuspendAllLock, SuspendAllLockCR, SuspendAllNext, SuspendCheck,
     SuspendRetry, SuspendTask, SuspendAllEnd, Resume, ResumeTask, ResumeAllEnd, ResumeCall,
     ResumeAllShortcut, ResumeAllInner, ResumeAllBegin, At
<1>3. ~SetCriticalRegion(t) /\ ~Join(t) /\ ~JoinAll(t)
  BY DEF SetCriticalRegion, Join, JoinWait, JoinReturn, JoinAll, JoinAllLock, JoinAllYield,
     JoinAllNext, JoinAllJoin, JoinAllEnd, At
<1>4. ~Calls(t)
  BY <1>2 DEF Calls, StartFlag, JoinBegin, Finalize, AttachBegin, AttachAgain, Detach, Finish,
     SuspendAllShortcut, SuspendAllBegin, MayCallSuspendAll, EnterCriticalRegion,
     ExitCriticalRegion, JoinAllBegin, Free, At
<1> QED
  BY <1>1, <1>2, <1>3, <1>4 DEF Steps

\* Every step of every thread of the registry keeps the invariant.
LEMMA NextInv == IInv /\ LateAttach /\ [Next]_vars => IInv'
<1> SUFFICES ASSUME IInv, LateAttach, [Next]_vars PROVE IInv'
    OBVIOUS
<1>1. CASE UNCHANGED vars
  <2>1. TypeOK' /\ FaultInv'
    BY <1>1 DEF vars, locals, lists, object, slock, IInv, StateInv, TypeOK, FaultInv
  <2>2. SlockInv' /\ CRInv' /\ DepthInv' /\ AloneInv'
    BY <1>1 DEF vars, locals, lists, object, slock, IInv, StateInv, SlockInv, CRInv,
       DepthInv, AloneInv, Stopped
  <2>3. LifeInv' /\ ArgInv' /\ ScanInv'
    BY <1>1 DEF vars, locals, lists, object, slock, IInv, StateInv, LifeInv, ArgInv,
       ScanInv, Stopped
  <2> QED
    BY <2>1, <2>2, <2>3 DEF IInv, StateInv
<1>2. ASSUME NEW t \in Threads, Steps(t) \/ Calls(t)
      PROVE  IInv'
  <2>1. RunInv
    BY <1>2, NoStepAfterFault DEF IInv, RunInv
  <2>2. CASE AttachBegin(t) /\ Asserts
    BY <2>1, <2>2, AttachFails
  <2>3. CASE ~(AttachBegin(t) /\ Asserts)
    <3>1. RunInv'
      BY <1>2, <2>1, <2>3, LifecycleInv, SuspendInv, ResumeInv, JoinInv, CallInv DEF Steps
    <3> QED
      BY <3>1 DEF RunInv, IInv, FaultInv
  <2> QED
    BY <2>2, <2>3
<1> QED
  BY <1>1, <1>2 DEF Next, Terminated

-----------------------------------------------------------------------------
(* Theorems *)

\* The registry's inductive invariant, for programs whose external tasks attach only
\* once the program is multithreaded.
THEOREM Invariant == LateAttach => (Spec => []IInv)
<1> SUFFICES ASSUME LateAttach PROVE Spec => []IInv
    OBVIOUS
<1>1. Init => IInv
  BY InitInv DEF IInv, RunInv, FaultInv
<1>2. IInv /\ [Next]_vars => IInv'
  BY NextInv
<1> QED
  BY <1>1, <1>2, PTL DEF Spec

\* Every variable keeps the type its declaration gives it.
THEOREM TypeCorrect == LateAttach /\ Spec => []TypeOK
<1>1. IInv => TypeOK
  BY DEF IInv, StateInv
<1> QED
  BY <1>1, Invariant, PTL

\* When thread_suspendAll has returned, no registered thread but the caller can run
\* and none was stopped inside a critical region.
THEOREM StopsTheWorld == LateAttach /\ Spec => []WorldStopped
<1>1. IInv => WorldStopped
  BY DEF IInv, StateInv, ScanInv, Stopped, WorldStopped, WorldStoppedBy
<1> QED
  BY <1>1, Invariant, PTL

\* A suspended task holds neither slock nor criticalRegionLock.
THEOREM LocksAvailable == LateAttach /\ Spec => []SuspendedHoldsNoLock
<1>1. IInv => SuspendedHoldsNoLock
  BY DEF IInv, StateInv, TypeOK, ScanInv, SuspendedHoldsNoLock
<1> QED
  BY <1>1, Invariant, PTL

\* thread_resumeAll leaves no task suspended.
THEOREM ResumesTheWorld == LateAttach /\ Spec => []NoneLeftSuspended
<1>1. IInv => NoneLeftSuspended
  BY DEF IInv, StateInv, ScanInv, NoneLeftSuspended
<1> QED
  BY <1>1, Invariant, PTL

\* No assertion of attachThread, add and suspendAll fails, no mutex is unlocked by
\* another than its owner and suspend() never reaches the unimplemented Thread.remove,
\* with the assertions compiled in as long as no task attaches, and without them for
\* tasks that attach as well.  Where there are both, every attach fails.
THEOREM AssertionsHold ==
    LateAttach /\ (Asserts => External = {}) => (Spec => []NoFault)
<1> SUFFICES ASSUME LateAttach, Asserts => External = {} PROVE Spec => []NoFault
    OBVIOUS
<1>1. IInv => NoFault
  BY DEF IInv, FaultInv, NoFault
<1> QED
  BY <1>1, Invariant, PTL

\* A thread that takes slock to add itself to a list finds suspendDepth 0, even where
\* no assertion looks.
THEOREM AddsWhileRunning == LateAttach /\ Spec => []AddFindsNoneStopped
<1>1. ASSUME IInv, NEW t \in Threads \ suspended, SlockFree(t),
             pc[t] \in {"add", "addctx", "att_add", "att_ctx"}, suspendDepth # 0
      PROVE  FALSE
  <2>1. PICK u \in Threads : myDepth[u] = suspendDepth /\ myDepth[u] > 0
    BY <1>1 DEF IInv, StateInv, TypeOK, DepthInv
  <2>2. multiThreadedFlag
    BY <1>1, <2>1 DEF IInv, StateInv, AloneInv, LifeInv, Threads, DepthInv, SuspendLocs, UnlistedLocs
  <2>3. slockOwner = u
    BY <2>1, <2>2, <1>1 DEF IInv, StateInv, DepthInv, SlockInv, Stopped, SuspendLocs, SlockLocs
  <2> QED
    BY <1>1, <2>1, <2>3, ThreadsAssumption
       DEF IInv, StateInv, SlockFree, DepthInv, SuspendLocs, Threads
<1>2. IInv => AddFindsNoneStopped
  BY <1>1 DEF AddFindsNoneStopped
<1> QED
  BY <1>2, Invariant, PTL

-----------------------------------------------------------------------------
(* External tasks.  A task that has never called thread_detachThis is taken *)
(* from the lists by nobody else: JoinAllNext removes threads that do not   *)
(* run, and those that are listed do.                                       *)

AttachInv ==
    \A e \in External \ detached :
        /\ pc[e] = "idle" => ~this[e]
        /\ pc[e] \notin {"idle", "att_add"} => e \in listed
        /\ pc[e] \notin {"idle", "att_add", "att_ctx"} => e \in contexts
        /\ pc[e] \notin {"remove", "unlist"}

\* What a step of t may do to an external task e.
Leaves(t, e) ==
    /\ t # e => pc'[e] = pc[e] /\ this'[e] = this[e]
    /\ e \in listed /\ pc[e] # "unlist" => e \in listed'
    /\ e \in listed /\ e \in contexts /\ pc[e] # "unlist" => e \in contexts'
    /\ detached \subseteq detached'

\* A task disturbs an external task neither in its place nor in the lists.
LEMMA OthersLeave ==
    ASSUME IInv, NEW t \in Threads, NEW e \in External, Steps(t) \/ Calls(t)
    PROVE  Leaves(t, e)
<1> USE DEF Leaves, At, Goto, Fail, locals, lists, object
<1>0. /\ pc \in [Threads -> Locations] /\ this \in [Threads -> BOOLEAN]
      /\ e \in Threads
      /\ pc[t] = "start" => arg[t] \in Workers /\ arg[t] # e
      /\ \A u \in listed : Running(u)
  BY ThreadsAssumption
     DEF IInv, StateInv, TypeOK, ArgInv, LifeInv, JoinLocs, Threads, Running
<1>1. ASSUME Lifecycle(t) PROVE Leaves(t, e)
  <2>1. CASE StartCreate(t)
    BY <1>0, <2>1 DEF StartCreate
  <2>2. CASE StartReturn(t) \/ EntryInit(t) \/ EntryStop(t) \/ EntrySignal(t) \/ EntryDelete(t)
    BY <1>0, <2>2 DEF StartReturn, EntryInit, EntryStop, EntrySignal, EntryDelete
  <2>3. CASE EntryAdd(t) \/ EntryAddContext(t) \/ AttachAdd(t) \/ AttachContext(t)
    BY <1>0, <2>3 DEF EntryAdd, EntryAddContext, AttachAdd, AttachContext, AddThread, AddContext
  <2>4. CASE RemoveTest(t) \/ RemoveUnlist(t) \/ AttachFlag(t)
    BY <1>0, <2>4 DEF RemoveTest, RemoveUnlist, AttachFlag
  <2> QED
    BY <1>1, <2>1, <2>2, <2>3, <2>4 DEF Lifecycle
<1>2. ASSUME Suspend(t) PROVE Leaves(t, e)
  BY <1>0, <1>2 DEF Suspend, SuspendAllLock, SuspendAllLockCR, SuspendAllNext, SuspendCheck,
     SuspendRetry, SuspendTask, SuspendSelf, SuspendAllEnd
<1>3. ASSUME Resume(t) \/ ResumeCall(t) PROVE Leaves(t, e)
  BY <1>0, <1>3 DEF Resume, ResumeCall, ResumeTask, ResumeAllEnd, ResumeAllShortcut,
     ResumeAllInner, ResumeAllBegin
<1>4. ASSUME SetCriticalRegion(t) \/ Join(t) PROVE Leaves(t, e)
  BY <1>0, <1>4 DEF SetCriticalRegion, Join, JoinWait, JoinReturn
<1>5. ASSUME JoinAll(t) PROVE Leaves(t, e)
  <2>1. CASE JoinAllNext(t)
    BY <1>0, <2>1 DEF JoinAllNext
  <2>2. CASE JoinAllLock(t) \/ JoinAllYield(t) \/ JoinAllJoin(t) \/ JoinAllEnd(t)
    BY <1>0, <2>2 DEF JoinAllLock, JoinAllYield, JoinAllJoin, JoinWait, JoinReturn, JoinAllEnd
  <2> QED
    BY <1>5, <2>1, <2>2 DEF JoinAll
<1>6. ASSUME Calls(t), ~ResumeCall(t) PROVE Leaves(t, e)
  <2>1. ASSUME NEW w \in Workers, StartFlag(t, w) \/ JoinBegin(t, w) \/ Finalize(t, w)
        PROVE  Leaves(t, e)
    BY <1>0, <2>1 DEF StartFlag, JoinBegin, Finalize
  <2>2. CASE AttachBegin(t) \/ AttachAgain(t) \/ Detach(t) \/ Finish(t) \/ JoinAllBegin(t)
    BY <1>0, <2>2 DEF AttachBegin, AttachAgain, Detach, Finish, JoinAllBegin
  <2>3. CASE SuspendAllShortcut(t) \/ SuspendAllBegin(t)
    BY <1>0, <2>3 DEF SuspendAllShortcut, SuspendAllBegin
  <2>4. CASE EnterCriticalRegion(t) \/ ExitCriticalRegion(t)
    BY <1>0, <2>4 DEF EnterCriticalRegion, ExitCriticalRegion
  <2> QED
    BY <1>6, <2>1, <2>2, <2>3, <2>4 DEF Calls
<1> QED
  BY <1>1, <1>2, <1>3, <1>4, <1>5, <1>6 DEF Steps

\* Where an external task goes by itself.
LEMMA OwnStep ==
    ASSUME IInv, NEW e \in External, Steps(e) \/ Calls(e)
    PROVE  /\ pc'[e] = "idle" => pc[e] \in {"remove", "unlist"} \/ (pc[e] = "idle" /\ this' = this)
           /\ pc'[e] \in {"remove", "unlist"} => e \in detached' \/ pc[e] = "remove"
           /\ pc[e] = "idle" /\ ~this[e] => pc'[e] \in {"idle", "att_add"}
           /\ pc[e] = "att_add" => pc'[e] = "att_add" \/ (pc'[e] = "att_ctx" /\ e \in listed')
           /\ pc[e] = "att_ctx" => pc'[e] = "att_ctx" \/ e \in contexts'
<1> DEFINE P ==
    /\ pc'[e] = "idle" => pc[e] \in {"remove", "unlist"} \/ (pc[e] = "idle" /\ this' = this)
    /\ pc'[e] \in {"remove", "unlist"} => e \in detached' \/ pc[e] = "remove"
    /\ pc[e] = "idle" /\ ~this[e] => pc'[e] \in {"idle", "att_add"}
    /\ pc[e] = "att_add" => pc'[e] = "att_add" \/ (pc'[e] = "att_ctx" /\ e \in listed')
    /\ pc[e] = "att_ctx" => pc'[e] = "att_ctx" \/ e \in contexts'
<1> SUFFICES P
    OBVIOUS
<1> USE DEF At, Free, Goto, Fail, locals, lists, object
<1>0. /\ pc \in [Threads -> Locations] /\ this \in [Threads -> BOOLEAN]
      /\ e \in Threads /\ e \notin Workers
      /\ pc[e] \notin {"init", "add", "addctx", "stopping", "signal", "delete", "gone"}
      /\ pc[e] = "start" => arg[e] \in Workers
  BY ThreadsAssumption DEF IInv, StateInv, TypeOK, LifeInv, ArgInv, JoinLocs, Threads
<1>1. ASSUME Lifecycle(e) PROVE P
  <2>1. CASE StartCreate(e) \/ StartReturn(e)
    BY <1>0, <2>1 DEF StartCreate, StartReturn
  <2>2. CASE EntryInit(e) \/ EntryAdd(e) \/ EntryAddContext(e) \/ EntryStop(e)
             \/ EntrySignal(e) \/ EntryDelete(e)
    BY <1>0, <2>2 DEF EntryInit, EntryAdd, EntryAddContext, EntryStop, EntrySignal, EntryDelete
  <2>3. CASE AttachAdd(e) \/ AttachContext(e) \/ AttachFlag(e)
    BY <1>0, <2>3 DEF AttachAdd, AttachContext, AttachFlag, AddThread, AddContext
  <2>4. CASE RemoveTest(e) \/ RemoveUnlist(e)
    BY <1>0, <2>4 DEF RemoveTest, RemoveUnlist
  <2> QED
    BY <1>1, <2>1, <2>2, <2>3, <2>4 DEF Lifecycle
<1>2. ASSUME Suspend(e) \/ Resume(e) \/ ResumeCall(e) PROVE P
  BY <1>0, <1>2 DEF Suspend, SuspendAllLock, SuspendAllLockCR, SuspendAllNext, SuspendCheck,
     SuspendRetry, SuspendTask, SuspendAllEnd, Resume, ResumeCall, ResumeTask, ResumeAllEnd,
     ResumeAllShortcut, ResumeAllInner, ResumeAllBegin
<1>3. ASSUME SetCriticalRegion(e) \/ Join(e) PROVE P
  BY <1>0, <1>3 DEF SetCriticalRegion, Join, JoinWait, JoinReturn
<1>4. ASSUME JoinAll(e) PROVE P
  <2>1. CASE JoinAllNext(e)
    BY <1>0, <2>1 DEF JoinAllNext
  <2>2. CASE JoinAllLock(e) \/ JoinAllYield(e) \/ JoinAllJoin(e) \/ JoinAllEnd(e)
    BY <1>0, <2>2 DEF JoinAllLock, JoinAllYield, JoinAllJoin, JoinWait, JoinReturn, JoinAllEnd
  <2> QED
    BY <1>4, <2>1, <2>2 DEF JoinAll
<1>5. ASSUME Calls(e), ~ResumeCall(e) PROVE P
  <2>1. ASSUME NEW w \in Workers, StartFlag(e, w) \/ JoinBegin(e, w) \/ Finalize(e, w)
        PROVE  P
    BY <1>0, <2>1 DEF StartFlag, JoinBegin, Finalize
  <2>2. CASE AttachBegin(e) \/ AttachAgain(e) \/ Detach(e) \/ Finish(e) \/ JoinAllBegin(e)
    BY <1>0, <2>2 DEF AttachBegin, AttachAgain, Detach, Finish, JoinAllBegin
  <2>3. CASE SuspendAllShortcut(e) \/ SuspendAllBegin(e)
    BY <1>0, <2>3 DEF SuspendAllShortcut, SuspendAllBegin, MayCallSuspendAll
  <2>4. CASE EnterCriticalRegion(e) \/ ExitCriticalRegion(e)
    BY <1>0, <2>4 DEF EnterCriticalRegion, ExitCriticalRegion
  <2> QED
    BY <1>5, <2>1, <2>2, <2>3, <2>4 DEF Calls
<1> HIDE DEF P
<1> QED
  BY <1>1, <1>2, <1>3, <1>4, <1>5 DEF Steps

\* Every step keeps AttachInv.
LEMMA AttachStep == IInv /\ AttachInv /\ [Next]_vars => AttachInv'
<1> SUFFICES ASSUME IInv, AttachInv, [Next]_vars, NEW e \in External \ detached'
             PROVE  /\ pc'[e] = "idle" => ~this'[e]
                    /\ pc'[e] \notin {"idle", "att_add"} => e \in listed'
                    /\ pc'[e] \notin {"idle", "att_add", "att_ctx"} => e \in contexts'
                    /\ pc'[e] \notin {"remove", "unlist"}
  BY DEF AttachInv
<1>1. CASE UNCHANGED vars
  BY <1>1 DEF vars, locals, lists, object, AttachInv
<1>2. ASSUME NEW t \in Threads, Steps(t) \/ Calls(t)
      PROVE  /\ pc'[e] = "idle" => ~this'[e]
             /\ pc'[e] \notin {"idle", "att_add"} => e \in listed'
             /\ pc'[e] \notin {"idle", "att_add", "att_ctx"} => e \in contexts'
             /\ pc'[e] \notin {"remove", "unlist"}
  <2>1. Leaves(t, e)
    BY <1>2, OthersLeave
  <2>2. /\ e \notin detached
        /\ pc[e] = "idle" => ~this[e]
        /\ pc[e] \notin {"idle", "att_add"} => e \in listed
        /\ pc[e] \notin {"idle", "att_add", "att_ctx"} => e \in contexts
        /\ pc[e] \notin {"remove", "unlist"}
    BY <2>1 DEF Leaves, AttachInv
  <2>3. CASE t # e
    BY <2>1, <2>2, <2>3 DEF Leaves
  <2>4. CASE t = e
    <3>1. /\ pc'[e] = "idle" => pc[e] = "idle" /\ this' = this
          /\ pc'[e] \notin {"remove", "unlist"}
          /\ pc[e] = "idle" => pc'[e] \in {"idle", "att_add"}
          /\ pc[e] = "att_add" => pc'[e] = "att_add" \/ (pc'[e] = "att_ctx" /\ e \in listed')
          /\ pc[e] = "att_ctx" => pc'[e] = "att_ctx" \/ e \in contexts'
      BY <1>2, <2>2, <2>4, OwnStep
    <3> QED
      BY <2>1, <2>2, <3>1 DEF Leaves
  <2> QED
    BY <2>3, <2>4
<1> QED
  BY <1>1, <1>2 DEF Next, Terminated

\* The main thread, a worker from obj.run() on and an external task between its first
\* attach and its first detach are in the thread list while they are in user code, and
\* their stacks in the context list.
THEOREM RunningIsRegistered == LateAttach /\ Spec => []RegisteredWhileRunning
<1>1. Init => AttachInv
  BY ThreadsAssumption DEF Init, AttachInv, Threads
<1>2. IInv /\ AttachInv => RegisteredWhileRunning
  BY DEF IInv, StateInv, LifeInv, AttachInv, UnlistedLocs, RegisteredWhileRunning, Threads
<1> QED
  BY <1>1, <1>2, AttachStep, Invariant, PTL DEF Spec

-----------------------------------------------------------------------------
(* thread_joinAll.  While it traverses the list it holds slock, so nobody   *)
(* is about to start, and it leaves no thread behind but the main thread:   *)
(* where it comes to the end of the list the list is empty but for main.    *)
(* A thread that is no longer listed runs no user code, and starts nobody.  *)

\* Locations of a worker that is not started, or has left the lists for good.
QuietLocs == {"idle", "stopping", "signal", "delete", "gone"}

JoinableOnly == Throwing = {} /\ Daemons = {} /\ External = {}

JoinAllInv ==
    JoinableOnly =>
        /\ pc[Main] = "ja_scan" => aboutToStart = {} /\ visited[Main] \subseteq {Main}
        /\ pc[Main] = "term" => \A w \in Workers : pc[w] \in QuietLocs

\* What a step of t may do to the others and to pAboutToStart.
Frame(t) ==
    /\ \A u \in Threads \ {t} : visited'[u] = visited[u]
    /\ \A u \in Threads \ {t} : pc'[u] = pc[u] \/ (pc[t] = "start" /\ u \in Workers)
    /\ aboutToStart' \subseteq aboutToStart \/ (pc[t] = "start" /\ slockOwner \in {null, t})
    /\ pc[t] \in QuietLocs => pc'[t] \in QuietLocs
    /\ pc[t] # "term"
    /\ pc'[t] = "term" => JoinAllEnd(t) \/ (arg[t] \in Throwing /\ JoinAllJoin(t))
    /\ pc'[t] = "ja_scan" => JoinAllLock(t) \/ JoinAllNext(t)

\* A task moves nobody else but the thread it starts, and that under slock.
LEMMA StepFrame ==
    ASSUME IInv, NEW t \in {Main} \cup Workers, Steps(t) \/ Calls(t)
    PROVE  Frame(t)
<1> USE DEF Frame, QuietLocs, At, Goto, Fail, locals, lists
<1>0. /\ pc \in [Threads -> Locations] /\ visited \in [Threads -> SUBSET Threads]
      /\ t \in Threads /\ t \notin External
      /\ pc[t] = "start" => arg[t] \in Workers /\ arg[t] # t
  BY ThreadsAssumption DEF IInv, StateInv, TypeOK, ArgInv, JoinLocs, Threads, LifeInv
<1>1. ASSUME Lifecycle(t) PROVE Frame(t)
  <2>1. CASE StartCreate(t)
    BY <1>0, <2>1 DEF StartCreate, SlockFree
  <2>2. CASE StartReturn(t) \/ EntryInit(t) \/ EntryStop(t) \/ EntrySignal(t) \/ EntryDelete(t)
    BY <1>0, <2>2 DEF StartReturn, EntryInit, EntryStop, EntrySignal, EntryDelete
  <2>3. CASE EntryAdd(t) \/ EntryAddContext(t)
    BY <1>0, <2>3 DEF EntryAdd, EntryAddContext, AddThread, AddContext
  <2>4. CASE RemoveTest(t) \/ RemoveUnlist(t)
    BY <1>0, <2>4 DEF RemoveTest, RemoveUnlist
  <2>5. CASE AttachAdd(t) \/ AttachContext(t) \/ AttachFlag(t)
    BY <1>0, <2>5 DEF AttachAdd, AttachContext, AttachFlag, AddThread, AddContext
  <2> QED
    BY <1>1, <2>1, <2>2, <2>3, <2>4, <2>5 DEF Lifecycle
<1>2. ASSUME Suspend(t) PROVE Frame(t)
  <2>1. CASE SuspendAllLock(t) \/ SuspendAllLockCR(t) \/ SuspendAllNext(t)
    BY <1>0, <2>1 DEF SuspendAllLock, SuspendAllLockCR, SuspendAllNext
  <2>2. CASE SuspendCheck(t) \/ SuspendRetry(t)
    BY <1>0, <2>2 DEF SuspendCheck, SuspendRetry
  <2>3. CASE SuspendTask(t) \/ SuspendAllEnd(t)
    BY <1>0, <2>3 DEF SuspendTask, SuspendAllEnd
  <2> QED
    BY <1>2, <2>1, <2>2, <2>3 DEF Suspend
<1>3. ASSUME Resume(t) \/ ResumeCall(t) PROVE Frame(t)
  BY <1>0, <1>3 DEF Resume, ResumeCall, ResumeTask, ResumeAllEnd, ResumeAllShortcut,
     ResumeAllInner, ResumeAllBegin
<1>4. ASSUME SetCriticalRegion(t) PROVE Frame(t)
  BY <1>0, <1>4 DEF SetCriticalRegion
<1>5. ASSUME Join(t) PROVE Frame(t)
  BY <1>0, <1>5 DEF Join, JoinWait, JoinReturn
<1>6. ASSUME JoinAll(t) PROVE Frame(t)
  <2>1. CASE JoinAllLock(t) \/ JoinAllYield(t)
    BY <1>0, <2>1 DEF JoinAllLock, JoinAllYield
  <2>2. CASE JoinAllNext(t)
    BY <1>0, <2>2 DEF JoinAllNext
  <2>3. CASE JoinAllJoin(t)
    BY <1>0, <2>3 DEF JoinAllJoin, JoinWait, JoinReturn
  <2>4. CASE JoinAllEnd(t)
    BY <1>0, <2>4 DEF JoinAllEnd
  <2> QED
    BY <1>6, <2>1, <2>2, <2>3, <2>4 DEF JoinAll
<1>7. ASSUME Calls(t), ~ResumeCall(t) PROVE Frame(t)
  <2>1. ASSUME NEW w \in Workers, StartFlag(t, w) \/ JoinBegin(t, w) \/ Finalize(t, w)
        PROVE  Frame(t)
    BY <1>0, <2>1 DEF StartFlag, JoinBegin, Finalize, Free
  <2>2. CASE AttachBegin(t) \/ AttachAgain(t) \/ Detach(t) \/ Finish(t) \/ JoinAllBegin(t)
    BY <1>0, <2>2 DEF AttachBegin, AttachAgain, Detach, Finish, JoinAllBegin, Free
  <2>3. CASE SuspendAllShortcut(t) \/ SuspendAllBegin(t)
    BY <1>0, <2>3 DEF SuspendAllShortcut, SuspendAllBegin, MayCallSuspendAll
  <2>4. CASE EnterCriticalRegion(t) \/ ExitCriticalRegion(t)
    BY <1>0, <2>4 DEF EnterCriticalRegion, ExitCriticalRegion, Free
  <2> QED
    BY <1>7, <2>1, <2>2, <2>3, <2>4 DEF Calls
<1> QED
  BY <1>1, <1>2, <1>3, <1>4, <1>5, <1>6, <1>7 DEF Steps

\* Every step keeps JoinAllInv.
LEMMA JoinAllStep == IInv /\ JoinAllInv /\ [Next]_vars => JoinAllInv'
<1> SUFFICES ASSUME IInv, JoinAllInv, JoinableOnly, [Next]_vars
             PROVE  /\ pc'[Main] = "ja_scan" =>
                          aboutToStart' = {} /\ visited'[Main] \subseteq {Main}
                    /\ pc'[Main] = "term" => \A w \in Workers : pc'[w] \in QuietLocs
  BY DEF JoinAllInv, JoinableOnly
<1>0. /\ pc \in [Threads -> Locations] /\ visited \in [Threads -> SUBSET Threads]
      /\ Threads = {Main} \cup Workers /\ Main \notin Workers /\ null \notin Threads
      /\ pc[Main] = "ja_scan" => aboutToStart = {} /\ visited[Main] \subseteq {Main}
      /\ pc[Main] = "term" => \A w \in Workers : pc[w] \in QuietLocs
      /\ pc[Main] = "ja_scan" => slockOwner = Main
  BY ThreadsAssumption DEF IInv, StateInv, TypeOK, Threads, JoinAllInv, JoinableOnly, SlockInv, SlockLocs
<1>1. CASE UNCHANGED vars
  BY <1>0, <1>1 DEF vars, locals, lists
<1>2. ASSUME NEW t \in Workers, Steps(t) \/ Calls(t)
      PROVE  /\ pc'[Main] = "ja_scan" => aboutToStart' = {} /\ visited'[Main] \subseteq {Main}
             /\ pc'[Main] = "term" => \A w \in Workers : pc'[w] \in QuietLocs
  <2>1. Frame(t)
    BY <1>2, StepFrame
  <2>2. pc'[Main] = pc[Main] /\ visited'[Main] = visited[Main]
    BY <1>0, <2>1 DEF Frame
  <2>3. CASE pc[Main] = "ja_scan"
    BY <1>0, <2>1, <2>2, <2>3 DEF Frame
  <2>4. CASE pc[Main] = "term"
    BY <1>0, <2>1, <2>2, <2>4 DEF Frame, QuietLocs
  <2> QED
    BY <2>2, <2>3, <2>4
<1>3. ASSUME Steps(Main) \/ Calls(Main)
      PROVE  /\ pc'[Main] = "ja_scan" => aboutToStart' = {} /\ visited'[Main] \subseteq {Main}
             /\ pc'[Main] = "term" => \A w \in Workers : pc'[w] \in QuietLocs
  <2>1. Frame(Main)
    BY <1>3, StepFrame
  <2>2. CASE pc'[Main] = "ja_scan"
    <3>1. CASE JoinAllLock(Main)
      BY <1>0, <2>2, <3>1 DEF JoinAllLock, JoinAllMustYield, Goto, lists
    <3>2. CASE JoinAllNext(Main)
      BY <1>0, <2>2, <3>2 DEF JoinAllNext, IsDaemon, At, JoinableOnly
    <3> QED
      BY <2>1, <2>2, <3>1, <3>2 DEF Frame
  <2>3. CASE pc'[Main] = "term"
    <3>1. JoinAllEnd(Main)
      BY <2>1, <2>3 DEF Frame, JoinableOnly
    <3>2. pc[Main] = "ja_scan" /\ listed \subseteq visited[Main] /\ \A w \in Workers : pc'[w] = pc[w]
      BY <1>0, <3>1 DEF JoinAllEnd, At, Goto
    <3>3. \A w \in Workers : w \notin listed /\ w \notin aboutToStart
      BY <1>0, <3>2
    <3>4. \A w \in Workers : pc[w] \in UnlistedLocs /\ pc[w] \notin {"init", "add", "att_add"}
      BY <3>3 DEF IInv, StateInv, LifeInv
    <3> QED
      BY <2>3, <3>2, <3>4 DEF UnlistedLocs, QuietLocs
  <2> QED
    BY <2>2, <2>3
<1> QED
  BY <1>0, <1>1, <1>2, <1>3 DEF Next, Terminated

\* When thread_joinAll returns, no started thread is in user code or will be, and
\* none touches the thread lists any more.
THEOREM JoinsAll == LateAttach /\ Spec => []JoinAllComplete
<1>1. Init => JoinAllInv
  BY DEF Init, JoinAllInv, Threads
<1>2. IInv /\ JoinAllInv => JoinAllComplete
  BY DEF JoinAllInv, JoinableOnly, JoinAllComplete, JoinedAll, QuietLocs
<1> QED
  BY <1>1, <1>2, JoinAllStep, Invariant, PTL DEF Spec
=============================================================================
