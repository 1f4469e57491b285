-------------------------- MODULE LowLevelThreads --------------------------
(***************************************************************************)
(* Low-level threads (tasks unknown to the collector) of the FreeRTOS      *)
(* port: the array ll_pThreads[0 .. ll_nThreads] of core.thread.threadbase *)
(* with createLowLevelThread, lowlevelThread_entryPoint,                   *)
(* joinLowLevelThread and ll_removeThread.                                 *)
(*                                                                         *)
(* Every section under lowlevelLock is one action.  Pointers into the      *)
(* array are kept across the lock, so a pointer is modelled as what it is: *)
(* the allocation it points into and an index.  A slot holds the handle of *)
(* its event, which memmove and realloc copy.                              *)
(*                                                                         *)
(* A create whose realloc fails has counted ll_nThreads up and leaves the  *)
(* array as it was: from then on the loops over 0 .. ll_nThreads and the   *)
(* memmove of a removal go one slot past the allocation.  What they find   *)
(* there is not defined.                                                   *)
(***************************************************************************)
EXTENDS Integers, Sequences, FiniteSets

CONSTANTS
    Tasks,     \* handles xTaskCreateStatic returns; a handle is never reused
    Joiners,   \* D threads that call joinLowLevelThread
    MayFail,   \* createLowLevelThread may find realloc or the stack size failing
    SizeMod,   \* 2^w of the counter joinEventSubscribersNum
    null

ASSUME HandlesAssumption == null \notin Tasks \cup Joiners /\ Tasks \cap Joiners = {}
ASSUME FailAssumption == MayFail \in BOOLEAN
ASSUME SizeAssumption == SizeMod \in Nat \ {0, 1}

VARIABLES
    mem,        \* the slots of the current allocation
    ll_nThreads,  \* counts the slots; one too many after a realloc that failed
    block,      \* which allocation ll_pThreads points to
    evSet,      \* events that are set, named by the task they were made for
    pc,
    td,         \* the entry point's pointer
    ptr,        \* the joiner's pointer
    target,     \* the tid a joiner waits for
    waitOn,     \* the event a joiner is blocked on
    moved,      \* history: those whose pointer a removal or realloc made stale
    failed      \* history: a create failed half way

history == <<moved, failed>>
vars == <<mem, ll_nThreads, block, evSet, pc, td, ptr, target, waitOn, history>>

\* A slot that is no task's.
Garbage == [tid |-> null, ev |-> null, subs |-> 0]

Slot == [tid : Tasks \cup {null}, ev : Tasks \cup {null}, subs : 0 .. SizeMod - 1]
Pointer == [block : Nat, idx : Nat \ {0}]
NoPtr == [block |-> 0, idx |-> 1]

TaskLocs == {"none", "dg", "spin", "remove", "gone"}
JoinLocs == {"idle", "locked", "wait", "unlock", "done", "wild"}

\* The array and the pointers are what their declarations say, and ll_nThreads counts
\* no more slots than there are, but for the one of a create whose realloc failed.
TypeOK ==
    /\ mem \in Seq(Slot)
    /\ ll_nThreads \in 0 .. Len(mem) + (IF failed THEN 1 ELSE 0)
    /\ block \in Nat
    /\ evSet \subseteq Tasks
    /\ \A t \in Tasks : pc[t] \in TaskLocs /\ td[t] \in Pointer
    /\ \A j \in Joiners : /\ pc[j] \in JoinLocs /\ ptr[j] \in Pointer
                          /\ target[j] \in Tasks \cup {null}
                          /\ waitOn[j] \in Tasks \cup {null}
    /\ moved \subseteq Tasks \cup Joiners /\ failed \in BOOLEAN

Init ==
    /\ mem = <<>> /\ ll_nThreads = 0 /\ block = 1
    /\ evSet = {}
    /\ pc = [x \in Tasks \cup Joiners |-> IF x \in Tasks THEN "none" ELSE "idle"]
    /\ td = [t \in Tasks |-> NoPtr]
    /\ ptr = [j \in Joiners |-> NoPtr]
    /\ target = [j \in Joiners |-> null]
    /\ waitOn = [j \in Joiners |-> null]
    /\ moved = {} /\ failed = FALSE

-----------------------------------------------------------------------------
(* Memory *)

\* A pointer is good as long as realloc has not moved the array.
Good(p) == p.block = block /\ p.idx <= Len(mem)

\* The loops over ll_nThreads go past the array.
Past == ll_nThreads > Len(mem)

\* The last slot of the array that they reach.
Last == IF Past THEN Len(mem) ELSE ll_nThreads

\* Memory the program has not written there.  Bound: it holds nothing of a task, or an
\* old copy of the slot of a task that was created.
Leftover ==
    {Garbage} \cup {[tid |-> u, ev |-> u, subs |-> 0] : u \in {u \in Tasks : pc[u] # "none"}}

\* getLLThreadNotThreadSafe: the first slot of the array with that tid, 0 if there is none.
Find(tid) ==
    LET hits == {i \in 1 .. Last : mem[i].tid = tid}
    IN  IF hits = {} THEN 0 ELSE CHOOSE i \in hits : \A k \in hits : i <= k

PtrTo(i) == [block |-> block, idx |-> i]

\* The joiners and the tasks whose pointer is to one of the slots I while they use it.
Users(I) ==
    {j \in Joiners : pc[j] \in {"locked", "wait", "unlock"} /\ ptr[j].idx \in I}
        \cup {t \in Tasks : pc[t] = "spin" /\ td[t].idx \in I}

AddSubs(i, d) == mem' = [mem EXCEPT ![i].subs = (@ + d) % SizeMod]

\* Mutant: realloc is left out, as if the last array were always large enough.
Bug_ReallocNever(n, g) == mem

\* realloc to n slots keeps what fits; the rest of a larger array is leftover memory g.
Realloc(n, g) == [i \in 1 .. n |-> IF i <= Len(mem) THEN mem[i] ELSE g]

\* realloc may move the array.  Bound: it does so once.
MayMove ==
    \/ UNCHANGED <<block, moved>>
    \/ block = 1 /\ block' = 2 /\ moved' = moved \cup Users(1 .. Len(mem))

-----------------------------------------------------------------------------
(* createLowLevelThread *)

\* The new slot is cleared, gets its event and its tid; realloc may move the array.  The
\* slot that an earlier realloc failed to add stays as it comes from the heap.
Create(t) ==
    LET n == ll_nThreads + 1 IN
    /\ pc[t] = "none"
    /\ ll_nThreads' = n
    /\ \E g \in Leftover : mem' = [Realloc(n, g) EXCEPT ![n] = [tid |-> t, ev |-> t, subs |-> 0]]
    /\ MayMove
    /\ pc' = [pc EXCEPT ![t] = "dg"]
    /\ UNCHANGED <<evSet, td, ptr, target, waitOn, failed>>

\* The early returns after ll_nThreads++.  realloc has failed and the array is as it
\* was, a slot short; or the stack is too small and the slot holds what realloc left
\* there; or xTaskCreateStatic returned null.  Bound: one create fails.
CreateFails ==
    LET n == ll_nThreads + 1 IN
    /\ MayFail /\ ~failed
    /\ ll_nThreads' = n
    /\ \/ UNCHANGED <<mem, block, moved>>
       \/ (\E g \in Leftover : mem' = Realloc(n, g)) /\ MayMove
       \/ mem' = [Realloc(n, Garbage) EXCEPT ![n] = Garbage] /\ MayMove
    /\ failed' = TRUE
    /\ UNCHANGED <<evSet, pc, td, ptr, target, waitOn>>

-----------------------------------------------------------------------------
(* lowlevelThread_entryPoint *)

\* dg() has returned.  Under the lock the task finds its slot and sets the event.
Signal(t) ==
    /\ pc[t] = "dg"
    /\ Find(t) # 0
    /\ evSet' = evSet \cup {mem[Find(t)].ev}
    /\ td' = [td EXCEPT ![t] = PtrTo(Find(t))]
    /\ pc' = [pc EXCEPT ![t] = "spin"]
    /\ UNCHANGED <<mem, ll_nThreads, block, ptr, target, waitOn, history>>

\* The loop on td.getSubscribersNum(), read without the lock through td.  A pointer
\* into an array that was moved reads freed memory, zero or anything else.
Spin(t) ==
    /\ pc[t] = "spin"
    /\ Good(td[t]) => mem[td[t].idx].subs = 0
    /\ pc' = [pc EXCEPT ![t] = "remove"]
    /\ UNCHANGED <<mem, ll_nThreads, block, evSet, td, ptr, target, waitOn, history>>

\* Another round of that loop, vTaskDelay(100).  On freed memory it may never end.
SpinAgain(t) ==
    /\ pc[t] = "spin"
    /\ Good(td[t]) => mem[td[t].idx].subs # 0
    /\ UNCHANGED vars

\* Mutant: memmove forgets the last slot.
Bug_MoveOneShort(i, g) ==
    [k \in 1 .. Len(mem) |->
        IF k >= i /\ k < ll_nThreads - 1 THEN mem[k + 1] ELSE mem[k]]

\* memmove(p + i, p + i + 1, n - i - 1): the last slot's old copy stays behind.  When
\* ll_nThreads counts one slot too many the last one is filled from past the array.
MoveDown(i, g) ==
    [k \in 1 .. Len(mem) |->
        IF k < i \/ k >= ll_nThreads THEN mem[k] ELSE IF k = Len(mem) THEN g ELSE mem[k + 1]]

\* ll_removeThread, then vTaskDelete.
Remove(t) ==
    /\ pc[t] = "remove"
    /\ IF Find(t) = 0 THEN UNCHANGED <<mem, ll_nThreads>>
       ELSE /\ \E g \in Leftover : mem' = MoveDown(Find(t), g)
            /\ ll_nThreads' = ll_nThreads - 1
    /\ moved' = moved \cup Users(Find(t) .. Len(mem))
    /\ pc' = [pc EXCEPT ![t] = "gone"]
    /\ UNCHANGED <<block, evSet, td, ptr, target, waitOn, failed>>

-----------------------------------------------------------------------------
(* joinLowLevelThread *)

\* lockAndGetLowLevelThread of a thread that was created: lock its deletion, or
\* return at once when it has no slot any more.  Past the array anything may be found
\* and counted up, from where the joiner is not followed.
JoinLock(j, t) ==
    /\ pc[j] = "idle" /\ pc[t] # "none"
    /\ target' = [target EXCEPT ![j] = t]
    /\ IF Find(t) = 0
         THEN /\ \E l \in {"done"} \cup (IF Past THEN {"wild"} ELSE {}) : pc' = [pc EXCEPT ![j] = l]
              /\ UNCHANGED <<mem, ptr>>
         ELSE /\ AddSubs(Find(t), 1)
              /\ ptr' = [ptr EXCEPT ![j] = PtrTo(Find(t))]
              /\ pc' = [pc EXCEPT ![j] = "locked"]
    /\ UNCHANGED <<ll_nThreads, block, evSet, td, waitOn, history>>

\* t.joinEvent.wait() picks up the event handle through the pointer.
JoinBegin(j) ==
    /\ pc[j] = "locked"
    /\ IF Good(ptr[j])
         THEN /\ waitOn' = [waitOn EXCEPT ![j] = mem[ptr[j].idx].ev]
              /\ pc' = [pc EXCEPT ![j] = "wait"]
         ELSE /\ pc' = [pc EXCEPT ![j] = "wild"]
              /\ UNCHANGED waitOn
    /\ UNCHANGED <<mem, ll_nThreads, block, evSet, td, ptr, target, history>>

\* Mutant: an infinite wait that returns whenever the task is resumed.
Bug_WaitReturnsAnyway(j) == TRUE

\* The event is a manual-reset one: once set it stays set.
EventSet(j) == waitOn[j] \in evSet

JoinWake(j) ==
    /\ pc[j] = "wait" /\ EventSet(j)
    /\ pc' = [pc EXCEPT ![j] = "unlock"]
    /\ UNCHANGED <<mem, ll_nThreads, block, evSet, td, ptr, target, waitOn, history>>

\* Mutant: a joiner never gives the deletion lock back.
Bug_NoUnlock == 0

\* deletionUnlock: the subscriber count is decremented.
UnlockBy == -1

\* t.deletionUnlock() through the pointer, and return.
JoinUnlock(j) ==
    /\ pc[j] = "unlock"
    /\ IF Good(ptr[j])
         THEN /\ AddSubs(ptr[j].idx, UnlockBy)
              /\ pc' = [pc EXCEPT ![j] = "done"]
         ELSE /\ pc' = [pc EXCEPT ![j] = "wild"]
              /\ UNCHANGED mem
    /\ UNCHANGED <<ll_nThreads, block, evSet, td, ptr, target, waitOn, history>>

-----------------------------------------------------------------------------
\* All tasks have ended and all joins have returned, or hang on a stale pointer.
Terminated ==
    /\ \A t \in Tasks : pc[t] = "gone"
    /\ \A j \in Joiners : pc[j] \in {"idle", "done", "wild"} \/ (pc[j] = "wait" /\ j \in moved)
    /\ UNCHANGED vars

TaskStep(t) == Signal(t) \/ Spin(t) \/ SpinAgain(t) \/ Remove(t)
JoinStep(j) == JoinBegin(j) \/ JoinWake(j) \/ JoinUnlock(j)

Next ==
    \/ \E t \in Tasks : Create(t) \/ TaskStep(t)
    \/ \E j \in Joiners : JoinStep(j) \/ \E t \in Tasks : JoinLock(j, t)
    \/ CreateFails
    \/ Terminated

Spec == Init /\ [][Next]_vars

\* The kernel runs every ready task, dg() returns, vTaskDelay ends.  Nothing is assumed
\* of what a task reads from freed memory.
Fairness ==
    /\ \A t \in Tasks : WF_vars(Signal(t)) /\ WF_vars(Good(td[t]) /\ Spin(t)) /\ WF_vars(Remove(t))
    /\ \A j \in Joiners : WF_vars(JoinStep(j))

FairSpec == Spec /\ Fairness

-----------------------------------------------------------------------------
(* Properties *)

\* joinLowLevelThread returns only after the delegate of its target has returned,
\* unless a removal or a realloc made its pointer into ll_pThreads stale meanwhile.  It
\* holds also when a failed create has left the loops running past the array.
UndisturbedJoin ==
    \A j \in Joiners \ moved : pc[j] = "done" => pc[target[j]] \notin {"none", "dg"}

\* From create to remove a task has exactly one slot, with its own event, whatever
\* ll_removeThread moves around, and there are no other slots, unless a create failed.
SlotPerTask ==
    ~failed =>
        /\ \A t \in Tasks : Cardinality({i \in 1 .. ll_nThreads : mem[i].tid = t}) =
                                IF pc[t] \in {"none", "gone"} THEN 0 ELSE 1
        /\ \A i \in 1 .. ll_nThreads : mem[i].tid # null /\ mem[i].ev = mem[i].tid

\* "then thread can be safely deleted": a low-level thread whose delegate has returned is
\* eventually deleted, also after a create that failed, unless its own pointer or that of
\* a joiner went stale: then it may wait for a count in somebody else's memory.
TaskEnds ==
    \A t \in Tasks :
        (pc[t] = "spin") ~> (pc[t] = "gone" \/ t \in moved \/ moved \cap Joiners # {})

\* "Wait for a thread created with `createLowLevelThread` to terminate": no join returns
\* before the delegate of its target has returned, stale pointers or not.
JoinWaitsForEnd ==
    \A j \in Joiners : pc[j] = "done" => pc[target[j]] \notin {"none", "dg"}
=============================================================================
