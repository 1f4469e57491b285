------------------------------ MODULE Monitor ------------------------------
(***************************************************************************)
(* Object monitors, rt.monitor_: the lazily created Monitor behind every   *)
(* synchronized statement, the reference count of monitors that objects    *)
(* share (setSameMutex), and their deletion when an object is finalised.   *)
(*                                                                         *)
(* A Monitor is a block of the C heap: free makes its address available to *)
(* the next calloc.  Only built-in monitors are modelled (impl is null).   *)
(* A step is one access to shared memory, or one section under gmtx when   *)
(* nothing else touches what the section reads.                            *)
(***************************************************************************)
EXTENDS Integers, Sequences, FiniteSets

CONSTANTS
    Threads, Objs,
    Mons,        \* addresses the C heap hands out
    Recursive,   \* are mutexes recursive?  (POSIX: yes, FreeRTOS: no)
    MaxNest,     \* bound: how deep synchronized statements nest
    null

ASSUME MonitorAssumption ==
    /\ null \notin Threads \cup Mons
    /\ IsFiniteSet(Threads) /\ IsFiniteSet(Objs) /\ Objs # {}
    /\ Recursive \in BOOLEAN /\ MaxNest \in Nat \ {0}
    /\ Cardinality(Mons) >= Cardinality(Objs) + Cardinality(Threads)

VARIABLES
    monitor,    \* h.__monitor
    heap,       \* the monitors that are allocated
    refs,       \* m.refs
    owner, depth,   \* m.mtx: who holds it, how often
    gmtx,       \* who holds the global mutex
    pc, op,     \* where a thread is, and in which operation
    obj, mate,  \* the object it works on; the ownee of setSameMutex
    m,          \* its local monitor pointer
    won,        \* local: the second test found no monitor
    inside,     \* the objects whose synchronized statement it is in, innermost last
    dead,       \* objects that were finalised
    shares,     \* history: which objects were made to share a mutex, as pairs
    fault       \* history: a dead monitor or a mutex of somebody else was used

locals == <<pc, op, obj, mate, m, won>>
vars == <<monitor, heap, refs, owner, depth, gmtx, locals, inside, dead, shares, fault>>

Locs == {"idle", "get", "alloc", "check", "publish", "lose", "lock", "count", "copy", "free"}

\* Pointers point to monitors, counters count.
TypeOK ==
    /\ monitor \in [Objs -> Mons \cup {null}]
    /\ heap \subseteq Mons
    /\ refs \in [Mons -> 0 .. Cardinality(Objs)]
    /\ owner \in [Mons -> Threads \cup {null}]
    /\ depth \in [Mons -> 0 .. MaxNest]
    /\ gmtx \in Threads \cup {null}
    /\ pc \in [Threads -> Locs]
    /\ op \in [Threads -> {"enter", "same", "delete"}]
    /\ obj \in [Threads -> Objs] /\ mate \in [Threads -> Objs]
    /\ m \in [Threads -> Mons \cup {null}]
    /\ won \in [Threads -> BOOLEAN]
    /\ \A t \in Threads : inside[t] \in Seq(Objs) /\ Len(inside[t]) <= MaxNest
    /\ dead \subseteq Objs
    /\ fault \in BOOLEAN

Init ==
    /\ monitor = [h \in Objs |-> null]
    /\ heap = {}
    /\ refs = [x \in Mons |-> 0]
    /\ owner = [x \in Mons |-> null] /\ depth = [x \in Mons |-> 0]
    /\ gmtx = null
    /\ pc = [t \in Threads |-> "idle"] /\ op = [t \in Threads |-> "enter"]
    /\ obj = [t \in Threads |-> CHOOSE h \in Objs : TRUE] /\ mate = obj
    /\ m = [t \in Threads |-> null]
    /\ won = [t \in Threads |-> FALSE]
    /\ inside = [t \in Threads |-> <<>>]
    /\ dead = {} /\ shares = {} /\ fault = FALSE

Goto(t, l) == pc' = [pc EXCEPT ![t] = l]

\* Where ensureMonitor returns to.
AfterEnsure(t) == IF op[t] = "enter" THEN "lock" ELSE "count"

\* h is used by a thread other than t, so t may neither finalise it nor make it share.
InUse(h, t) ==
    \E u \in Threads \ {t} : \/ \E i \in DOMAIN inside[u] : inside[u][i] = h
                             \/ pc[u] # "idle" /\ h \in {obj[u], mate[u]}
\* Another thread is about to give h a monitor of another object, or finalises it.
Claimed(h, t) ==
    \E u \in Threads \ {t} : pc[u] # "idle" /\ op[u] # "enter" /\ mate[u] = h

\* The objects whose synchronized statement t is in.
Entered(t) == {inside[t][i] : i \in DOMAIN inside[t]}

-----------------------------------------------------------------------------
(* ensureMonitor *)

\* The first, unlocked test.
Get(t) ==
    /\ pc[t] = "get"
    /\ m' = [m EXCEPT ![t] = monitor[obj[t]]]
    /\ Goto(t, IF monitor[obj[t]] # null THEN AfterEnsure(t) ELSE "alloc")
    /\ UNCHANGED <<monitor, heap, refs, owner, depth, gmtx, op, obj, mate, won,
                   inside, dead, shares, fault>>

\* calloc and initMutex, at any free address.
Alloc(t) ==
    /\ pc[t] = "alloc"
    /\ \E x \in Mons \ heap :
          /\ heap' = heap \cup {x}
          /\ refs' = [refs EXCEPT ![x] = 0]
          /\ owner' = [owner EXCEPT ![x] = null] /\ depth' = [depth EXCEPT ![x] = 0]
          /\ m' = [m EXCEPT ![t] = x]
    /\ Goto(t, "check")
    /\ UNCHANGED <<monitor, gmtx, op, obj, mate, won, inside, dead, shares, fault>>

\* The second test.
SecondTest(t) == monitor[obj[t]] = null

Check(t) ==
    /\ pc[t] = "check" /\ gmtx = null
    /\ gmtx' = t
    /\ won' = [won EXCEPT ![t] = SecondTest(t)]
    /\ Goto(t, "publish")
    /\ UNCHANGED <<monitor, heap, refs, owner, depth, op, obj, mate, m, inside,
                   dead, shares, fault>>

\* The winner publishes its monitor; gmtx is released.
Publish(t) ==
    /\ pc[t] = "publish"
    /\ IF won[t]
         THEN /\ refs' = [refs EXCEPT ![m[t]] = 1]
              /\ monitor' = [monitor EXCEPT ![obj[t]] = m[t]]
              /\ Goto(t, AfterEnsure(t))
         ELSE Goto(t, "lose") /\ UNCHANGED <<refs, monitor>>
    /\ gmtx' = null
    /\ UNCHANGED <<heap, owner, depth, op, obj, mate, m, won, inside, dead, shares, fault>>

\* Mutant: the loser forgets the monitor it made.
Bug_LoserKeeps(t) == heap

\* deleteMonitor of the loser's own monitor.
LoserFrees(t) == heap \ {m[t]}

\* Mutant: the loser tries again to publish a monitor.
Bug_LoseRetries(t) ==
    /\ pc[t] = "lose"
    /\ heap' = LoserFrees(t)
    /\ Goto(t, "alloc")
    /\ UNCHANGED <<monitor, refs, owner, depth, gmtx, op, obj, mate, m, won, inside,
                   dead, shares, fault>>

\* Then the monitor that won is used.
Lose(t) ==
    /\ pc[t] = "lose"
    /\ heap' = LoserFrees(t)
    /\ m' = [m EXCEPT ![t] = monitor[obj[t]]]
    /\ Goto(t, AfterEnsure(t))
    /\ UNCHANGED <<monitor, refs, owner, depth, gmtx, op, obj, mate, won, inside,
                   dead, shares, fault>>

-----------------------------------------------------------------------------
(* _d_monitorenter and _d_monitorexit *)

Enter(t, h) ==
    /\ pc[t] = "idle" /\ h \notin dead
    /\ Len(inside[t]) < MaxNest
    /\ inside[t] = <<>> \/ h \in Entered(t)    \* programs that lock in no order deadlock
    /\ ~Claimed(h, t)
    /\ op' = [op EXCEPT ![t] = "enter"]
    /\ obj' = [obj EXCEPT ![t] = h] /\ mate' = [mate EXCEPT ![t] = h]
    /\ Goto(t, "get")
    /\ UNCHANGED <<monitor, heap, refs, owner, depth, gmtx, m, won, inside, dead,
                   shares, fault>>

\* Mutant: lockMutex does not wait.
Bug_LockGoesOn(t) ==
    /\ pc[t] = "lock"
    /\ owner' = [owner EXCEPT ![m[t]] = t] /\ depth' = [depth EXCEPT ![m[t]] = 1]
    /\ inside' = [inside EXCEPT ![t] = Append(@, obj[t])]
    /\ Goto(t, "idle")
    /\ UNCHANGED <<monitor, heap, refs, gmtx, op, obj, mate, m, won, dead, shares, fault>>

\* lockMutex(&m.mtx): wait until it is free, or one's own if it is recursive.
Lock(t) ==
    /\ pc[t] = "lock"
    /\ IF m[t] \notin heap THEN fault' = TRUE /\ UNCHANGED <<owner, depth>>
       ELSE /\ owner[m[t]] = null \/ (Recursive /\ owner[m[t]] = t)
            /\ owner' = [owner EXCEPT ![m[t]] = t]
            /\ depth' = [depth EXCEPT ![m[t]] = @ + 1]
            /\ UNCHANGED fault
    /\ inside' = [inside EXCEPT ![t] = Append(@, obj[t])]
    /\ Goto(t, "idle")
    /\ UNCHANGED <<monitor, heap, refs, gmtx, op, obj, mate, m, won, dead, shares>>

\* Mutant: leaving an inner statement unlocks the mutex for good.
Bug_ExitForGood(t) ==
    /\ pc[t] = "idle" /\ inside[t] # <<>>
    /\ LET x == monitor[inside[t][Len(inside[t])]] IN
       /\ fault' = (fault \/ owner[x] # t)
       /\ depth' = [depth EXCEPT ![x] = 0] /\ owner' = [owner EXCEPT ![x] = null]
    /\ inside' = [inside EXCEPT ![t] = SubSeq(@, 1, Len(@) - 1)]
    /\ UNCHANGED <<monitor, heap, refs, gmtx, locals, dead, shares>>

\* The monitor is fetched again and unlocked.
Exit(t) ==
    /\ pc[t] = "idle" /\ inside[t] # <<>>
    /\ LET x == monitor[inside[t][Len(inside[t])]] IN
       IF x \notin heap \/ owner[x] # t
         THEN fault' = TRUE /\ UNCHANGED <<owner, depth>>
         ELSE /\ depth' = [depth EXCEPT ![x] = @ - 1]
              /\ owner' = [owner EXCEPT ![x] = IF depth[x] = 1 THEN null ELSE t]
              /\ UNCHANGED fault
    /\ inside' = [inside EXCEPT ![t] = SubSeq(@, 1, Len(@) - 1)]
    /\ UNCHANGED <<monitor, heap, refs, gmtx, locals, dead, shares>>

-----------------------------------------------------------------------------
(* _d_setSameMutex *)

\* ownee has no monitor (the contract), and no other thread uses it yet.
SetSame(t, ownee, h) ==
    /\ pc[t] = "idle" /\ ownee # h
    /\ {ownee, h} \cap dead = {}
    /\ monitor[ownee] = null /\ ~InUse(ownee, t) /\ ~Claimed(h, t)
    /\ op' = [op EXCEPT ![t] = "same"]
    /\ obj' = [obj EXCEPT ![t] = h] /\ mate' = [mate EXCEPT ![t] = ownee]
    /\ Goto(t, "get")
    /\ UNCHANGED <<monitor, heap, refs, owner, depth, gmtx, m, won, inside, dead,
                   shares, fault>>

\* Mutant: the monitor is shared without being counted.
Bug_NoCount == 0

\* What sharing adds to the reference count.
SharerCount == 1

Count(t) ==
    /\ pc[t] = "count"
    /\ refs' = [refs EXCEPT ![m[t]] = @ + SharerCount]
    /\ Goto(t, "copy")
    /\ UNCHANGED <<monitor, heap, owner, depth, gmtx, op, obj, mate, m, won, inside,
                   dead, shares, fault>>

Copy(t) ==
    /\ pc[t] = "copy"
    /\ monitor' = [monitor EXCEPT ![mate[t]] = monitor[obj[t]]]
    /\ LET all == {obj[t]} \cup {h \in Objs : <<h, obj[t]>> \in shares} IN
       shares' = shares \cup ({mate[t]} \X all) \cup (all \X {mate[t]})
    /\ Goto(t, "idle")
    /\ UNCHANGED <<heap, refs, owner, depth, gmtx, op, obj, mate, m, won, inside,
                   dead, fault>>

-----------------------------------------------------------------------------
(* _d_monitordelete *)

\* h is finalised, once, when nobody uses it.  The count and the test are one atomic.
Delete(t, h) ==
    /\ pc[t] = "idle" /\ h \notin dead
    /\ ~InUse(h, t) /\ h \notin Entered(t)
    /\ op' = [op EXCEPT ![t] = "delete"]
    /\ obj' = [obj EXCEPT ![t] = h] /\ mate' = [mate EXCEPT ![t] = h]
    /\ dead' = dead \cup {h}
    /\ m' = [m EXCEPT ![t] = monitor[h]]
    /\ IF monitor[h] = null THEN UNCHANGED <<refs, pc>>
       ELSE /\ refs' = [refs EXCEPT ![monitor[h]] = @ - 1]
            /\ Goto(t, IF refs[monitor[h]] = 1 THEN "free" ELSE "idle")
    /\ UNCHANGED <<monitor, heap, owner, depth, gmtx, won, inside, shares, fault>>

\* deleteMonitor and setMonitor(h, null); only the object that was last forgets it.
Free(t) ==
    /\ pc[t] = "free"
    /\ heap' = heap \ {m[t]}
    /\ monitor' = [monitor EXCEPT ![obj[t]] = null]
    /\ Goto(t, "idle")
    /\ UNCHANGED <<refs, owner, depth, gmtx, op, obj, mate, m, won, inside, dead,
                   shares, fault>>

-----------------------------------------------------------------------------
EnterStep(t) == Get(t) \/ Alloc(t) \/ Check(t) \/ Publish(t) \/ Lose(t) \/ Lock(t)
SameStep(t) == Count(t) \/ Copy(t)

\* Nothing is left to do: all objects are dead.
Terminated ==
    /\ dead = Objs /\ \A t \in Threads : pc[t] = "idle"
    /\ UNCHANGED vars

Next ==
    \/ \E t \in Threads :
          \/ EnterStep(t) \/ Exit(t) \/ SameStep(t) \/ Free(t)
          \/ \E h \in Objs : Enter(t, h) \/ Delete(t, h)
          \/ \E h, g \in Objs : SetSame(t, g, h)
    \/ Terminated

Spec == Init /\ [][Next]_vars

\* The kernel runs ready tasks, synchronized statements end, and a mutex that is free
\* again and again goes to each of its waiters in turn.
Fairness ==
    /\ \A t \in Threads : WF_vars(Get(t) \/ Alloc(t) \/ Publish(t) \/ Lose(t))
    /\ \A t \in Threads : SF_vars(Check(t)) /\ SF_vars(Lock(t))
    /\ \A t \in Threads : WF_vars(Exit(t)) /\ WF_vars(SameStep(t))

FairSpec == Spec /\ Fairness

-----------------------------------------------------------------------------
(* Properties *)

\* Two threads are never in synchronized statements of one object, or of two objects
\* that share a mutex.
MutualExclusion ==
    \A t, u \in Threads : t # u =>
        \A h \in Entered(t), g \in Entered(u) : h # g /\ <<h, g>> \notin shares

\* No freed monitor is locked or unlocked, and no mutex is unlocked by another thread.
NoFault == ~fault

\* The count is the number of living objects that refer to the monitor, and of those
\* that are about to.
RefsExact ==
    \A x \in {monitor[h] : h \in Objs \ dead} \ {null} :
        refs[x] = Cardinality({h \in Objs \ dead : monitor[h] = x})
                  + Cardinality({t \in Threads : pc[t] = "copy" /\ m[t] = x})

\* A monitor is in the heap exactly as long as an object needs it: those of living
\* objects are never freed, the losers of the race to create one are not leaked.
HeapExact ==
    heap = ({monitor[h] : h \in Objs \ dead} \ {null})
           \cup {m[t] : t \in {u \in Threads : pc[u] \in {"check", "publish", "lose", "free"}}}

\* synchronized gets in, if every thread leaves its outermost statement again and again.
EnterReturns ==
    (\A u \in Threads : []<>(inside[u] = <<>>))
        => \A t \in Threads : (pc[t] = "get" /\ op[t] = "enter") ~> (pc[t] = "idle")
=============================================================================
