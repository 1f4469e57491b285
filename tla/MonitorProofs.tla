--------------------------- MODULE MonitorProofs ---------------------------
(***************************************************************************)
(* Theorems about object monitors, for any finite sets of threads and      *)
(* objects, recursive or non-recursive mutexes, and any nesting.           *)
(*                                                                         *)
(* The inductive invariant says who may use a monitor: a living object     *)
(* that points to it, or the one thread to which it is private because it  *)
(* is not yet published, lost the race, or is about to be freed.  From     *)
(* that follow what the operations do (none is a fault), and then each     *)
(* part of the invariant after a step.                                     *)
(***************************************************************************)
EXTENDS Monitor, FiniteSetTheorems, TLAPS

\* The objects that were not finalised.
Living == Objs \ dead
\* t is the only one that knows the monitor m[t].
Private(t) == pc[t] \in {"check", "publish", "lose", "free"}
\* The living objects whose monitor is x.
Pointing(x) == {h \in Living : monitor[h] = x}
\* The threads that have counted their ownee for x but not yet stored x in it.
Copying(x) == {t \in Threads : pc[t] = "copy" /\ m[t] = x}
\* The positions in inside[t] of statements that lock x.
Holds(t, x) == {i \in DOMAIN inside[t] : monitor[inside[t][i]] = x}

\* Types; the bounds of counts and depths follow from the rest.
TypeInv ==
    /\ monitor \in [Objs -> Mons \cup {null}]
    /\ heap \subseteq Mons
    /\ refs \in [Mons -> Nat]
    /\ owner \in [Mons -> Threads \cup {null}]
    /\ depth \in [Mons -> Nat]
    /\ gmtx \in Threads \cup {null}
    /\ pc \in [Threads -> Locs]
    /\ op \in [Threads -> {"enter", "same", "delete"}]
    /\ obj \in [Threads -> Objs] /\ mate \in [Threads -> Objs]
    /\ m \in [Threads -> Mons \cup {null}]
    /\ won \in [Threads -> BOOLEAN]
    /\ inside \in [Threads -> Seq(Objs)]
    /\ dead \subseteq Objs
    /\ shares \subseteq Objs \X Objs

\* Each operation has its own locations, and nesting is bounded.
OpInv == \A t \in Threads :
    /\ pc[t] \in {"get", "alloc", "check", "publish", "lose"} => op[t] \in {"enter", "same"}
    /\ pc[t] = "lock" => op[t] = "enter"
    /\ pc[t] \in {"count", "copy"} => op[t] = "same"
    /\ pc[t] = "free" => op[t] = "delete"
    /\ Len(inside[t]) <= MaxNest
    /\ pc[t] # "idle" /\ op[t] = "enter" => Len(inside[t]) < MaxNest

\* An object in use is alive; one to be shared or freed is used by one thread only.
UseInv == \A t \in Threads : pc[t] # "idle" =>
    /\ op[t] # "delete" => obj[t] \in Living /\ mate[t] \in Living
    /\ op[t] = "same" => mate[t] # obj[t] /\ monitor[mate[t]] = null
    /\ op[t] = "delete" => obj[t] \in dead /\ mate[t] = obj[t]
    /\ op[t] # "enter" => \A u \in Threads \ {t} :
          /\ pc[u] # "idle" => mate[t] # obj[u] /\ mate[t] # mate[u]
          /\ \A i \in DOMAIN inside[u] : inside[u][i] # mate[t]

\* A local monitor pointer is up to date, and the result of the second test holds as
\* long as gmtx is held.
PtrInv == \A t \in Threads :
    /\ pc[t] \in {"lock", "count", "copy"} => m[t] = monitor[obj[t]] /\ m[t] # null
    /\ pc[t] = "publish" => gmtx = t /\ (won[t] <=> monitor[obj[t]] = null)
    /\ pc[t] = "lose" => monitor[obj[t]] # null
    /\ Private(t) => m[t] # null

\* Monitors of living objects and private monitors are allocated, and all distinct.
HeapInv ==
    /\ \A h \in Living : monitor[h] # null => monitor[h] \in heap
    /\ \A t \in Threads : Private(t) => m[t] \in heap /\ \A h \in Living : monitor[h] # m[t]
    /\ \A t, u \in Threads : t # u /\ Private(t) /\ Private(u) => m[t] # m[u]

\* Every allocated monitor is pointed to or private.
LeakInv == \A x \in heap : \/ \E h \in Living : monitor[h] = x
                           \/ \E t \in Threads : Private(t) /\ m[t] = x

\* Reference counts are exact.
RefsInv == \A x \in Mons : refs[x] = Cardinality(Pointing(x)) + Cardinality(Copying(x))

\* A thread in a synchronized statement holds the mutex of its object.
HoldInv == \A t \in Threads : \A i \in DOMAIN inside[t] :
    /\ inside[t][i] \in Living /\ monitor[inside[t][i]] # null
    /\ owner[monitor[inside[t][i]]] = t

\* A mutex is held as often as its owner's statements lock it.
DepthInv == \A x \in Mons :
    IF owner[x] = null THEN depth[x] = 0
    ELSE depth[x] # 0 /\ depth[x] = Cardinality(Holds(owner[x], x))

\* Living objects that were made to share have one and the same monitor.
ShareInv == \A h, g \in Living :
    <<h, g>> \in shares => monitor[h] = monitor[g] /\ monitor[h] # null

\* The inductive invariant.
IInv == TypeInv /\ OpInv /\ UseInv /\ PtrInv /\ HeapInv /\ LeakInv /\ RefsInv /\ HoldInv
        /\ DepthInv /\ ShareInv /\ fault = FALSE

\* A step of thread t.
Step(t) ==
    \/ EnterStep(t) \/ Exit(t) \/ SameStep(t) \/ Free(t)
    \/ \E h \in Objs : Enter(t, h) \/ Delete(t, h)
    \/ \E h, g \in Objs : SetSame(t, g, h)

-----------------------------------------------------------------------------
(* Facts about sequences and finite sets *)

\* What entering a statement does to a stack.
LEMMA Push ==
    ASSUME NEW S, NEW s \in Seq(S), NEW x \in S
    PROVE  /\ Append(s, x) \in Seq(S) /\ Len(Append(s, x)) = Len(s) + 1
           /\ DOMAIN Append(s, x) = DOMAIN s \cup {Len(s) + 1}
           /\ Len(s) + 1 \notin DOMAIN s
           /\ \A i \in DOMAIN s : Append(s, x)[i] = s[i]
           /\ Append(s, x)[Len(s) + 1] = x
  OBVIOUS

\* What leaving one does.
LEMMA Pop ==
    ASSUME NEW S, NEW s \in Seq(S), s # <<>>
    PROVE  /\ Len(s) \in DOMAIN s
           /\ SubSeq(s, 1, Len(s) - 1) \in Seq(S)
           /\ Len(SubSeq(s, 1, Len(s) - 1)) = Len(s) - 1
           /\ DOMAIN SubSeq(s, 1, Len(s) - 1) = DOMAIN s \ {Len(s)}
           /\ \A i \in DOMAIN s \ {Len(s)} : SubSeq(s, 1, Len(s) - 1)[i] = s[i]
<1>1. Len(s) \in Nat \ {0} /\ DOMAIN s = 1 .. Len(s)
  OBVIOUS
<1>2. SubSeq(s, 1, Len(s) - 1) \in Seq(S)
  BY <1>1
<1>3. Len(SubSeq(s, 1, Len(s) - 1)) = Len(s) - 1
  BY <1>1
<1>4. DOMAIN SubSeq(s, 1, Len(s) - 1) = 1 .. Len(s) - 1
  BY <1>1, <1>2, <1>3
<1>5. \A i \in 1 .. Len(s) - 1 : SubSeq(s, 1, Len(s) - 1)[i] = s[i]
  BY <1>1
<1>6. 1 .. Len(s) - 1 = (1 .. Len(s)) \ {Len(s)}
  BY <1>1
<1> QED
  BY <1>1, <1>2, <1>3, <1>4, <1>5, <1>6

\* An element makes a finite set's cardinality positive.
LEMMA Positive ==
    ASSUME NEW S, IsFiniteSet(S), NEW x \in S
    PROVE  Cardinality(S) # 0
<1> QED
  BY FS_EmptySet

\* The sets that are counted are finite.
LEMMA Finite ==
    ASSUME TypeInv, NEW x
    PROVE  /\ IsFiniteSet(Pointing(x)) /\ Cardinality(Pointing(x)) \in Nat
           /\ IsFiniteSet(Copying(x)) /\ Cardinality(Copying(x)) \in Nat
           /\ \A t \in Threads : IsFiniteSet(Holds(t, x)) /\ Cardinality(Holds(t, x)) \in Nat
<1>1. Pointing(x) \in SUBSET Objs /\ Copying(x) \in SUBSET Threads
  BY DEF Pointing, Living, Copying
<1>2. IsFiniteSet(Pointing(x)) /\ IsFiniteSet(Copying(x))
  BY <1>1, MonitorAssumption, FS_Subset
<1>3. ASSUME NEW t \in Threads PROVE IsFiniteSet(Holds(t, x))
  <2>1. Len(inside[t]) \in Nat /\ Holds(t, x) \in SUBSET (1 .. Len(inside[t]))
    BY DEF TypeInv, Holds
  <2>2. IsFiniteSet(1 .. Len(inside[t]))
    BY <2>1, FS_Interval
  <2> QED
    BY <2>1, <2>2, FS_Subset
<1> QED
  BY <1>2, <1>3, FS_CardinalityType

\* A monitor that a living object points to is counted.
LEMMA RefsPositive ==
    ASSUME TypeInv, RefsInv, NEW h \in Living, monitor[h] # null
    PROVE  monitor[h] \in Mons /\ refs[monitor[h]] \in Nat \ {0}
<1> DEFINE x == monitor[h]
<1>1. x \in Mons
  BY DEF TypeInv, Living
<1>2. h \in Pointing(x)
  BY DEF Pointing
<1>3. Cardinality(Pointing(x)) # 0
  BY <1>2, Finite, Positive
<1> QED
  BY <1>1, <1>3, Finite DEF RefsInv

-----------------------------------------------------------------------------
(* What the operations do when the invariant holds *)

\* The mutex that is locked is in the heap, so there is no fault.
Locks(t) ==
    /\ pc[t] = "lock" /\ obj[t] \in Living
    /\ m[t] = monitor[obj[t]] /\ m[t] \in Mons
    /\ owner[m[t]] = null \/ owner[m[t]] = t
    /\ owner' = [owner EXCEPT ![m[t]] = t]
    /\ depth' = [depth EXCEPT ![m[t]] = @ + 1]
    /\ inside' = [inside EXCEPT ![t] = Append(@, obj[t])]
    /\ pc' = [pc EXCEPT ![t] = "idle"]
    /\ UNCHANGED <<monitor, heap, refs, gmtx, op, obj, mate, m, won, dead, shares, fault>>

\* _d_monitorenter locks a monitor that its object still points to.
LEMMA LockEffect ==
    ASSUME IInv, NEW t \in Threads, Lock(t)
    PROVE  Locks(t)
<1>1. pc[t] = "lock" /\ op[t] = "enter" /\ obj[t] \in Living
  BY DEF Lock, IInv, OpInv, UseInv
<1>2. m[t] = monitor[obj[t]] /\ m[t] \in Mons
  BY <1>1 DEF IInv, TypeInv, PtrInv
<1>3. m[t] \in heap
  BY <1>1, <1>2, MonitorAssumption DEF IInv, HeapInv
<1> QED
  BY <1>1, <1>2, <1>3 DEF Locks, Lock, Goto

\* The mutex that is unlocked is in the heap and belongs to the thread.
Exits(t, x) ==
    /\ pc[t] = "idle" /\ inside[t] # <<>> /\ inside[t] \in Seq(Objs)
    /\ x \in Mons /\ owner[x] = t /\ depth[x] \in Nat \ {0}
    /\ owner' = [owner EXCEPT ![x] = IF depth[x] = 1 THEN null ELSE t]
    /\ depth' = [depth EXCEPT ![x] = @ - 1]
    /\ inside' = [inside EXCEPT ![t] = SubSeq(@, 1, Len(@) - 1)]
    /\ UNCHANGED <<monitor, heap, refs, gmtx, locals, dead, shares, fault>>

\* _d_monitorexit fetches the monitor again and finds the one it locked.
LEMMA ExitEffect ==
    ASSUME IInv, NEW t \in Threads, Exit(t), NEW x, x = monitor[inside[t][Len(inside[t])]]
    PROVE  Exits(t, x)
<1>1. pc[t] = "idle" /\ inside[t] # <<>> /\ inside[t] \in Seq(Objs)
  BY DEF Exit, IInv, TypeInv
<1>2. Len(inside[t]) \in DOMAIN inside[t]
  BY <1>1, Pop
<1>3. inside[t][Len(inside[t])] \in Living /\ x # null /\ owner[x] = t
  BY <1>2 DEF IInv, HoldInv
<1>4. x \in Mons /\ x \in heap
  BY <1>3 DEF IInv, HeapInv, TypeInv, Living
<1>5. depth[x] \in Nat \ {0}
  BY <1>3, <1>4, MonitorAssumption DEF IInv, TypeInv, DepthInv
<1> QED
  BY <1>1, <1>3, <1>4, <1>5 DEF Exits, Exit

\* The winner's monitor is its own, and its object has none yet.
Publishes(t) ==
    /\ pc[t] = "publish" /\ m[t] \in Mons /\ obj[t] \in Living
    /\ \/ /\ monitor[obj[t]] = null
          /\ refs' = [refs EXCEPT ![m[t]] = 1]
          /\ monitor' = [monitor EXCEPT ![obj[t]] = m[t]]
          /\ pc' = [pc EXCEPT ![t] = AfterEnsure(t)]
       \/ /\ monitor[obj[t]] # null
          /\ pc' = [pc EXCEPT ![t] = "lose"]
          /\ UNCHANGED <<refs, monitor>>
    /\ gmtx = t /\ gmtx' = null
    /\ UNCHANGED <<heap, owner, depth, op, obj, mate, m, won, inside, dead, shares, fault>>

\* ensureMonitor publishes its monitor only in an object that has none.
LEMMA PublishEffect ==
    ASSUME IInv, NEW t \in Threads, Publish(t)
    PROVE  Publishes(t)
<1>1. pc[t] = "publish" /\ op[t] # "delete" /\ obj[t] \in Living
  BY DEF Publish, IInv, OpInv, UseInv
<1>2. m[t] \in Mons /\ gmtx = t /\ (won[t] <=> monitor[obj[t]] = null)
  BY <1>1 DEF IInv, TypeInv, PtrInv, Private
<1> QED
  BY <1>1, <1>2 DEF Publishes, Publish, Goto

\* The object of a setSameMutex that is about to be completed has a monitor, the
\* ownee has none.
Sames(t) ==
    /\ pc[t] \in {"count", "copy"} /\ op[t] = "same"
    /\ obj[t] \in Living /\ mate[t] \in Living /\ mate[t] # obj[t]
    /\ monitor[mate[t]] = null
    /\ m[t] = monitor[obj[t]] /\ m[t] \in Mons
    /\ UNCHANGED <<heap, owner, depth, gmtx, op, obj, mate, m, won, inside, dead, fault>>

\* setSameMutex counts and copies a monitor that cannot go away meanwhile.
LEMMA SameEffect ==
    ASSUME IInv, NEW t \in Threads, SameStep(t)
    PROVE  Sames(t)
<1>1. pc[t] \in {"count", "copy"} /\ op[t] = "same"
  BY DEF SameStep, Count, Copy, IInv, OpInv
<1>2. obj[t] \in Living /\ mate[t] \in Living /\ mate[t] # obj[t] /\ monitor[mate[t]] = null
  BY <1>1 DEF IInv, UseInv
<1>3. m[t] = monitor[obj[t]] /\ m[t] \in Mons
  BY <1>1 DEF IInv, TypeInv, PtrInv
<1> QED
  BY <1>1, <1>2, <1>3 DEF Sames, SameStep, Count, Copy

\* A monitor whose last object dies goes to the thread that finalises it.
Deletes(t, h) ==
    /\ pc[t] = "idle" /\ h \in Living
    /\ \A u \in Threads : \A i \in DOMAIN inside[u] : inside[u][i] # h
    /\ \A u \in Threads \ {t} : pc[u] # "idle" => obj[u] # h /\ mate[u] # h
    /\ op' = [op EXCEPT ![t] = "delete"]
    /\ obj' = [obj EXCEPT ![t] = h] /\ mate' = [mate EXCEPT ![t] = h]
    /\ m' = [m EXCEPT ![t] = monitor[h]] /\ dead' = dead \cup {h}
    /\ \/ monitor[h] = null /\ UNCHANGED <<refs, pc>>
       \/ /\ monitor[h] \in Mons /\ refs[monitor[h]] \in Nat \ {0}
          /\ refs' = [refs EXCEPT ![monitor[h]] = @ - 1]
          /\ \/ refs[monitor[h]] = 1 /\ pc' = [pc EXCEPT ![t] = "free"]
             \/ refs[monitor[h]] # 1 /\ UNCHANGED pc
    /\ UNCHANGED <<monitor, heap, owner, depth, gmtx, won, inside, shares, fault>>

\* _d_monitordelete finds the count positive.
LEMMA DeleteEffect ==
    ASSUME IInv, NEW t \in Threads, NEW h \in Objs, Delete(t, h)
    PROVE  Deletes(t, h)
<1>1. pc[t] = "idle" /\ h \in Living
  BY DEF Delete, Living
<1>2. /\ \A u \in Threads : \A i \in DOMAIN inside[u] : inside[u][i] # h
      /\ \A u \in Threads \ {t} : pc[u] # "idle" => obj[u] # h /\ mate[u] # h
  BY DEF Delete, InUse, Entered
<1>3. monitor[h] # null => monitor[h] \in Mons /\ refs[monitor[h]] \in Nat \ {0}
  BY <1>1, RefsPositive DEF IInv
<1>4. \/ monitor[h] = null /\ UNCHANGED <<refs, pc>>
      \/ /\ monitor[h] # null
         /\ refs' = [refs EXCEPT ![monitor[h]] = @ - 1]
         /\ \/ refs[monitor[h]] = 1 /\ pc' = [pc EXCEPT ![t] = "free"]
            \/ refs[monitor[h]] # 1 /\ pc' = [pc EXCEPT ![t] = "idle"]
  BY DEF Delete, Goto
<1>5. pc' = [pc EXCEPT ![t] = "idle"] => pc' = pc
  BY <1>1 DEF IInv, TypeInv
<1> QED
  BY <1>1, <1>2, <1>3, <1>4, <1>5 DEF Deletes, Delete

\* All of them, for a step of one thread.
LEMMA Effects ==
    ASSUME IInv, NEW t \in Threads
    PROVE  /\ Lock(t) => Locks(t)
           /\ Exit(t) => Exits(t, monitor[inside[t][Len(inside[t])]])
           /\ Publish(t) => Publishes(t)
           /\ SameStep(t) => Sames(t)
           /\ \A h \in Objs : Delete(t, h) => Deletes(t, h)
<1> QED
  BY LockEffect, ExitEffect, PublishEffect, SameEffect, DeleteEffect

-----------------------------------------------------------------------------
(* Every step preserves each part of the invariant *)

\* A step preserves the types.
LEMMA TypeStep ==
    ASSUME IInv, NEW t \in Threads, Step(t)
    PROVE  TypeInv'
<1>a. /\ Lock(t) => Locks(t)
      /\ Exit(t) => Exits(t, monitor[inside[t][Len(inside[t])]])
      /\ Publish(t) => Publishes(t)
      /\ Count(t) \/ Copy(t) => Sames(t)
      /\ \A h \in Objs : Delete(t, h) => Deletes(t, h)
  BY Effects DEF SameStep
<1> USE DEF IInv, TypeInv, Locs, Goto, AfterEnsure, locals
<1>1. CASE Get(t)
  BY <1>1 DEF Get
<1>2. CASE Alloc(t)
  BY <1>2 DEF Alloc
<1>3. CASE Check(t)
  BY <1>3 DEF Check, SecondTest
<1>4. CASE Publish(t)
  <2> Publishes(t)
    BY <1>4, <1>a
  <2> USE DEF Publishes
  <2>1. refs' \in [Mons -> Nat]
    OBVIOUS
  <2>2. monitor' \in [Objs -> Mons \cup {null}]
    BY DEF Living
  <2>3. pc' \in [Threads -> Locs]
    OBVIOUS
  <2> QED
    BY <2>1, <2>2, <2>3
<1>5. CASE Lose(t)
  BY <1>5 DEF Lose, LoserFrees
<1>6. CASE Lock(t)
  <2> Locks(t)
    BY <1>6, <1>a
  <2> USE DEF Locks
  <2>1. inside' \in [Threads -> Seq(Objs)]
    BY Push
  <2>2. owner' \in [Mons -> Threads \cup {null}]
    OBVIOUS
  <2>3. depth' \in [Mons -> Nat]
    OBVIOUS
  <2> QED
    BY <2>1, <2>2, <2>3
<1>7. CASE Exit(t)
  <2> DEFINE x == monitor[inside[t][Len(inside[t])]]
  <2>0. Exits(t, x)
    BY <1>7, <1>a
  <2> HIDE DEF x
  <2> USE <2>0 DEF Exits
  <2>1. inside' \in [Threads -> Seq(Objs)]
    BY Pop
  <2>2. owner' \in [Mons -> Threads \cup {null}]
    OBVIOUS
  <2>3. depth' \in [Mons -> Nat]
    OBVIOUS
  <2> QED
    BY <2>1, <2>2, <2>3
<1>8. CASE Count(t)
  <2> Sames(t)
    BY <1>8, <1>a
  <2> USE DEF Sames
  <2>1. refs' \in [Mons -> Nat] /\ pc' \in [Threads -> Locs]
    BY <1>8 DEF Count, SharerCount
  <2> QED
    BY <1>8, <2>1 DEF Count
<1>9. CASE Copy(t)
  BY <1>9 DEF Copy
<1>10. CASE Free(t)
  BY <1>10 DEF Free
<1>11. ASSUME NEW h \in Objs, Enter(t, h) PROVE TypeInv'
  BY <1>11 DEF Enter
<1>12. ASSUME NEW h \in Objs, Delete(t, h) PROVE TypeInv'
  <2> Deletes(t, h)
    BY <1>12, <1>a
  <2> USE DEF Deletes
  <2>1. refs' \in [Mons -> Nat]
    <3>1. CASE UNCHANGED refs
      BY <3>1
    <3>2. ASSUME NEW x \in Mons, refs[x] \in Nat \ {0}, refs' = [refs EXCEPT ![x] = @ - 1]
          PROVE  refs' \in [Mons -> Nat]
      BY <3>2
    <3> QED
      BY <3>1, <3>2
  <2>2. pc' \in [Threads -> Locs]
    OBVIOUS
  <2>3. /\ op' \in [Threads -> {"enter", "same", "delete"}]
        /\ obj' \in [Threads -> Objs] /\ mate' \in [Threads -> Objs]
    OBVIOUS
  <2>4. m' \in [Threads -> Mons \cup {null}]
    OBVIOUS
  <2> QED
    BY <2>1, <2>2, <2>3, <2>4
<1>13. ASSUME NEW h \in Objs, NEW g \in Objs, SetSame(t, g, h) PROVE TypeInv'
  BY <1>13 DEF SetSame
<1> QED
  BY <1>1, <1>2, <1>3, <1>4, <1>5, <1>6, <1>7, <1>8, <1>9, <1>10, <1>11, <1>12, <1>13 DEF Step, EnterStep, SameStep

\* An operation keeps to its own locations, the nesting to its bound.
LEMMA OpStep ==
    ASSUME IInv, NEW t \in Threads, Step(t)
    PROVE  OpInv'
<1>a. /\ Lock(t) => Locks(t)
      /\ Exit(t) => Exits(t, monitor[inside[t][Len(inside[t])]])
      /\ Publish(t) => Publishes(t)
      /\ Count(t) \/ Copy(t) => Sames(t)
      /\ \A h \in Objs : Delete(t, h) => Deletes(t, h)
  BY Effects DEF SameStep
<1> USE DEF IInv, TypeInv, OpInv, Goto, AfterEnsure, locals
<1>1. CASE Get(t)
  BY <1>1 DEF Get
<1>2. CASE Alloc(t)
  BY <1>2 DEF Alloc
<1>3. CASE Check(t)
  BY <1>3 DEF Check
<1>4. CASE Publish(t)
  <2> Publishes(t)
    BY <1>4, <1>a
  <2> USE DEF Publishes
  <2> QED
    OBVIOUS
<1>5. CASE Lose(t)
  BY <1>5 DEF Lose
<1>6. CASE Lock(t)
  <2> Locks(t)
    BY <1>6, <1>a
  <2> USE DEF Locks
  <2>1. inside'[t] = Append(inside[t], obj[t]) /\ \A u \in Threads \ {t} : inside'[u] = inside[u]
    OBVIOUS
  <2>2. Len(inside'[t]) = Len(inside[t]) + 1
    BY <2>1, Push
  <2>3. Len(inside[t]) < MaxNest /\ Len(inside[t]) \in Nat
    OBVIOUS
  <2> QED
    BY <2>1, <2>2, <2>3, MonitorAssumption
<1>7. CASE Exit(t)
  <2> DEFINE x == monitor[inside[t][Len(inside[t])]]
  <2>0. Exits(t, x)
    BY <1>7, <1>a
  <2> HIDE DEF x
  <2> USE <2>0 DEF Exits
  <2>1. /\ inside'[t] = SubSeq(inside[t], 1, Len(inside[t]) - 1)
        /\ \A u \in Threads \ {t} : inside'[u] = inside[u]
    OBVIOUS
  <2>2. Len(inside'[t]) = Len(inside[t]) - 1
    BY <2>1, Pop
  <2>3. Len(inside[t]) <= MaxNest /\ Len(inside[t]) \in Nat
    OBVIOUS
  <2> QED
    BY <2>1, <2>2, <2>3, MonitorAssumption
<1>8. CASE Count(t)
  BY <1>8 DEF Count
<1>9. CASE Copy(t)
  BY <1>9 DEF Copy
<1>10. CASE Free(t)
  BY <1>10 DEF Free
<1>11. ASSUME NEW h \in Objs, Enter(t, h) PROVE OpInv'
  BY <1>11 DEF Enter
<1>12. ASSUME NEW h \in Objs, Delete(t, h) PROVE OpInv'
  <2> Deletes(t, h)
    BY <1>12, <1>a
  <2> USE DEF Deletes
  <2> QED
    OBVIOUS
<1>13. ASSUME NEW h \in Objs, NEW g \in Objs, SetSame(t, g, h) PROVE OpInv'
  BY <1>13 DEF SetSame
<1> QED
  BY <1>1, <1>2, <1>3, <1>4, <1>5, <1>6, <1>7, <1>8, <1>9, <1>10, <1>11, <1>12, <1>13 DEF Step, EnterStep, SameStep

\* A step finalises no object in use, and nobody else gets hold of one that is to share.
LEMMA UseStep ==
    ASSUME IInv, NEW t \in Threads, Step(t)
    PROVE  UseInv'
<1>a. /\ Lock(t) => Locks(t)
      /\ Exit(t) => Exits(t, monitor[inside[t][Len(inside[t])]])
      /\ Publish(t) => Publishes(t)
      /\ Count(t) \/ Copy(t) => Sames(t)
      /\ \A h \in Objs : Delete(t, h) => Deletes(t, h)
  BY Effects DEF SameStep
<1> USE DEF IInv, TypeInv, OpInv, UseInv, Goto, AfterEnsure, locals, Living
<1>1. CASE Get(t)
  BY <1>1 DEF Get
<1>2. CASE Alloc(t)
  BY <1>2 DEF Alloc
<1>3. CASE Check(t)
  BY <1>3 DEF Check
<1>4. CASE Publish(t)
  <2> Publishes(t)
    BY <1>4, <1>a
  <2> USE DEF Publishes
  <2> QED
    OBVIOUS
<1>5. CASE Lose(t)
  BY <1>5 DEF Lose
<1>6. CASE Lock(t)
  <2> Locks(t)
    BY <1>6, <1>a
  <2> USE DEF Locks
  <2> QED
    BY Push
<1>7. CASE Exit(t)
  <2> DEFINE x == monitor[inside[t][Len(inside[t])]]
  <2>0. Exits(t, x)
    BY <1>7, <1>a
  <2> HIDE DEF x
  <2> USE <2>0 DEF Exits
  <2> QED
    BY Pop
<1>8. CASE Count(t)
  BY <1>8 DEF Count
<1>9. CASE Copy(t)
  <2> Sames(t)
    BY <1>9, <1>a
  <2> USE DEF Sames
  <2> QED
    BY <1>9 DEF Copy
<1>10. CASE Free(t)
  BY <1>10 DEF Free
<1>11. ASSUME NEW h \in Objs, Enter(t, h) PROVE UseInv'
  BY <1>11 DEF Enter, Claimed
<1>12. ASSUME NEW h \in Objs, Delete(t, h) PROVE UseInv'
  <2> Deletes(t, h)
    BY <1>12, <1>a
  <2> USE DEF Deletes
  <2> QED
    OBVIOUS
<1>13. ASSUME NEW h \in Objs, NEW g \in Objs, SetSame(t, g, h) PROVE UseInv'
  BY <1>13 DEF SetSame, Claimed, InUse, HoldInv
<1> QED
  BY <1>1, <1>2, <1>3, <1>4, <1>5, <1>6, <1>7, <1>8, <1>9, <1>10, <1>11, <1>12, <1>13 DEF Step, EnterStep, SameStep

\* A step leaves no thread with a stale pointer to a monitor.
LEMMA PtrStep ==
    ASSUME IInv, NEW t \in Threads, Step(t)
    PROVE  PtrInv'
<1>a. /\ Lock(t) => Locks(t)
      /\ Exit(t) => Exits(t, monitor[inside[t][Len(inside[t])]])
      /\ Publish(t) => Publishes(t)
      /\ Count(t) \/ Copy(t) => Sames(t)
      /\ \A h \in Objs : Delete(t, h) => Deletes(t, h)
  BY Effects DEF SameStep
<1> USE DEF IInv, TypeInv, OpInv, PtrInv, Goto, AfterEnsure, locals, Private
<1>1. CASE Get(t)
  BY <1>1 DEF Get
<1>2. CASE Alloc(t)
  BY <1>2, MonitorAssumption DEF Alloc
<1>3. CASE Check(t)
  <2>1. \A u \in Threads \ {t} : pc[u] # "publish"
    BY <1>3, MonitorAssumption DEF Check
  <2>2. won'[t] <=> monitor[obj[t]] = null
    BY <1>3 DEF Check, SecondTest
  <2> QED
    BY <1>3, <2>1, <2>2 DEF Check
<1>4. CASE Publish(t)
  <2> Publishes(t)
    BY <1>4, <1>a
  <2> USE DEF Publishes
  <2> QED
    BY DEF UseInv
<1>5. CASE Lose(t)
  BY <1>5 DEF Lose
<1>6. CASE Lock(t)
  <2> Locks(t)
    BY <1>6, <1>a
  <2> USE DEF Locks
  <2> QED
    OBVIOUS
<1>7. CASE Exit(t)
  <2> DEFINE x == monitor[inside[t][Len(inside[t])]]
  <2>0. Exits(t, x)
    BY <1>7, <1>a
  <2> HIDE DEF x
  <2> USE <2>0 DEF Exits
  <2> QED
    OBVIOUS
<1>8. CASE Count(t)
  BY <1>8 DEF Count
<1>9. CASE Copy(t)
  <2> Sames(t)
    BY <1>9, <1>a
  <2> USE DEF Sames
  <2>1. \A u \in Threads \ {t} : pc[u] # "idle" => monitor'[obj[u]] = monitor[obj[u]]
    BY <1>9 DEF Copy, UseInv
  <2>2. /\ \A u \in Threads \ {t} : pc'[u] = pc[u]
        /\ pc'[t] = "idle" /\ UNCHANGED <<gmtx, obj, m, won>>
    BY <1>9 DEF Copy
  <2>3. ASSUME NEW u \in Threads \ {t}, pc[u] # "idle"
        PROVE  /\ pc[u] = "publish" => gmtx' = u /\ (won'[u] <=> monitor'[obj'[u]] = null)
               /\ pc[u] \in {"lock", "count", "copy"} => m'[u] = monitor'[obj'[u]] /\ m'[u] # null
               /\ pc[u] = "lose" => monitor'[obj'[u]] # null
               /\ Private(u) => m'[u] # null
    BY <2>1, <2>2, <2>3
  <2> QED
    BY <2>2, <2>3
<1>10. CASE Free(t)
  BY <1>10 DEF Free, UseInv, Living
<1>11. ASSUME NEW h \in Objs, Enter(t, h) PROVE PtrInv'
  BY <1>11 DEF Enter
<1>12. ASSUME NEW h \in Objs, Delete(t, h) PROVE PtrInv'
  <2> Deletes(t, h)
    BY <1>12, <1>a
  <2> USE DEF Deletes
  <2> QED
    BY MonitorAssumption
<1>13. ASSUME NEW h \in Objs, NEW g \in Objs, SetSame(t, g, h) PROVE PtrInv'
  BY <1>13 DEF SetSame
<1> QED
  BY <1>1, <1>2, <1>3, <1>4, <1>5, <1>6, <1>7, <1>8, <1>9, <1>10, <1>11, <1>12, <1>13 DEF Step, EnterStep, SameStep

\* When the last reference goes, no other living object has the monitor; before that,
\* one has.
LEMMA LastReference ==
    ASSUME IInv, NEW t \in Threads, NEW h \in Objs, Deletes(t, h), monitor[h] # null
    PROVE  /\ refs[monitor[h]] = 1 => \A g \in Living \ {h} : monitor[g] # monitor[h]
           /\ refs[monitor[h]] # 1 => \E g \in Living \ {h} : monitor[g] = monitor[h]
<1> DEFINE x == monitor[h]
<1>1. x \in Mons /\ h \in Pointing(x)
  BY DEF IInv, TypeInv, Deletes, Pointing
<1>2. refs[x] = Cardinality(Pointing(x)) + Cardinality(Copying(x))
  BY <1>1 DEF IInv, RefsInv
<1>3. /\ IsFiniteSet(Pointing(x)) /\ Cardinality(Pointing(x)) \in Nat \ {0}
      /\ IsFiniteSet(Copying(x)) /\ Cardinality(Copying(x)) \in Nat
  BY <1>1, Finite, Positive DEF IInv
<1>4. ASSUME refs[x] = 1 PROVE \A g \in Living \ {h} : monitor[g] # x
  <2>1. Cardinality(Pointing(x)) = 1
    BY <1>2, <1>3, <1>4
  <2>2. PICK g : Pointing(x) = {g}
    BY <1>3, <2>1, FS_Singleton
  <2> QED
    BY <1>1, <2>2 DEF Pointing
<1>5. ASSUME refs[x] # 1 PROVE \E g \in Living \ {h} : monitor[g] = x
  <2>1. CASE Copying(x) = {}
    <3>1. Cardinality(Pointing(x)) # 1
      BY <1>2, <1>3, <1>5, <2>1, FS_EmptySet
    <3>2. Pointing(x) # {h}
      BY <3>1, FS_Singleton
    <3> QED
      BY <1>1, <3>2 DEF Pointing
  <2>2. ASSUME NEW u \in Copying(x) PROVE \E g \in Living \ {h} : monitor[g] = x
    <3>1. u \in Threads /\ pc[u] = "copy" /\ m[u] = x
      BY <2>2 DEF Copying
    <3>2. m[u] = monitor[obj[u]] /\ obj[u] \in Living
      BY <3>1 DEF IInv, OpInv, UseInv, PtrInv
    <3>3. obj[u] # h
      BY <3>1 DEF Deletes
    <3> QED
      BY <3>1, <3>2, <3>3
  <2> QED
    BY <2>1, <2>2
<1> QED
  BY <1>4, <1>5

\* The thread's last hold on a mutex is the last statement it is in.
LEMMA LastHold ==
    ASSUME IInv, NEW t \in Threads, NEW x, x = monitor[inside[t][Len(inside[t])]],
           Exits(t, x), depth[x] = 1
    PROVE  Holds(t, x) = {Len(inside[t])}
<1>1. depth[x] = Cardinality(Holds(t, x))
  BY MonitorAssumption DEF IInv, DepthInv, Exits
<1>2. Len(inside[t]) \in Holds(t, x)
  BY Pop DEF Exits, Holds
<1>3. PICK i : Holds(t, x) = {i}
  BY <1>1, Finite, FS_Singleton DEF IInv
<1> QED
  BY <1>2, <1>3

\* A monitor nobody has published yet, or that is not allocated, is counted nowhere.
LEMMA Unreferenced ==
    ASSUME IInv, NEW x \in Mons, x \notin heap \/ \E t \in Threads : Private(t) /\ m[t] = x
    PROVE  Pointing(x) = {} /\ Copying(x) = {}
<1>1. \A h \in Living : monitor[h] # x
  BY MonitorAssumption DEF IInv, HeapInv
<1>2. \A t \in Threads : pc[t] = "copy" => m[t] = monitor[obj[t]] /\ obj[t] \in Living
  BY DEF IInv, OpInv, UseInv, PtrInv
<1> QED
  BY <1>1, <1>2 DEF Pointing, Copying

\* A step keeps objects that share a mutex sharing it.
LEMMA ShareStep ==
    ASSUME IInv, NEW t \in Threads, Step(t)
    PROVE  ShareInv'
<1>a. /\ Lock(t) => Locks(t)
      /\ Exit(t) => Exits(t, monitor[inside[t][Len(inside[t])]])
      /\ Publish(t) => Publishes(t)
      /\ Count(t) \/ Copy(t) => Sames(t)
      /\ \A h \in Objs : Delete(t, h) => Deletes(t, h)
  BY Effects DEF SameStep
<1> USE DEF IInv, TypeInv, ShareInv, Goto, locals, Living
<1>1. CASE Get(t)
  BY <1>1 DEF Get
<1>2. CASE Alloc(t)
  BY <1>2 DEF Alloc
<1>3. CASE Check(t)
  BY <1>3 DEF Check
<1>4. CASE Publish(t)
  <2> Publishes(t)
    BY <1>4, <1>a
  <2> USE DEF Publishes
  <2> QED
    OBVIOUS
<1>5. CASE Lose(t)
  BY <1>5 DEF Lose
<1>6. CASE Lock(t)
  <2> Locks(t)
    BY <1>6, <1>a
  <2> USE DEF Locks
  <2> QED
    OBVIOUS
<1>7. CASE Exit(t)
  <2> DEFINE x == monitor[inside[t][Len(inside[t])]]
  <2>0. Exits(t, x)
    BY <1>7, <1>a
  <2> HIDE DEF x
  <2> USE <2>0 DEF Exits
  <2> QED
    OBVIOUS
<1>8. CASE Count(t)
  BY <1>8 DEF Count
<1>9. CASE Copy(t)
  <2> Sames(t)
    BY <1>9, <1>a
  <2> USE DEF Sames
  <2>1. monitor' = [monitor EXCEPT ![mate[t]] = monitor[obj[t]]]
    BY <1>9 DEF Copy
  <2>2. \A h, g \in Objs : <<h, g>> \in shares' =>
           \/ <<h, g>> \in shares
           \/ h = mate[t] /\ (g = obj[t] \/ <<g, obj[t]>> \in shares)
           \/ g = mate[t] /\ (h = obj[t] \/ <<h, obj[t]>> \in shares)
    BY <1>9 DEF Copy
  <2>3. \A h, g \in Living : <<h, g>> \in shares =>
           h # mate[t] /\ g # mate[t] /\ monitor[h] = monitor[g] /\ monitor[h] # null
    OBVIOUS
  <2>4. monitor[obj[t]] # null /\ Living' = Living /\ obj[t] \in Living /\ obj[t] # mate[t]
    BY MonitorAssumption
  <2>5. \A h \in Living \ {mate[t]} : monitor'[h] = monitor[h]
    BY <2>1
  <2>6. monitor'[mate[t]] = monitor[obj[t]]
    BY <2>1
  <2>7. ASSUME NEW h \in Living, NEW g \in Living, <<h, g>> \in shares'
        PROVE  monitor'[h] = monitor'[g] /\ monitor'[h] # null
    <3>1. CASE <<h, g>> \in shares
      BY <3>1, <2>3, <2>5
    <3>2. CASE h = mate[t] /\ (g = obj[t] \/ <<g, obj[t]>> \in shares)
      BY <3>2, <2>3, <2>4, <2>5, <2>6
    <3>3. CASE g = mate[t] /\ (h = obj[t] \/ <<h, obj[t]>> \in shares)
      BY <3>3, <2>3, <2>4, <2>5, <2>6
    <3> QED
      BY <2>2, <2>7, <3>1, <3>2, <3>3
  <2> QED
    BY <2>4, <2>7
<1>10. CASE Free(t)
  BY <1>10 DEF Free, OpInv, UseInv
<1>11. ASSUME NEW h \in Objs, Enter(t, h) PROVE ShareInv'
  BY <1>11 DEF Enter
<1>12. ASSUME NEW h \in Objs, Delete(t, h) PROVE ShareInv'
  <2> Deletes(t, h)
    BY <1>12, <1>a
  <2> USE DEF Deletes
  <2> QED
    OBVIOUS
<1>13. ASSUME NEW h \in Objs, NEW g \in Objs, SetSame(t, g, h) PROVE ShareInv'
  BY <1>13 DEF SetSame
<1> QED
  BY <1>1, <1>2, <1>3, <1>4, <1>5, <1>6, <1>7, <1>8, <1>9, <1>10, <1>11, <1>12, <1>13 DEF Step, EnterStep, SameStep

\* A step takes the mutex from nobody who is inside a synchronized statement.
LEMMA HoldStep ==
    ASSUME IInv, NEW t \in Threads, Step(t)
    PROVE  HoldInv'
<1>a. /\ Lock(t) => Locks(t)
      /\ Exit(t) => Exits(t, monitor[inside[t][Len(inside[t])]])
      /\ Publish(t) => Publishes(t)
      /\ Count(t) \/ Copy(t) => Sames(t)
      /\ \A h \in Objs : Delete(t, h) => Deletes(t, h)
  BY Effects DEF SameStep
<1> USE DEF IInv, TypeInv, HoldInv, Goto, locals, Living
<1>1. CASE Get(t)
  BY <1>1 DEF Get
<1>2. CASE Alloc(t)
  <2>1. PICK x \in Mons \ heap : owner' = [owner EXCEPT ![x] = null]
    BY <1>2 DEF Alloc
  <2>2. \A u \in Threads : \A i \in DOMAIN inside[u] : monitor[inside[u][i]] # x
    BY DEF HeapInv
  <2> QED
    BY <1>2, <2>1, <2>2 DEF Alloc
<1>3. CASE Check(t)
  BY <1>3 DEF Check
<1>4. CASE Publish(t)
  <2> Publishes(t)
    BY <1>4, <1>a
  <2> USE DEF Publishes
  <2> QED
    OBVIOUS
<1>5. CASE Lose(t)
  BY <1>5 DEF Lose
<1>6. CASE Lock(t)
  <2> Locks(t)
    BY <1>6, <1>a
  <2> USE DEF Locks
  <2>1. inside[t] \in Seq(Objs) /\ obj[t] \in Objs
    OBVIOUS
  <2>2. /\ DOMAIN inside'[t] = DOMAIN inside[t] \cup {Len(inside[t]) + 1}
        /\ \A i \in DOMAIN inside[t] : inside'[t][i] = inside[t][i]
        /\ inside'[t][Len(inside[t]) + 1] = obj[t]
    BY <2>1, Push
  <2> QED
    BY <2>2, MonitorAssumption
<1>7. CASE Exit(t)
  <2> DEFINE x == monitor[inside[t][Len(inside[t])]]
  <2>0. Exits(t, x)
    BY <1>7, <1>a
  <2> HIDE DEF x
  <2> USE <2>0 DEF Exits
  <2>1. /\ DOMAIN inside'[t] = DOMAIN inside[t] \ {Len(inside[t])}
        /\ \A i \in DOMAIN inside'[t] : inside'[t][i] = inside[t][i]
    BY Pop
  <2>2. depth[x] = 1 => Holds(t, x) = {Len(inside[t])}
    BY LastHold DEF x
  <2>3. depth[x] = 1 => \A i \in DOMAIN inside'[t] : monitor[inside[t][i]] # x
    BY <2>1, <2>2 DEF Holds
  <2> QED
    BY <2>1, <2>3
<1>8. CASE Count(t)
  BY <1>8 DEF Count
<1>9. CASE Copy(t)
  <2> Sames(t)
    BY <1>9, <1>a
  <2> USE DEF Sames
  <2> QED
    BY <1>9 DEF Copy
<1>10. CASE Free(t)
  BY <1>10 DEF Free, OpInv, UseInv
<1>11. ASSUME NEW h \in Objs, Enter(t, h) PROVE HoldInv'
  BY <1>11 DEF Enter
<1>12. ASSUME NEW h \in Objs, Delete(t, h) PROVE HoldInv'
  <2> Deletes(t, h)
    BY <1>12, <1>a
  <2> USE DEF Deletes
  <2> QED
    OBVIOUS
<1>13. ASSUME NEW h \in Objs, NEW g \in Objs, SetSame(t, g, h) PROVE HoldInv'
  BY <1>13 DEF SetSame
<1> QED
  BY <1>1, <1>2, <1>3, <1>4, <1>5, <1>6, <1>7, <1>8, <1>9, <1>10, <1>11, <1>12, <1>13 DEF Step, EnterStep, SameStep

\* A step frees no monitor that is pointed to and lets no two threads own one.
LEMMA HeapStep ==
    ASSUME IInv, NEW t \in Threads, Step(t)
    PROVE  HeapInv'
<1>a. /\ Lock(t) => Locks(t)
      /\ Exit(t) => Exits(t, monitor[inside[t][Len(inside[t])]])
      /\ Publish(t) => Publishes(t)
      /\ Count(t) \/ Copy(t) => Sames(t)
      /\ \A h \in Objs : Delete(t, h) => Deletes(t, h)
  BY Effects DEF SameStep
<1>b. ASSUME NEW h \in Objs, Delete(t, h), monitor[h] # null
      PROVE  /\ refs[monitor[h]] = 1 => \A g \in Living \ {h} : monitor[g] # monitor[h]
             /\ refs[monitor[h]] # 1 => \E g \in Living \ {h} : monitor[g] = monitor[h]
  BY <1>a, <1>b, LastReference
<1> USE DEF IInv, TypeInv, OpInv, HeapInv, Goto, AfterEnsure, locals, Private, Living
<1>1. CASE Get(t)
  BY <1>1 DEF Get
<1>2. CASE Alloc(t)
  <2>1. PICK x \in Mons \ heap : heap' = heap \cup {x} /\ m' = [m EXCEPT ![t] = x]
    BY <1>2 DEF Alloc
  <2>2. /\ \A u \in Threads \ {t} : pc'[u] = pc[u] /\ m'[u] = m[u]
        /\ pc[t] = "alloc" /\ pc'[t] = "check" /\ m'[t] = x /\ UNCHANGED <<monitor, dead>>
    BY <1>2, <2>1 DEF Alloc
  <2> QED
    BY <2>1, <2>2, MonitorAssumption
<1>3. CASE Check(t)
  BY <1>3 DEF Check
<1>4. CASE Publish(t)
  <2> Publishes(t)
    BY <1>4, <1>a
  <2> USE DEF Publishes
  <2>1. /\ \A u \in Threads \ {t} : pc'[u] = pc[u] /\ m'[u] = m[u]
        /\ m'[t] = m[t] /\ UNCHANGED <<dead, heap>> /\ pc[t] = "publish"
    OBVIOUS
  <2>i. HeapInv /\ heap \subseteq Mons /\ obj[t] \in Living /\ m[t] # null
    BY MonitorAssumption
  <2>2. CASE monitor[obj[t]] = null
    <3>1. /\ monitor'[obj[t]] = m[t] /\ \A h \in Living \ {obj[t]} : monitor'[h] = monitor[h]
          /\ pc'[t] \notin {"check", "publish", "lose", "free"}
      BY <2>2
    <3> HIDE DEF IInv, TypeInv, OpInv, Publishes
    <3> QED
      BY <2>i, <2>1, <2>2, <3>1, MonitorAssumption
  <2>3. CASE monitor[obj[t]] # null
    <3>1. pc'[t] = "lose" /\ UNCHANGED monitor
      BY <2>3
    <3> HIDE DEF IInv, TypeInv, OpInv, Publishes
    <3> QED
      BY <2>i, <2>1, <3>1
  <2> QED
    BY <2>2, <2>3
<1>5. CASE Lose(t)
  BY <1>5 DEF Lose, PtrInv, LoserFrees
<1>6. CASE Lock(t)
  <2> Locks(t)
    BY <1>6, <1>a
  <2> USE DEF Locks
  <2> QED
    OBVIOUS
<1>7. CASE Exit(t)
  <2> DEFINE x == monitor[inside[t][Len(inside[t])]]
  <2>0. Exits(t, x)
    BY <1>7, <1>a
  <2> HIDE DEF x
  <2> USE <2>0 DEF Exits
  <2> QED
    OBVIOUS
<1>8. CASE Count(t)
  BY <1>8 DEF Count
<1>9. CASE Copy(t)
  <2> Sames(t)
    BY <1>9, <1>a
  <2> USE DEF Sames
  <2> QED
    BY <1>9 DEF Copy
<1>10. CASE Free(t)
  BY <1>10 DEF Free, PtrInv, UseInv
<1>11. ASSUME NEW h \in Objs, Enter(t, h) PROVE HeapInv'
  BY <1>11 DEF Enter
<1>12. ASSUME NEW h \in Objs, Delete(t, h) PROVE HeapInv'
  <2> Deletes(t, h)
    BY <1>12, <1>a
  <2> USE DEF Deletes
  <2>1. CASE monitor[h] = null
    BY <2>1, MonitorAssumption
  <2>2. CASE monitor[h] # null /\ refs[monitor[h]] = 1
    <3>1. /\ \A u \in Threads \ {t} : pc'[u] = pc[u] /\ m'[u] = m[u]
          /\ pc[t] = "idle" /\ pc'[t] = "free" /\ m'[t] = monitor[h]
          /\ UNCHANGED <<monitor, heap>> /\ Living' = Living \ {h}
      BY <2>2
    <3> QED
      BY <3>1, <2>2, <1>b, <1>12
  <2>3. CASE monitor[h] # null /\ refs[monitor[h]] # 1
    <3>1. /\ \A u \in Threads \ {t} : pc'[u] = pc[u] /\ m'[u] = m[u]
          /\ pc[t] = "idle" /\ pc'[t] = "idle"
          /\ UNCHANGED <<monitor, heap>> /\ Living' = Living \ {h}
      BY <2>3
    <3> QED
      BY <3>1, <2>3, <1>b, <1>12
  <2> QED
    BY <2>1, <2>2, <2>3
<1>13. ASSUME NEW h \in Objs, NEW g \in Objs, SetSame(t, g, h) PROVE HeapInv'
  BY <1>13 DEF SetSame
<1> QED
  BY <1>1, <1>2, <1>3, <1>4, <1>5, <1>6, <1>7, <1>8, <1>9, <1>10, <1>11, <1>12, <1>13 DEF Step, EnterStep, SameStep

\* A step leaks no monitor.
LEMMA LeakStep ==
    ASSUME IInv, NEW t \in Threads, Step(t)
    PROVE  LeakInv'
<1>a. /\ Lock(t) => Locks(t)
      /\ Exit(t) => Exits(t, monitor[inside[t][Len(inside[t])]])
      /\ Publish(t) => Publishes(t)
      /\ Count(t) \/ Copy(t) => Sames(t)
      /\ \A h \in Objs : Delete(t, h) => Deletes(t, h)
  BY Effects DEF SameStep
<1>b. ASSUME NEW h \in Objs, Delete(t, h), monitor[h] # null
      PROVE  /\ refs[monitor[h]] = 1 => \A g \in Living \ {h} : monitor[g] # monitor[h]
             /\ refs[monitor[h]] # 1 => \E g \in Living \ {h} : monitor[g] = monitor[h]
  BY <1>a, <1>b, LastReference
<1> USE DEF IInv, TypeInv, OpInv, LeakInv, Goto, AfterEnsure, locals, Private, Living
<1>1. CASE Get(t)
  BY <1>1 DEF Get
<1>2. CASE Alloc(t)
  <2>1. PICK x \in Mons \ heap : heap' = heap \cup {x} /\ m' = [m EXCEPT ![t] = x]
    BY <1>2 DEF Alloc
  <2>2. /\ \A u \in Threads \ {t} : pc'[u] = pc[u] /\ m'[u] = m[u]
        /\ pc[t] = "alloc" /\ pc'[t] = "check" /\ m'[t] = x /\ UNCHANGED <<monitor, dead>>
    BY <1>2, <2>1 DEF Alloc
  <2> QED
    BY <2>1, <2>2, MonitorAssumption
<1>3. CASE Check(t)
  BY <1>3 DEF Check
<1>4. CASE Publish(t)
  <2> Publishes(t)
    BY <1>4, <1>a
  <2> USE DEF Publishes
  <2>1. /\ \A u \in Threads \ {t} : pc'[u] = pc[u] /\ m'[u] = m[u]
        /\ m'[t] = m[t] /\ UNCHANGED <<dead, heap>> /\ pc[t] = "publish"
    OBVIOUS
  <2>i. LeakInv /\ heap \subseteq Mons /\ obj[t] \in Living /\ m[t] # null
    BY MonitorAssumption
  <2>2. CASE monitor[obj[t]] = null
    <3>1. /\ monitor'[obj[t]] = m[t] /\ \A h \in Living \ {obj[t]} : monitor'[h] = monitor[h]
          /\ pc'[t] \notin {"check", "publish", "lose", "free"}
      BY <2>2
    <3> HIDE DEF IInv, TypeInv, OpInv, Publishes
    <3> QED
      BY <2>i, <2>1, <2>2, <3>1, MonitorAssumption
  <2>3. CASE monitor[obj[t]] # null
    <3>1. pc'[t] = "lose" /\ UNCHANGED monitor
      BY <2>3
    <3> HIDE DEF IInv, TypeInv, OpInv, Publishes
    <3> QED
      BY <2>i, <2>1, <3>1
  <2> QED
    BY <2>2, <2>3
<1>5. CASE Lose(t)
  BY <1>5 DEF Lose, PtrInv, LoserFrees
<1>6. CASE Lock(t)
  <2> Locks(t)
    BY <1>6, <1>a
  <2> USE DEF Locks
  <2> QED
    OBVIOUS
<1>7. CASE Exit(t)
  <2> DEFINE x == monitor[inside[t][Len(inside[t])]]
  <2>0. Exits(t, x)
    BY <1>7, <1>a
  <2> HIDE DEF x
  <2> USE <2>0 DEF Exits
  <2> QED
    OBVIOUS
<1>8. CASE Count(t)
  BY <1>8 DEF Count
<1>9. CASE Copy(t)
  <2> Sames(t)
    BY <1>9, <1>a
  <2> USE DEF Sames
  <2>1. \A u \in Threads \ {t} : pc'[u] = pc[u]
    BY <1>9 DEF Copy
  <2>2. pc[t] = "copy" /\ pc'[t] = "idle" /\ UNCHANGED <<m, dead, heap>>
    BY <1>9 DEF Copy
  <2>3. \A h \in Living \ {mate[t]} : monitor'[h] = monitor[h]
    BY <1>9 DEF Copy
  <2>4. LeakInv /\ monitor[mate[t]] = null /\ heap \subseteq Mons
    OBVIOUS
  <2> HIDE DEF IInv, TypeInv, OpInv, Sames
  <2> QED
    BY <2>1, <2>2, <2>3, <2>4, MonitorAssumption
<1>10. CASE Free(t)
  <2>1. /\ \A u \in Threads \ {t} : pc'[u] = pc[u]
        /\ UNCHANGED <<m, dead>>
        /\ pc[t] = "free" /\ pc'[t] = "idle" /\ heap' = heap \ {m[t]}
    BY <1>10 DEF Free
  <2>2. \A h \in Living : monitor'[h] = monitor[h]
    BY <1>10 DEF Free, UseInv
  <2>i. LeakInv
    OBVIOUS
  <2> HIDE DEF IInv, TypeInv, OpInv
  <2> QED
    BY <2>i, <2>1, <2>2
<1>11. ASSUME NEW h \in Objs, Enter(t, h) PROVE LeakInv'
  BY <1>11 DEF Enter
<1>12. ASSUME NEW h \in Objs, Delete(t, h) PROVE LeakInv'
  <2> Deletes(t, h)
    BY <1>12, <1>a
  <2> USE DEF Deletes
  <2>1. /\ \A u \in Threads \ {t} : pc'[u] = pc[u] /\ m'[u] = m[u]
        /\ pc[t] = "idle" /\ m'[t] = monitor[h]
        /\ UNCHANGED <<monitor, heap>> /\ Living' = Living \ {h}
    OBVIOUS
  <2>2. LeakInv /\ heap \subseteq Mons
    OBVIOUS
  <2>3. monitor[h] # null /\ refs[monitor[h]] = 1 => pc'[t] = "free"
    BY MonitorAssumption
  <2>4. monitor[h] # null /\ refs[monitor[h]] # 1 =>
           \E g \in Living \ {h} : monitor[g] = monitor[h]
    BY <1>12, <1>b
  <2> HIDE DEF IInv, TypeInv, OpInv, Deletes, Living
  <2>5. ASSUME NEW x \in heap
        PROVE  \/ \E g \in Living' : monitor'[g] = x
               \/ \E u \in Threads : Private(u)' /\ m'[u] = x
    <3>1. CASE \E u \in Threads : Private(u) /\ m[u] = x
      BY <2>1, <3>1
    <3>2. CASE \E g \in Living \ {h} : monitor[g] = x
      BY <2>1, <3>2
    <3>3. CASE monitor[h] = x
      BY <2>1, <2>2, <2>3, <2>4, <2>5, <3>3, MonitorAssumption
    <3> QED
      BY <2>2, <3>1, <3>2, <3>3
  <2> QED
    BY <2>1, <2>5
<1>13. ASSUME NEW h \in Objs, NEW g \in Objs, SetSame(t, g, h) PROVE LeakInv'
  BY <1>13 DEF SetSame
<1> QED
  BY <1>1, <1>2, <1>3, <1>4, <1>5, <1>6, <1>7, <1>8, <1>9, <1>10, <1>11, <1>12, <1>13 DEF Step, EnterStep, SameStep

\* A step keeps the count of every monitor exact.
LEMMA RefsStep ==
    ASSUME IInv, NEW t \in Threads, Step(t)
    PROVE  RefsInv'
<1>a. /\ Lock(t) => Locks(t)
      /\ Exit(t) => Exits(t, monitor[inside[t][Len(inside[t])]])
      /\ Publish(t) => Publishes(t)
      /\ Count(t) \/ Copy(t) => Sames(t)
      /\ \A h \in Objs : Delete(t, h) => Deletes(t, h)
  BY Effects DEF SameStep
<1>i. TypeInv /\ OpInv /\ UseInv /\ PtrInv /\ HeapInv /\ RefsInv /\ HoldInv /\ DepthInv
  BY DEF IInv
<1>f. \A x \in Mons : /\ IsFiniteSet(Pointing(x)) /\ Cardinality(Pointing(x)) \in Nat
                      /\ IsFiniteSet(Copying(x)) /\ Cardinality(Copying(x)) \in Nat
                      /\ refs[x] = Cardinality(Pointing(x)) + Cardinality(Copying(x))
  BY <1>i, Finite DEF RefsInv
<1>z. \A x \in Mons : (x \notin heap \/ \E u \in Threads : Private(u) /\ m[u] = x)
                         => Pointing(x) = {} /\ Copying(x) = {}
  BY Unreferenced
<1>m. null \notin Threads \cup Mons
  BY MonitorAssumption
<1> USE DEF Goto, AfterEnsure, locals
<1>1. CASE Get(t)
  <2>1. \A x \in Mons : Pointing(x)' = Pointing(x) /\ Copying(x)' = Copying(x)
    BY <1>1, <1>i DEF Get, Pointing, Copying, Living
  <2> QED
    BY <1>1, <1>i, <2>1 DEF RefsInv, Get
<1>2. CASE Alloc(t)
  <2>1. PICK x \in Mons \ heap : refs' = [refs EXCEPT ![x] = 0]
    BY <1>2 DEF Alloc
  <2>2. \A y \in Mons : Pointing(y)' = Pointing(y) /\ Copying(y)' = Copying(y)
    BY <1>2, <1>i DEF Alloc, Pointing, Copying, Living, TypeInv
  <2>3. Cardinality(Pointing(x)) = 0 /\ Cardinality(Copying(x)) = 0
    BY <1>z, FS_EmptySet
  <2> QED
    BY <1>i, <1>f, <2>1, <2>2, <2>3 DEF RefsInv, TypeInv
<1>3. CASE Check(t)
  <2>1. \A x \in Mons : Pointing(x)' = Pointing(x) /\ Copying(x)' = Copying(x)
    BY <1>3, <1>i DEF Check, Pointing, Copying, Living
  <2> QED
    BY <1>3, <1>i, <2>1 DEF RefsInv, Check
<1>4. CASE Publish(t)
  <2> Publishes(t)
    BY <1>4, <1>a
  <2> USE DEF Publishes
  <2>1. CASE monitor[obj[t]] = null
    <3>x. PICK x \in Mons : x = m[t]
      OBVIOUS
    <3> USE <3>x
    <3>1. Pointing(x) = {} /\ Copying(x) = {}
      BY <1>z DEF Private
    <3>2. pc' = [pc EXCEPT ![t] = AfterEnsure(t)] /\ refs' = [refs EXCEPT ![x] = 1]
          /\ monitor' = [monitor EXCEPT ![obj[t]] = x]
      BY <2>1
    <3>3. \A y \in Mons : Copying(y)' = Copying(y)
      BY <1>i, <3>2 DEF Copying, TypeInv
    <3>4. \A y \in Mons \ {x} : Pointing(y)' = Pointing(y)
      BY <1>i, <1>m, <2>1, <3>2 DEF Pointing, Living, TypeInv
    <3>5. Pointing(x)' = {obj[t]}
      BY <1>i, <3>1, <3>2 DEF Pointing, Living, TypeInv
    <3>6. Cardinality(Pointing(x)') = 1 /\ Cardinality(Copying(x)') = 0
      BY <3>1, <3>3, <3>5, FS_Singleton, FS_EmptySet
    <3>7. refs'[x] = 1 /\ \A y \in Mons \ {x} : refs'[y] = refs[y]
      BY <1>i, <3>2 DEF TypeInv
    <3> HIDE DEF Publishes
    <3>8. \A y \in Mons : refs'[y] = Cardinality(Pointing(y)') + Cardinality(Copying(y)')
      BY <1>f, <3>3, <3>4, <3>6, <3>7
    <3> QED
      BY <3>8 DEF RefsInv
  <2>2. CASE monitor[obj[t]] # null
    <3>1. \A x \in Mons : Pointing(x)' = Pointing(x) /\ Copying(x)' = Copying(x)
      BY <1>i, <2>2 DEF Pointing, Copying, Living, TypeInv
    <3> QED
      BY <1>i, <2>2, <3>1 DEF RefsInv
  <2> QED
    BY <2>1, <2>2
<1>5. CASE Lose(t)
  <2>1. \A x \in Mons : Pointing(x)' = Pointing(x) /\ Copying(x)' = Copying(x)
    BY <1>5, <1>i DEF Lose, Pointing, Copying, Living
  <2> QED
    BY <1>5, <1>i, <2>1 DEF RefsInv, Lose
<1>6. CASE Lock(t)
  <2> Locks(t)
    BY <1>6, <1>a
  <2> USE DEF Locks
  <2>1. \A x \in Mons : Pointing(x)' = Pointing(x) /\ Copying(x)' = Copying(x)
    BY <1>i DEF Pointing, Copying, Living, TypeInv
  <2> QED
    BY <1>i, <2>1 DEF RefsInv
<1>7. CASE Exit(t)
  <2>1. \A x \in Mons : Pointing(x)' = Pointing(x) /\ Copying(x)' = Copying(x)
    BY <1>7, <1>i DEF Exit, Pointing, Copying, Living
  <2> QED
    BY <1>7, <1>i, <2>1 DEF RefsInv, Exit
<1>8. CASE Count(t)
  <2> Sames(t)
    BY <1>8, <1>a
  <2> USE DEF Sames
  <2>x. PICK x \in Mons : x = m[t]
    OBVIOUS
  <2> USE <2>x
  <2>1. /\ pc[t] = "count" /\ pc' = [pc EXCEPT ![t] = "copy"] /\ UNCHANGED monitor
        /\ refs' = [refs EXCEPT ![x] = @ + 1]
    BY <1>8 DEF Count, SharerCount
  <2>2. \A y \in Mons : Pointing(y)' = Pointing(y)
    BY <2>1 DEF Pointing, Living
  <2>3. \A y \in Mons \ {x} : Copying(y)' = Copying(y)
    BY <1>i, <2>1 DEF Copying, TypeInv
  <2>4. t \notin Copying(x) /\ Copying(x)' = Copying(x) \cup {t}
    BY <1>i, <2>1 DEF Copying, TypeInv
  <2>5. Cardinality(Copying(x)') = Cardinality(Copying(x)) + 1
    <3>1. IsFiniteSet(Copying(x))
      BY <1>f
    <3> QED
      BY <2>4, <3>1, FS_AddElement
  <2>6. refs'[x] = refs[x] + 1 /\ \A y \in Mons \ {x} : refs'[y] = refs[y]
    BY <1>i, <2>1 DEF TypeInv
  <2> HIDE DEF Sames
  <2>7. \A y \in Mons : refs'[y] = Cardinality(Pointing(y)') + Cardinality(Copying(y)')
    BY <1>f, <2>x, <2>2, <2>3, <2>5, <2>6
  <2> QED
    BY <2>7 DEF RefsInv
<1>9. CASE Copy(t)
  <2> Sames(t)
    BY <1>9, <1>a
  <2> USE DEF Sames
  <2>x. PICK x \in Mons : x = m[t]
    OBVIOUS
  <2> USE <2>x
  <2>1. /\ pc[t] = "copy" /\ pc' = [pc EXCEPT ![t] = "idle"] /\ UNCHANGED refs
        /\ monitor' = [monitor EXCEPT ![mate[t]] = x]
    BY <1>9 DEF Copy
  <2>2. \A y \in Mons \ {x} : Pointing(y)' = Pointing(y)
    BY <1>i, <1>m, <2>1 DEF Pointing, Living, TypeInv
  <2>3. \A y \in Mons \ {x} : Copying(y)' = Copying(y)
    BY <1>i, <2>1 DEF Copying, TypeInv
  <2>4. t \in Copying(x) /\ Copying(x)' = Copying(x) \ {t}
    BY <1>i, <2>1 DEF Copying, TypeInv
  <2>5. mate[t] \notin Pointing(x) /\ Pointing(x)' = Pointing(x) \cup {mate[t]}
    BY <1>i, <1>m, <2>1 DEF Pointing, Living, TypeInv
  <2>6. /\ Cardinality(Pointing(x)') = Cardinality(Pointing(x)) + 1
        /\ Cardinality(Copying(x)') = Cardinality(Copying(x)) - 1
    <3>1. IsFiniteSet(Pointing(x)) /\ IsFiniteSet(Copying(x))
      BY <1>f
    <3>2. Cardinality(Pointing(x)') = Cardinality(Pointing(x)) + 1
      BY <2>5, <3>1, FS_AddElement
    <3>3. Cardinality(Copying(x)') = Cardinality(Copying(x)) - 1
      BY <2>4, <3>1, FS_RemoveElement
    <3> QED
      BY <3>2, <3>3
  <2> HIDE DEF Sames
  <2>7. \A y \in Mons : refs'[y] = Cardinality(Pointing(y)') + Cardinality(Copying(y)')
    BY <1>f, <2>x, <2>1, <2>2, <2>3, <2>6
  <2> QED
    BY <2>7 DEF RefsInv
<1>10. CASE Free(t)
  <2>1. \A x \in Mons : Pointing(x)' = Pointing(x) /\ Copying(x)' = Copying(x)
    BY <1>10, <1>i DEF Free, Pointing, Copying, Living, TypeInv, OpInv, UseInv
  <2> QED
    BY <1>10, <1>i, <2>1 DEF RefsInv, Free
<1>11. ASSUME NEW h \in Objs, Enter(t, h) PROVE RefsInv'
  <2>1. \A x \in Mons : Pointing(x)' = Pointing(x) /\ Copying(x)' = Copying(x)
    BY <1>11, <1>i DEF Enter, Pointing, Copying, Living, TypeInv
  <2> QED
    BY <1>11, <1>i, <2>1 DEF RefsInv, Enter
<1>12. ASSUME NEW h \in Objs, Delete(t, h) PROVE RefsInv'
  <2> Deletes(t, h)
    BY <1>12, <1>a
  <2> USE DEF Deletes
  <2>x. PICK x \in Mons \cup {null} : x = monitor[h]
    BY <1>i DEF TypeInv
  <2> USE <2>x
  <2>1. \A y \in Mons : Copying(y)' = Copying(y)
    <3>1. pc'[t] \in {"idle", "free"} /\ \A u \in Threads \ {t} : pc'[u] = pc[u] /\ m'[u] = m[u]
      BY <1>i DEF TypeInv
    <3> QED
      BY <3>1 DEF Copying
  <2>2. \A y \in Mons \ {x} : Pointing(y)' = Pointing(y)
    BY DEF Pointing, Living
  <2>3. CASE x = null
    BY <1>f, <1>m, <2>1, <2>2, <2>3 DEF RefsInv
  <2>4. CASE x # null
    <3>1. x \in Mons /\ h \in Pointing(x) /\ Pointing(x)' = Pointing(x) \ {h}
      BY <2>4 DEF Pointing, Living
    <3>2. Cardinality(Pointing(x)') = Cardinality(Pointing(x)) - 1
      <4>1. IsFiniteSet(Pointing(x))
        BY <1>f, <3>1
      <4> QED
        BY <3>1, <4>1, FS_RemoveElement
    <3>3. refs'[x] = refs[x] - 1 /\ \A y \in Mons \ {x} : refs'[y] = refs[y]
      BY <1>i, <2>4 DEF TypeInv
    <3> HIDE DEF Deletes
    <3>4. \A y \in Mons : refs'[y] = Cardinality(Pointing(y)') + Cardinality(Copying(y)')
      <4>1. refs'[x] = Cardinality(Pointing(x)') + Cardinality(Copying(x)')
        BY <1>f, <2>1, <3>1, <3>2, <3>3
      <4>2. \A y \in Mons \ {x} : refs'[y] = Cardinality(Pointing(y)') + Cardinality(Copying(y)')
        BY <1>f, <2>1, <2>2, <3>3
      <4> QED
        BY <4>1, <4>2
    <3> QED
      BY <3>4 DEF RefsInv
  <2> QED
    BY <2>3, <2>4
<1>13. ASSUME NEW h \in Objs, NEW g \in Objs, SetSame(t, g, h) PROVE RefsInv'
  <2>1. \A x \in Mons : Pointing(x)' = Pointing(x) /\ Copying(x)' = Copying(x)
    BY <1>13, <1>i DEF SetSame, Pointing, Copying, Living, TypeInv
  <2> QED
    BY <1>13, <1>i, <2>1 DEF RefsInv, SetSame
<1> QED
  BY <1>1, <1>2, <1>3, <1>4, <1>5, <1>6, <1>7, <1>8, <1>9, <1>10, <1>11, <1>12, <1>13 DEF Step, EnterStep, SameStep

\* A step keeps the depth of every mutex exact.
LEMMA DepthStep ==
    ASSUME IInv, NEW t \in Threads, Step(t)
    PROVE  DepthInv'
<1>a. /\ Lock(t) => Locks(t)
      /\ Exit(t) => Exits(t, monitor[inside[t][Len(inside[t])]])
      /\ Publish(t) => Publishes(t)
      /\ Count(t) \/ Copy(t) => Sames(t)
      /\ \A h \in Objs : Delete(t, h) => Deletes(t, h)
  BY Effects DEF SameStep
<1>i. TypeInv /\ OpInv /\ UseInv /\ HeapInv /\ HoldInv
  BY DEF IInv
<1>f. \A u \in Threads, y \in Mons : IsFiniteSet(Holds(u, y)) /\ Cardinality(Holds(u, y)) \in Nat
  BY <1>i, Finite
<1>m. null \notin Threads \cup Mons
  BY MonitorAssumption
<1>d. \A y \in Mons : /\ owner[y] \in Threads \cup {null} /\ depth[y] \in Nat
                      /\ owner[y] = null => depth[y] = 0
                      /\ owner[y] # null => depth[y] # 0 /\ depth[y] = Cardinality(Holds(owner[y], y))
  BY DEF IInv, DepthInv, TypeInv
<1> USE DEF Goto, AfterEnsure, locals
<1>1. CASE Get(t)
  <2>1. \A u \in Threads, y \in Mons : Holds(u, y)' = Holds(u, y)
    BY <1>1, <1>i DEF Get, Holds
  <2>2. UNCHANGED <<owner, depth>>
    BY <1>1 DEF Get
  <2> QED
    BY <1>d, <2>1, <2>2 DEF DepthInv
<1>2. CASE Alloc(t)
  <2>1. PICK x \in Mons \ heap : owner' = [owner EXCEPT ![x] = null] /\ depth' = [depth EXCEPT ![x] = 0]
    BY <1>2 DEF Alloc
  <2>2. \A u \in Threads, y \in Mons : Holds(u, y)' = Holds(u, y)
    BY <1>2 DEF Alloc, Holds
  <2>3. /\ owner'[x] = null /\ depth'[x] = 0
        /\ \A y \in Mons \ {x} : owner'[y] = owner[y] /\ depth'[y] = depth[y]
    BY <1>i, <2>1 DEF TypeInv
  <2> QED
    BY <1>d, <2>2, <2>3 DEF DepthInv
<1>3. CASE Check(t)
  <2>1. \A u \in Threads, y \in Mons : Holds(u, y)' = Holds(u, y)
    BY <1>3, <1>i DEF Check, Holds
  <2>2. UNCHANGED <<owner, depth>>
    BY <1>3 DEF Check
  <2> QED
    BY <1>d, <2>1, <2>2 DEF DepthInv
<1>4. CASE Publish(t)
  <2> Publishes(t)
    BY <1>4, <1>a
  <2> USE DEF Publishes
  <2>1. \A u \in Threads, y \in Mons : Holds(u, y)' = Holds(u, y)
    BY <1>i DEF Holds, HoldInv, TypeInv, Living
  <2> QED
    BY <1>d, <2>1 DEF DepthInv
<1>5. CASE Lose(t)
  <2>1. \A u \in Threads, y \in Mons : Holds(u, y)' = Holds(u, y)
    BY <1>5, <1>i DEF Lose, Holds
  <2>2. UNCHANGED <<owner, depth>>
    BY <1>5 DEF Lose
  <2> QED
    BY <1>d, <2>1, <2>2 DEF DepthInv
<1>6. CASE Lock(t)
  <2> Locks(t)
    BY <1>6, <1>a
  <2> USE DEF Locks
  <2>x. PICK x \in Mons : x = m[t]
    OBVIOUS
  <2> DEFINE n == Len(inside[t]) + 1
  <2>1. inside[t] \in Seq(Objs) /\ obj[t] \in Objs
    BY <1>i DEF TypeInv
  <2>2. /\ DOMAIN inside'[t] = DOMAIN inside[t] \cup {n} /\ n \notin DOMAIN inside[t]
        /\ \A i \in DOMAIN inside[t] : inside'[t][i] = inside[t][i]
        /\ inside'[t][n] = obj[t]
    BY <1>i, <2>1, Push DEF TypeInv
  <2>3. \A u \in Threads \ {t}, y \in Mons : Holds(u, y)' = Holds(u, y)
    BY <1>i DEF Holds, TypeInv
  <2>k. n = Len(inside[t]) + 1 /\ UNCHANGED monitor
    OBVIOUS
  <2> HIDE DEF n
  <2>4. \A y \in Mons \ {x} : Holds(t, y)' = Holds(t, y)
    BY <2>2, <2>x, <2>k DEF Holds
  <2>5. n \notin Holds(t, x) /\ Holds(t, x)' = Holds(t, x) \cup {n}
    BY <2>2, <2>x, <2>k DEF Holds
  <2>6. Cardinality(Holds(t, x)') = Cardinality(Holds(t, x)) + 1
    <3>1. IsFiniteSet(Holds(t, x))
      BY <1>f
    <3> QED
      BY <2>5, <3>1, FS_AddElement
  <2>7. owner[x] = null => Cardinality(Holds(t, x)) = 0
    <3>1. owner[x] = null => Holds(t, x) = {}
      BY <1>i, <1>m DEF Holds, HoldInv
    <3> QED
      BY <3>1, FS_EmptySet
  <2>8. /\ owner[x] \in {null, t} /\ owner'[x] = t /\ depth'[x] = depth[x] + 1
        /\ \A y \in Mons \ {x} : owner'[y] = owner[y] /\ depth'[y] = depth[y]
    BY <1>i, <2>x DEF TypeInv
  <2> HIDE DEF Locks
  <2>q. ASSUME NEW y \in Mons
        PROVE  /\ owner'[y] = null => depth'[y] = 0
               /\ owner'[y] # null => depth'[y] # 0 /\ depth'[y] = Cardinality(Holds(owner[y], y)')
    <3>1. CASE y = x
      BY <1>d, <1>f, <1>m, <3>1, <2>6, <2>7, <2>8
    <3>2. CASE y # x
      BY <1>d, <3>2, <2>3, <2>4, <2>8
    <3> QED
      BY <3>1, <3>2
  <2> QED
    BY <2>q DEF DepthInv
<1>7. CASE Exit(t)
  <2>x. PICK x : x = monitor[inside[t][Len(inside[t])]]
    OBVIOUS
  <2>0. Exits(t, x)
    BY <1>7, <1>a, <2>x
  <2> USE <2>0 DEF Exits
  <2> DEFINE n == Len(inside[t])
  <2>1. /\ DOMAIN inside'[t] = DOMAIN inside[t] \ {n} /\ n \in DOMAIN inside[t]
        /\ \A i \in DOMAIN inside'[t] : inside'[t][i] = inside[t][i]
    BY <1>i, Pop DEF TypeInv
  <2>2. \A u \in Threads \ {t}, y \in Mons : Holds(u, y)' = Holds(u, y)
    BY <1>i DEF Holds, TypeInv
  <2>k. monitor[inside[t][n]] = x /\ UNCHANGED monitor
    BY <2>x
  <2> HIDE DEF n
  <2>3. \A y \in Mons \ {x} : Holds(t, y)' = Holds(t, y)
    BY <2>1, <2>k DEF Holds
  <2>4. n \in Holds(t, x) /\ Holds(t, x)' = Holds(t, x) \ {n}
    BY <2>1, <2>k DEF Holds
  <2>5. Cardinality(Holds(t, x)') = Cardinality(Holds(t, x)) - 1
    <3>1. IsFiniteSet(Holds(t, x))
      BY <1>f
    <3> QED
      BY <2>4, <3>1, FS_RemoveElement
  <2>6. /\ x \in Mons /\ owner[x] = t /\ owner'[x] = (IF depth[x] = 1 THEN null ELSE t)
        /\ depth'[x] = depth[x] - 1
        /\ \A y \in Mons \ {x} : owner'[y] = owner[y] /\ depth'[y] = depth[y]
    BY <1>i DEF TypeInv
  <2> HIDE <2>0 DEF Exits
  <2>q. ASSUME NEW y \in Mons
        PROVE  /\ owner'[y] = null => depth'[y] = 0
               /\ owner'[y] # null => depth'[y] # 0 /\ depth'[y] = Cardinality(Holds(owner[y], y)')
    <3>1. CASE y = x
      BY <1>d, <1>f, <1>m, <3>1, <2>5, <2>6
    <3>2. CASE y # x
      BY <1>d, <3>2, <2>2, <2>3, <2>6
    <3> QED
      BY <3>1, <3>2
  <2> QED
    BY <2>q DEF DepthInv
<1>8. CASE Count(t)
  <2>1. \A u \in Threads, y \in Mons : Holds(u, y)' = Holds(u, y)
    BY <1>8, <1>i DEF Count, Holds
  <2>2. UNCHANGED <<owner, depth>>
    BY <1>8 DEF Count
  <2> QED
    BY <1>d, <2>1, <2>2 DEF DepthInv
<1>9. CASE Copy(t)
  <2> Sames(t)
    BY <1>9, <1>a
  <2> USE DEF Sames
  <2>1. \A u \in Threads, y \in Mons : Holds(u, y)' = Holds(u, y)
    BY <1>9, <1>i DEF Copy, Holds, HoldInv, TypeInv, Living
  <2> QED
    BY <1>d, <2>1 DEF DepthInv
<1>10. CASE Free(t)
  <2>1. \A u \in Threads, y \in Mons : Holds(u, y)' = Holds(u, y)
    BY <1>10, <1>i DEF Free, Holds, TypeInv, OpInv, UseInv, HoldInv, Living
  <2>2. UNCHANGED <<owner, depth>>
    BY <1>10 DEF Free
  <2> QED
    BY <1>d, <2>1, <2>2 DEF DepthInv
<1>11. ASSUME NEW h \in Objs, Enter(t, h) PROVE DepthInv'
  <2>1. \A u \in Threads, y \in Mons : Holds(u, y)' = Holds(u, y)
    BY <1>11, <1>i DEF Enter, Holds
  <2>2. UNCHANGED <<owner, depth>>
    BY <1>11 DEF Enter
  <2> QED
    BY <1>d, <2>1, <2>2 DEF DepthInv
<1>12. ASSUME NEW h \in Objs, Delete(t, h) PROVE DepthInv'
  <2> Deletes(t, h)
    BY <1>12, <1>a
  <2> USE DEF Deletes
  <2>1. \A u \in Threads, y \in Mons : Holds(u, y)' = Holds(u, y)
    BY <1>i DEF Holds
  <2> QED
    BY <1>d, <2>1 DEF DepthInv
<1>13. ASSUME NEW h \in Objs, NEW g \in Objs, SetSame(t, g, h) PROVE DepthInv'
  <2>1. \A u \in Threads, y \in Mons : Holds(u, y)' = Holds(u, y)
    BY <1>13, <1>i DEF SetSame, Holds
  <2>2. UNCHANGED <<owner, depth>>
    BY <1>13 DEF SetSame
  <2> QED
    BY <1>d, <2>1, <2>2 DEF DepthInv
<1> QED
  BY <1>1, <1>2, <1>3, <1>4, <1>5, <1>6, <1>7, <1>8, <1>9, <1>10, <1>11, <1>12, <1>13 DEF Step, EnterStep, SameStep

\* No step is a fault.
LEMMA FaultStep ==
    ASSUME IInv, NEW t \in Threads, Step(t)
    PROVE  fault' = fault
<1>a. /\ Lock(t) => Locks(t)
      /\ Exit(t) => Exits(t, monitor[inside[t][Len(inside[t])]])
      /\ Publish(t) => Publishes(t)
      /\ Count(t) \/ Copy(t) => Sames(t)
      /\ \A h \in Objs : Delete(t, h) => Deletes(t, h)
  BY Effects DEF SameStep
<1> USE DEF Goto, AfterEnsure, locals
<1>1. CASE Get(t)
  BY <1>1 DEF Get
<1>2. CASE Alloc(t)
  BY <1>2 DEF Alloc
<1>3. CASE Check(t)
  BY <1>3 DEF Check
<1>4. CASE Publish(t)
  BY <1>4 DEF Publish
<1>5. CASE Lose(t)
  BY <1>5 DEF Lose
<1>6. CASE Lock(t)
  <2> Locks(t)
    BY <1>6, <1>a
  <2> USE DEF Locks
  <2> QED
    OBVIOUS
<1>7. CASE Exit(t)
  <2> DEFINE x == monitor[inside[t][Len(inside[t])]]
  <2>0. Exits(t, x)
    BY <1>7, <1>a
  <2> HIDE DEF x
  <2> USE <2>0 DEF Exits
  <2> QED
    OBVIOUS
<1>8. CASE Count(t)
  BY <1>8 DEF Count
<1>9. CASE Copy(t)
  BY <1>9 DEF Copy
<1>10. CASE Free(t)
  BY <1>10 DEF Free
<1>11. ASSUME NEW h \in Objs, Enter(t, h) PROVE fault' = fault
  BY <1>11 DEF Enter
<1>12. ASSUME NEW h \in Objs, Delete(t, h) PROVE fault' = fault
  BY <1>12 DEF Delete
<1>13. ASSUME NEW h \in Objs, NEW g \in Objs, SetSame(t, g, h) PROVE fault' = fault
  BY <1>13 DEF SetSame
<1> QED
  BY <1>1, <1>2, <1>3, <1>4, <1>5, <1>6, <1>7, <1>8, <1>9, <1>10, <1>11, <1>12, <1>13 DEF Step, EnterStep, SameStep

-----------------------------------------------------------------------------
(* The invariant holds, and what follows from it *)

\* In the initial state nothing is allocated, held or shared.
LEMMA InitInv == Init => IInv
<1> SUFFICES ASSUME Init PROVE IInv
  OBVIOUS
<1> USE DEF Init
<1>1. (CHOOSE h \in Objs : TRUE) \in Objs
  BY MonitorAssumption
<1>2. /\ \A x \in Mons : monitor \in [Objs -> {null}] /\ Pointing(x) = {} /\ Copying(x) = {}
      /\ \A t \in Threads : inside[t] = <<>> /\ DOMAIN inside[t] = {} /\ Len(inside[t]) = 0
  BY MonitorAssumption DEF Pointing, Copying, Living
<1>3. TypeInv
  BY <1>1 DEF TypeInv, Locs
<1>4. OpInv /\ UseInv /\ PtrInv
  BY <1>2, MonitorAssumption DEF OpInv, UseInv, PtrInv, Private
<1>5. HeapInv /\ LeakInv
  BY DEF HeapInv, LeakInv, Private, Living
<1>6. RefsInv
  <2>1. Cardinality({}) = 0
    BY FS_EmptySet
  <2>2. ASSUME NEW x \in Mons PROVE Cardinality(Pointing(x)) = 0 /\ Cardinality(Copying(x)) = 0
    BY <1>2, <2>1
  <2>3. \A x \in Mons : refs[x] = 0
    OBVIOUS
  <2> HIDE DEF Init
  <2> QED
    BY <2>2, <2>3 DEF RefsInv
<1>7. HoldInv /\ DepthInv /\ ShareInv /\ fault = FALSE
  BY <1>2 DEF HoldInv, DepthInv, ShareInv
<1> QED
  BY <1>3, <1>4, <1>5, <1>6, <1>7 DEF IInv

\* Every step preserves the invariant.
LEMMA NextInv == IInv /\ [Next]_vars => IInv'
<1> SUFFICES ASSUME IInv, [Next]_vars PROVE IInv'
  OBVIOUS
<1>1. ASSUME NEW t \in Threads, Step(t) PROVE IInv'
  <2>1. TypeInv' /\ OpInv' /\ UseInv' /\ PtrInv'
    BY <1>1, TypeStep, OpStep, UseStep, PtrStep
  <2>2. HeapInv' /\ LeakInv' /\ RefsInv'
    BY <1>1, HeapStep, LeakStep, RefsStep
  <2>3. HoldInv' /\ DepthInv' /\ ShareInv'
    BY <1>1, HoldStep, DepthStep, ShareStep
  <2>4. fault' = FALSE
    BY <1>1, FaultStep DEF IInv
  <2> QED
    BY <2>1, <2>2, <2>3, <2>4 DEF IInv
<1>2. CASE UNCHANGED vars
  <2>1. /\ UNCHANGED <<monitor, heap, refs, owner, depth, gmtx, pc, op, obj, mate, m, won>>
        /\ UNCHANGED <<inside, dead, shares, fault>>
    BY <1>2 DEF vars, locals
  <2>2. TypeInv' /\ OpInv' /\ UseInv' /\ PtrInv'
    BY <2>1 DEF IInv, TypeInv, OpInv, UseInv, PtrInv, Private, Living
  <2>3. HeapInv' /\ LeakInv' /\ RefsInv'
    BY <2>1 DEF IInv, HeapInv, LeakInv, RefsInv, Pointing, Copying, Private, Living
  <2>4. HoldInv' /\ DepthInv' /\ ShareInv' /\ fault' = FALSE
    BY <2>1 DEF IInv, HoldInv, DepthInv, ShareInv, Holds, Living
  <2> QED
    BY <2>2, <2>3, <2>4 DEF IInv
<1>3. ASSUME Next PROVE UNCHANGED vars \/ \E t \in Threads : Step(t)
  BY <1>3 DEF Next, Terminated, Step
<1> QED
  BY <1>1, <1>2, <1>3

\* IInv is an invariant of the specification.
LEMMA Invariance == Spec => []IInv
<1> QED
  BY InitInv, NextInv, PTL DEF Spec

\* A monitor is counted at most once for every object: a thread about to make its ownee
\* share counts for the ownee, which points to nothing yet.
LEMMA RefsBounded ==
    ASSUME IInv, NEW x \in Mons
    PROVE  refs[x] \in 0 .. Cardinality(Objs)
<1> DEFINE f == [t \in Copying(x) |-> mate[t]]
           R == Objs \ Pointing(x)
<1>1. Pointing(x) \subseteq Objs /\ IsFiniteSet(R) /\ IsFiniteSet(Objs)
  <2>1. Pointing(x) \subseteq Objs /\ R \in SUBSET Objs
    BY DEF Pointing, Living
  <2> QED
    BY <2>1, MonitorAssumption, FS_Subset
<1>2. \A t \in Copying(x) : mate[t] \in R
  BY MonitorAssumption DEF IInv, TypeInv, OpInv, UseInv, Copying, Pointing
<1>3. \A t, u \in Copying(x) : t # u => mate[t] # mate[u]
  BY DEF IInv, OpInv, UseInv, Copying
<1>4. f \in Injection(Copying(x), R)
  BY <1>2, <1>3 DEF Injection, IsInjective
<1>5. Cardinality(Copying(x)) <= Cardinality(R)
  BY <1>1, <1>4, FS_Injection
<1>6. Cardinality(Objs) = Cardinality(Pointing(x)) + Cardinality(R)
  <2>1. Pointing(x) \cup R = Objs /\ Pointing(x) \cap R = {}
    BY <1>1
  <2>2. Cardinality(Pointing(x) \cap R) = 0
    BY <2>1, FS_EmptySet
  <2>3. IsFiniteSet(Pointing(x))
    BY Finite DEF IInv
  <2>4. Cardinality(Pointing(x) \cup R)
           = Cardinality(Pointing(x)) + Cardinality(R) - Cardinality(Pointing(x) \cap R)
    BY <1>1, <2>3, FS_Union
  <2>5. Cardinality(Pointing(x)) \in Nat /\ Cardinality(R) \in Nat
    BY <1>1, <2>3, FS_CardinalityType
  <2>6. Cardinality(Pointing(x) \cup R) = Cardinality(Objs)
    BY <2>1
  <2> HIDE DEF R
  <2> QED
    BY <2>2, <2>4, <2>5, <2>6
<1>7. /\ Cardinality(Pointing(x)) \in Nat /\ Cardinality(Copying(x)) \in Nat
      /\ Cardinality(R) \in Nat
  BY <1>1, Finite, FS_CardinalityType DEF IInv
<1>8. refs[x] = Cardinality(Pointing(x)) + Cardinality(Copying(x))
  BY DEF IInv, RefsInv
<1> HIDE DEF R
<1> QED
  BY <1>5, <1>6, <1>7, <1>8

\* A mutex is held at most as often as its owner is in synchronized statements.
LEMMA DepthBounded ==
    ASSUME IInv, NEW x \in Mons
    PROVE  depth[x] \in 0 .. MaxNest
<1>1. CASE owner[x] = null
  BY <1>1, MonitorAssumption DEF IInv, DepthInv
<1>2. CASE owner[x] # null
  <2> DEFINE t == owner[x]
             n == Len(inside[t])
  <2>1. t \in Threads /\ n \in Nat /\ n <= MaxNest /\ DOMAIN inside[t] = 1 .. n
    BY <1>2 DEF IInv, TypeInv, OpInv
  <2>2. Holds(t, x) \in SUBSET (1 .. n)
    BY <2>1 DEF Holds
  <2>3. IsFiniteSet(1 .. n) /\ Cardinality(1 .. n) = n
    BY <2>1, FS_Interval
  <2>4. Cardinality(Holds(t, x)) <= n /\ Cardinality(Holds(t, x)) \in Nat
    BY <2>2, <2>3, FS_Subset, FS_CardinalityType
  <2>5. depth[x] = Cardinality(Holds(t, x))
    BY <1>2 DEF IInv, DepthInv
  <2> HIDE DEF t, n
  <2> QED
    BY <2>1, <2>4, <2>5, MonitorAssumption
<1> QED
  BY <1>1, <1>2

\* Pointers point to monitors, no count exceeds the number of objects and no depth the
\* nesting of synchronized statements.
THEOREM TypeCorrect == Spec => []TypeOK
<1>1. ASSUME IInv PROVE TypeOK
  <2>1. refs \in [Mons -> 0 .. Cardinality(Objs)]
    BY <1>1, RefsBounded DEF IInv, TypeInv
  <2>2. depth \in [Mons -> 0 .. MaxNest]
    BY <1>1, DepthBounded DEF IInv, TypeInv
  <2>3. \A t \in Threads : inside[t] \in Seq(Objs) /\ Len(inside[t]) <= MaxNest
    BY <1>1 DEF IInv, TypeInv, OpInv
  <2>4. fault \in BOOLEAN
    BY <1>1 DEF IInv
  <2> QED
    BY <1>1, <2>1, <2>2, <2>3, <2>4 DEF IInv, TypeInv, TypeOK
<1> QED
  BY <1>1, Invariance, PTL

\* Two threads are never in synchronized statements of one object, nor of two objects
\* made to share a mutex: the monitor both would need has one owner.
THEOREM Exclusion == Spec => []MutualExclusion
<1>1. ASSUME IInv PROVE MutualExclusion
  <2> SUFFICES ASSUME NEW t \in Threads, NEW u \in Threads, t # u,
                      NEW i \in DOMAIN inside[t], NEW j \in DOMAIN inside[u]
               PROVE  inside[t][i] # inside[u][j] /\ <<inside[t][i], inside[u][j]>> \notin shares
    BY DEF MutualExclusion, Entered
  <2>1. /\ inside[t][i] \in Living /\ owner[monitor[inside[t][i]]] = t
        /\ inside[u][j] \in Living /\ owner[monitor[inside[u][j]]] = u
    BY <1>1 DEF IInv, HoldInv
  <2> QED
    BY <1>1, <2>1 DEF IInv, ShareInv
<1> QED
  BY <1>1, Invariance, PTL

\* No freed monitor is locked or unlocked and no mutex is unlocked by a thread that does
\* not hold it, although _d_monitorexit fetches the monitor again.
THEOREM NoFaults == Spec => []NoFault
<1>1. IInv => NoFault
  BY DEF IInv, NoFault
<1> QED
  BY <1>1, Invariance, PTL

\* The reference count of a monitor in use is the number of living objects that point to
\* it and of ownees about to.
THEOREM RefsStayExact == Spec => []RefsExact
<1>1. ASSUME IInv PROVE RefsExact
  <2> SUFFICES ASSUME NEW h \in Living, monitor[h] # null
               PROVE  refs[monitor[h]] = Cardinality(Pointing(monitor[h])) + Cardinality(Copying(monitor[h]))
    BY DEF RefsExact, Pointing, Copying, Living
  <2>1. monitor[h] \in Mons
    BY <1>1 DEF IInv, TypeInv, Living
  <2> QED
    BY <1>1, <2>1 DEF IInv, RefsInv
<1> QED
  BY <1>1, Invariance, PTL

\* The heap holds the monitors of living objects and those still private to a thread, and
\* no others: none is freed too early and none is leaked.
THEOREM HeapStaysExact == Spec => []HeapExact
<1>1. ASSUME IInv PROVE HeapExact
  <2> DEFINE H == ({monitor[h] : h \in Objs \ dead} \ {null})
                  \cup {m[t] : t \in {u \in Threads : pc[u] \in {"check", "publish", "lose", "free"}}}
  <2>1. heap \subseteq H
    <3>1. ASSUME NEW x \in heap PROVE x \in H
      <4>1. x # null
        BY <1>1, MonitorAssumption DEF IInv, TypeInv
      <4>2. CASE \E h \in Living : monitor[h] = x
        BY <4>1, <4>2 DEF Living
      <4>3. CASE \E t \in Threads : Private(t) /\ m[t] = x
        BY <4>3 DEF Private
      <4> QED
        BY <1>1, <4>2, <4>3 DEF IInv, LeakInv
    <3> QED
      BY <3>1
  <2>2. H \subseteq heap
    BY <1>1 DEF IInv, HeapInv, Living, Private
  <2> QED
    BY <2>1, <2>2 DEF HeapExact
<1> QED
  BY <1>1, Invariance, PTL
=============================================================================
