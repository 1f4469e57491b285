----------------------- MODULE LowLevelThreadsProofs -----------------------
(***************************************************************************)
(* Theorems about low-level threads, for any sets of tasks and joiners,    *)
(* any width of the subscriber count, with or without failing creates.     *)
(*                                                                         *)
(* The inductive invariant follows a joiner's pointer: as long as nothing  *)
(* made it stale it points to the slot of the joiner's target, so that the *)
(* event it waits for is the one that the target sets.                     *)
(***************************************************************************)
EXTENDS LowLevelThreads, FiniteSetTheorems, WellFoundedInduction, TLAPS

\* Created and not yet removed.
Running == {t \in Tasks : pc[t] \in {"dg", "spin", "remove"}}

\* At work with a pointer into the array.
Working(j) == pc[j] \in {"locked", "wait", "unlock"}

\* Types.
TypeInv ==
    /\ mem \in Seq(Slot) /\ block \in Nat /\ evSet \subseteq Tasks
    /\ pc \in [Tasks \cup Joiners -> TaskLocs \cup JoinLocs]
    /\ \A t \in Tasks : pc[t] \in TaskLocs
    /\ \A j \in Joiners : pc[j] \in JoinLocs
    /\ td \in [Tasks -> Pointer] /\ ptr \in [Joiners -> Pointer]
    /\ target \in [Joiners -> Tasks \cup {null}] /\ waitOn \in [Joiners -> Tasks \cup {null}]
    /\ moved \subseteq Tasks \cup Joiners /\ failed \in BOOLEAN

\* At most the failed create is counted without having a slot.
CountInv ==
    ll_nThreads \in Nat /\ ll_nThreads <= Len(mem) + 1 /\ (~failed => ll_nThreads <= Len(mem))

\* A slot's event is that of its task, in stale copies beyond the last slot too.
SlotInv == \A i \in 1 .. Len(mem) : mem[i].ev = mem[i].tid

\* A running task has a slot, whatever fails.
LiveInv == \A t \in Running : \E i \in 1 .. Last : mem[i].tid = t

\* As long as no create failed, a slot belongs to one running task.
OnceInv == ~failed =>
    \A i \in 1 .. Last :
        /\ mem[i].tid \in Running
        /\ \A k \in 1 .. Last : mem[k].tid = mem[i].tid => k = i

\* An event is set only by its task, after the delegate has returned.
EvInv == \A t \in evSet : pc[t] \notin {"none", "dg"}

\* The pointer of an undisturbed joiner is to its target's slot.
JoinInv == \A j \in Joiners \ moved :
    /\ Working(j) => /\ ptr[j].block = block /\ ptr[j].idx <= Last
                     /\ mem[ptr[j].idx].tid = target[j]
    /\ pc[j] = "wait" => waitOn[j] = target[j]
    /\ pc[j] = "unlock" => target[j] \in evSet
    /\ pc[j] = "done" => target[j] \in Tasks /\ pc[target[j]] \notin {"none", "dg"}

\* The inductive invariant.
IInv == TypeInv /\ CountInv /\ SlotInv /\ LiveInv /\ OnceInv /\ EvInv /\ JoinInv

-----------------------------------------------------------------------------
(* Facts about the operators of the model *)

\* A non-empty set of natural numbers has a least element.
LEMMA Least ==
    ASSUME NEW S, S \subseteq Nat, S # {}
    PROVE  \E i \in S : \A k \in S : i <= k
<1> DEFINE R == OpToRel(<, Nat)
<1>1. IsWellFoundedOn(R, Nat)
  BY NatLessThanWellFounded, Zenon
<1>2. \A i, k \in Nat : i < k => <<i, k>> \in R
  BY DEF OpToRel
<1> HIDE DEF R
<1>3. PICK i \in S : \A k \in S : <<k, i>> \notin R
  BY <1>1, WFMin
<1>4. ASSUME NEW k \in S PROVE i <= k
  <2>1. i \in Nat /\ k \in Nat /\ <<k, i>> \notin R
    BY <1>3
  <2>2. ~(k < i)
    BY <1>2, <2>1
  <2> QED
    BY <2>1, <2>2
<1> QED
  BY <1>4

\* The last slot in use is in the array.
LEMMA LastFacts ==
    ASSUME TypeInv, CountInv
    PROVE  /\ Last \in Nat /\ Len(mem) \in Nat /\ Last <= Len(mem) /\ Last <= ll_nThreads
           /\ ~failed => Last = ll_nThreads
<1>1. Len(mem) \in Nat
  BY DEF TypeInv
<1> QED
  BY <1>1 DEF CountInv, Last, Past

\* It changes only with the array or the count.
LEMMA LastSame ==
    ASSUME UNCHANGED <<mem, ll_nThreads>>
    PROVE  Last' = Last
  BY DEF Last, Past

\* getLLThreadNotThreadSafe finds a slot of the task if there is one.
LEMMA Found ==
    ASSUME TypeInv, CountInv, NEW t \in Tasks
    PROVE  /\ Find(t) \in 0 .. Last
           /\ Find(t) # 0 => Find(t) \in 1 .. Len(mem) /\ mem[Find(t)].tid = t
           /\ Find(t) = 0 => \A i \in 1 .. Last : mem[i].tid # t
<1> DEFINE hits == {i \in 1 .. Last : mem[i].tid = t}
<1>1. Last \in Nat /\ Len(mem) \in Nat /\ Last <= Len(mem)
  BY LastFacts
<1>2. CASE hits = {}
  BY <1>1, <1>2 DEF Find
<1>3. CASE hits # {}
  <2>1. hits \subseteq Nat
    BY <1>1
  <2>2. \E i \in hits : \A k \in hits : i <= k
    <3> HIDE DEF hits
    <3> QED
      BY <1>3, <2>1, Least
  <2>3. Find(t) = CHOOSE i \in hits : \A k \in hits : i <= k
    BY <1>3 DEF Find
  <2>4. Find(t) \in hits
    <3> HIDE DEF hits
    <3> QED
      BY <2>2, <2>3
  <2> QED
    BY <1>1, <2>4
<1> QED
  BY <1>2, <1>3

\* Counting subscribers touches neither the tids nor the events.
Keeps ==
    /\ mem' \in Seq(Slot) /\ Len(mem') = Len(mem)
    /\ \A i \in 1 .. Len(mem) : mem'[i].tid = mem[i].tid /\ mem'[i].ev = mem[i].ev

\* AddSubs, with which a join subscribes and unsubscribes, does only that.
LEMMA AddSubsKeeps ==
    ASSUME TypeInv, NEW i \in 1 .. Len(mem), NEW d \in Int, AddSubs(i, d)
    PROVE  Keeps
<1>1. mem \in Seq(Slot) /\ mem[i] \in Slot
  BY DEF TypeInv
<1>2. (mem[i].subs + d) % SizeMod \in 0 .. SizeMod - 1
  BY <1>1, SizeAssumption DEF Slot
<1>3. [mem[i] EXCEPT !.subs = (mem[i].subs + d) % SizeMod] \in Slot
  BY <1>1, <1>2 DEF Slot
<1> DEFINE r == [mem[i] EXCEPT !.subs = (mem[i].subs + d) % SizeMod]
<1>4. r.tid = mem[i].tid /\ r.ev = mem[i].ev
  BY <1>1 DEF Slot
<1>5. mem' = [mem EXCEPT ![i] = r]
  BY DEF AddSubs
<1> HIDE DEF r
<1> QED
  BY <1>1, <1>3, <1>4, <1>5 DEF Keeps, r

\* A function on 1 .. n is a sequence.
LEMMA IsSeq ==
    ASSUME NEW S, NEW n \in Nat, NEW f \in [1 .. n -> S]
    PROVE  f \in Seq(S) /\ Len(f) = n
  OBVIOUS

\* Leftover memory is no running task's slot, but looks like one.
LEMMA LeftoverSlot ==
    ASSUME NEW g \in Leftover
    PROVE  g \in Slot /\ g.ev = g.tid
<1>1. 0 \in 0 .. SizeMod - 1
  BY SizeAssumption
<1>2. CASE g = Garbage
  BY <1>1, <1>2 DEF Garbage, Slot
<1>3. CASE \E u \in Tasks : g = [tid |-> u, ev |-> u, subs |-> 0]
  BY <1>1, <1>3 DEF Slot
<1> QED
  BY <1>2, <1>3 DEF Leftover

\* realloc keeps the slots that are in use.
LEMMA ReallocKeeps ==
    ASSUME IInv, NEW n \in Nat, NEW g \in Leftover
    PROVE  /\ Realloc(n, g) \in Seq(Slot) /\ Len(Realloc(n, g)) = n
           /\ \A i \in 1 .. n : i <= Len(mem) => Realloc(n, g)[i] = mem[i]
           /\ \A i \in 1 .. n : Realloc(n, g)[i].ev = Realloc(n, g)[i].tid
<1>1. mem \in Seq(Slot) /\ Len(mem) \in Nat
  BY DEF IInv, TypeInv
<1>2. g \in Slot /\ g.ev = g.tid
  BY LeftoverSlot
<1>3. ASSUME NEW i \in 1 .. n
      PROVE  /\ Realloc(n, g)[i] = IF i <= Len(mem) THEN mem[i] ELSE g
             /\ Realloc(n, g)[i] \in Slot /\ Realloc(n, g)[i].ev = Realloc(n, g)[i].tid
  BY <1>1, <1>2 DEF Realloc, IInv, SlotInv
<1>4. DOMAIN Realloc(n, g) = 1 .. n /\ Realloc(n, g) = [i \in 1 .. n |-> Realloc(n, g)[i]]
  BY DEF Realloc
<1>5. Realloc(n, g) \in [1 .. n -> Slot]
  BY <1>3, <1>4
<1>6. Realloc(n, g) \in Seq(Slot) /\ Len(Realloc(n, g)) = n
  BY <1>5
<1> QED
  BY <1>3, <1>6

\* A create, also one that fails, keeps the slots there are.
Grows ==
    /\ mem' \in Seq(Slot) /\ CountInv'
    /\ Last' \in Nat /\ Last <= Last' /\ Last' <= Len(mem')
    /\ \A i \in 1 .. Last : mem'[i] = mem[i]
    /\ \A i \in 1 .. Len(mem') : mem'[i].ev = mem'[i].tid

\* Allocating n slots and writing the new one.
LEMMA WriteGrows ==
    ASSUME IInv, NEW g \in Leftover, NEW s \in Slot, s.ev = s.tid, failed' \in BOOLEAN,
           ll_nThreads' = ll_nThreads + 1, mem' = [Realloc(ll_nThreads + 1, g) EXCEPT ![ll_nThreads + 1] = s]
    PROVE  Grows /\ Last' = ll_nThreads + 1 /\ mem'[Last'] = s
<1> DEFINE n == ll_nThreads + 1
           r == Realloc(n, g)
<1>1. /\ ll_nThreads \in Nat /\ n \in Nat /\ n = ll_nThreads + 1 /\ Len(mem) \in Nat
      /\ Last \in Nat /\ Last <= Len(mem) /\ Last <= ll_nThreads
  BY LastFacts DEF IInv, CountInv
<1>2. /\ r \in Seq(Slot) /\ Len(r) = n
      /\ \A i \in 1 .. n : i <= Len(mem) => r[i] = mem[i]
      /\ \A i \in 1 .. n : r[i].ev = r[i].tid
  BY <1>1, ReallocKeeps
<1>3. mem' = [r EXCEPT ![n] = s] /\ ll_nThreads' = n
  OBVIOUS
<1> HIDE DEF r, n
<1>4. mem' \in Seq(Slot) /\ Len(mem') = n /\ mem'[n] = s /\ \A i \in 1 .. n : i # n => mem'[i] = r[i]
  <2>1. n \in 1 .. n /\ r \in [1 .. n -> Slot]
    BY <1>1, <1>2
  <2>2. mem' \in [1 .. n -> Slot] /\ mem'[n] = s /\ \A i \in 1 .. n : i # n => mem'[i] = r[i]
    BY <1>3, <2>1
  <2>3. mem' \in Seq(Slot) /\ Len(mem') = n
    BY <1>1, <2>2, IsSeq
  <2> QED
    BY <2>2, <2>3
<1>5. Last' = n /\ CountInv'
  BY <1>1, <1>3, <1>4 DEF Last, Past, CountInv
<1>6. \A i \in 1 .. Last : i \in 1 .. n /\ i # n /\ i <= Len(mem)
  BY <1>1
<1> QED
  BY <1>1, <1>2, <1>3, <1>4, <1>5, <1>6 DEF Grows

\* createLowLevelThread appends the slot of its task.
LEMMA CreateGrows ==
    ASSUME IInv, NEW t \in Tasks, Create(t)
    PROVE  Grows /\ Last < Last' /\ mem'[Last'].tid = t /\ (~failed => Last' = Last + 1)
<1> DEFINE s == [tid |-> t, ev |-> t, subs |-> 0]
<1>1. s \in Slot /\ s.ev = s.tid /\ s.tid = t
  BY SizeAssumption DEF Slot
<1>2. PICK g \in Leftover : mem' = [Realloc(ll_nThreads + 1, g) EXCEPT ![ll_nThreads + 1] = s]
  BY DEF Create
<1>3. ll_nThreads' = ll_nThreads + 1 /\ failed' \in BOOLEAN
  BY DEF Create, IInv, TypeInv
<1> HIDE DEF s
<1>4. Grows /\ Last' = ll_nThreads + 1 /\ mem'[Last'] = s
  BY <1>1, <1>2, <1>3, WriteGrows
<1>5. ll_nThreads \in Nat /\ Last \in Nat /\ Last <= ll_nThreads /\ (~failed => Last = ll_nThreads)
  BY LastFacts DEF IInv, CountInv
<1> QED
  BY <1>1, <1>4, <1>5

\* A create that fails leaves a slot behind that is no running task's, or none.
LEMMA FailGrows ==
    ASSUME IInv, CreateFails
    PROVE  Grows
<1> DEFINE n == ll_nThreads + 1
<1>1. /\ ll_nThreads \in Nat /\ n \in Nat /\ Len(mem) \in Nat /\ ll_nThreads <= Len(mem)
      /\ Last = ll_nThreads /\ ll_nThreads' = n /\ failed'
  BY LastFacts DEF IInv, CountInv, CreateFails
<1>2. CASE mem' = mem
  <2>1. Last' \in Nat /\ Last <= Last' /\ Last' <= Len(mem') /\ CountInv'
    BY <1>1, <1>2 DEF Last, Past, CountInv
  <2> QED
    BY <1>2, <2>1 DEF Grows, IInv, TypeInv, SlotInv
<1>3. CASE \E g \in Leftover : mem' = Realloc(n, g)
  <2>1. PICK g \in Leftover : mem' = Realloc(n, g)
    BY <1>3
  <2>2. /\ mem' \in Seq(Slot) /\ Len(mem') = n
        /\ \A i \in 1 .. n : i <= Len(mem) => mem'[i] = mem[i]
        /\ \A i \in 1 .. n : mem'[i].ev = mem'[i].tid
    BY <1>1, <2>1, ReallocKeeps
  <2>3. Last' = n /\ CountInv'
    BY <1>1, <2>2 DEF Last, Past, CountInv
  <2> QED
    BY <1>1, <2>2, <2>3 DEF Grows
<1>4. CASE mem' = [Realloc(n, Garbage) EXCEPT ![n] = Garbage]
  <2>1. Garbage \in Leftover
    BY DEF Leftover
  <2>2. Garbage \in Slot /\ Garbage.ev = Garbage.tid
    BY <2>1, LeftoverSlot
  <2> QED
    BY <1>1, <1>4, <2>1, <2>2, WriteGrows
<1> QED
  BY <1>2, <1>3, <1>4 DEF CreateFails

\* memmove closes the gap of slot i; what comes from past the array is no running task's.
Shrinks(i) ==
    /\ mem' \in Seq(Slot) /\ Len(mem') = Len(mem) /\ CountInv'
    /\ Last' \in Nat /\ Last - 1 <= Last' /\ Last' <= Last /\ (~failed => Last' = Last - 1)
    /\ \A k \in 1 .. Last - 1 : mem'[k] = mem[IF k >= i THEN k + 1 ELSE k]
    /\ \A k \in 1 .. Len(mem) : mem'[k].ev = mem'[k].tid

\* ll_removeThread's memmove drops one slot and keeps the order of the others.
LEMMA MoveDownShrinks ==
    ASSUME IInv, NEW i \in 1 .. Last, NEW g \in Leftover, mem' = MoveDown(i, g),
           ll_nThreads' = ll_nThreads - 1, failed' = failed
    PROVE  Shrinks(i)
<1>1. /\ mem \in Seq(Slot) /\ Len(mem) \in Nat /\ ll_nThreads \in Nat
      /\ Last \in Nat /\ Last <= Len(mem) /\ Last <= ll_nThreads /\ (~failed => Last = ll_nThreads)
  BY LastFacts DEF IInv, TypeInv, CountInv
<1>2. g \in Slot /\ g.ev = g.tid
  BY LeftoverSlot
<1>3. \A k \in 1 .. Len(mem) : k = Len(mem) \/ k + 1 \in 1 .. Len(mem)
  BY <1>1
<1>4. ASSUME NEW k \in 1 .. Len(mem)
      PROVE  /\ \/ mem'[k] = mem[k] \/ mem'[k] = g
                \/ k + 1 \in 1 .. Len(mem) /\ mem'[k] = mem[k + 1]
             /\ k < Last => mem'[k] = mem[IF k >= i THEN k + 1 ELSE k]
  <2>1. mem'[k] = IF k < i \/ k >= ll_nThreads THEN mem[k] ELSE IF k = Len(mem) THEN g ELSE mem[k + 1]
    BY DEF MoveDown
  <2>2. i \in Nat /\ k \in Nat
    BY <1>1
  <2>3. CASE k < i \/ k >= ll_nThreads
    BY <1>1, <2>1, <2>2, <2>3
  <2>4. CASE ~(k < i \/ k >= ll_nThreads) /\ k = Len(mem)
    BY <1>1, <2>1, <2>2, <2>4
  <2>5. CASE ~(k < i \/ k >= ll_nThreads) /\ k # Len(mem)
    BY <1>1, <1>3, <2>1, <2>2, <2>5
  <2> QED
    BY <2>3, <2>4, <2>5
<1>5. \A k \in 1 .. Len(mem) : mem'[k] \in Slot /\ mem'[k].ev = mem'[k].tid
  <2>1. \A k \in 1 .. Len(mem) : mem[k] \in Slot /\ mem[k].ev = mem[k].tid
    BY <1>1 DEF IInv, SlotInv
  <2> QED
    BY <1>2, <1>4, <2>1
<1>6. mem' \in [1 .. Len(mem) -> Slot]
  BY <1>5 DEF MoveDown
<1>7. mem' \in Seq(Slot) /\ Len(mem') = Len(mem)
  BY <1>1, <1>6, IsSeq
<1>8. ll_nThreads >= 1 /\ ll_nThreads <= Len(mem) + 1 /\ (~failed => ll_nThreads <= Len(mem))
  BY <1>1 DEF IInv, CountInv
<1>9. CountInv' /\ Last' \in Nat /\ Last - 1 <= Last' /\ Last' <= Last /\ (~failed => Last' = Last - 1)
  BY <1>1, <1>7, <1>8 DEF CountInv, Last, Past
<1>10. \A k \in 1 .. Last - 1 : k \in 1 .. Len(mem) /\ k < Last
  BY <1>1
<1> QED
  BY <1>4, <1>5, <1>7, <1>9, <1>10 DEF Shrinks

\* What the operations do to the array, the pointers and the history.
Creates(t) ==
    Grows /\ Last < Last' /\ mem'[Last'].tid = t /\ (~failed => Last' = Last + 1)
Removes(t) ==
    IF Find(t) = 0 THEN UNCHANGED <<mem, ll_nThreads>> /\ \A i \in 1 .. Last : mem[i].tid # t
    ELSE Find(t) \in 1 .. Last /\ mem[Find(t)].tid = t /\ Shrinks(Find(t))
Locks(j, t) ==
    \/ Find(t) = 0 /\ pc'[j] \in {"done", "wild"} /\ UNCHANGED <<mem, ptr>> /\ \A i \in 1 .. Last : mem[i].tid # t
    \/ /\ Find(t) \in 1 .. Last /\ mem[Find(t)].tid = t /\ Keeps
       /\ ptr' = [ptr EXCEPT ![j] = PtrTo(Find(t))] /\ pc'[j] = "locked"

\* Every operation has the effect above wherever the invariant holds.
LEMMA Effects ==
    ASSUME IInv
    PROVE  /\ CreateFails => Grows
           /\ \A t \in Tasks : Create(t) => Creates(t)
           /\ \A t \in Tasks : Remove(t) => Removes(t)
           /\ \A t \in Tasks : Signal(t) => Find(t) \in 1 .. Last /\ mem[Find(t)].ev = t
           /\ \A j \in Joiners, t \in Tasks : JoinLock(j, t) => Locks(j, t)
           /\ \A j \in Joiners : JoinUnlock(j) => Keeps \/ UNCHANGED mem
<1>0. /\ TypeInv /\ CountInv /\ SlotInv
      /\ Last \in Nat /\ Last <= Len(mem) /\ Len(mem) \in Nat
  BY LastFacts DEF IInv
<1>1. \A t \in Tasks : /\ Find(t) \in 0 .. Last
                       /\ Find(t) # 0 => Find(t) \in 1 .. Len(mem) /\ mem[Find(t)].tid = t
                       /\ Find(t) = 0 => \A i \in 1 .. Last : mem[i].tid # t
  BY <1>0, Found
<1>2. ASSUME NEW t \in Tasks, Remove(t) PROVE Removes(t)
  <2>1. CASE Find(t) = 0
    BY <1>1, <1>2, <2>1 DEF Remove, Removes
  <2>2. CASE Find(t) # 0
    <3>1. Find(t) \in 1 .. Last /\ mem[Find(t)].tid = t
      BY <1>0, <1>1, <2>2
    <3>2. PICK g \in Leftover : mem' = MoveDown(Find(t), g)
      BY <1>2, <2>2 DEF Remove
    <3>3. ll_nThreads' = ll_nThreads - 1 /\ failed' = failed
      BY <1>2, <2>2 DEF Remove
    <3> QED
      BY <2>2, <3>1, <3>2, <3>3, MoveDownShrinks DEF Removes
  <2> QED
    BY <2>1, <2>2
<1>3. ASSUME NEW t \in Tasks, Signal(t) PROVE Find(t) \in 1 .. Last /\ mem[Find(t)].ev = t
  BY <1>0, <1>1, <1>3 DEF Signal, SlotInv
<1>4. ASSUME NEW j \in Joiners, NEW t \in Tasks, JoinLock(j, t) PROVE Locks(j, t)
  <2>0. pc \in [Tasks \cup Joiners -> TaskLocs \cup JoinLocs] /\ j \in Tasks \cup Joiners
    BY <1>0 DEF TypeInv
  <2>1. CASE Find(t) = 0
    BY <1>1, <1>4, <2>0, <2>1 DEF JoinLock, Locks
  <2>2. CASE Find(t) # 0
    <3>1. Find(t) \in 1 .. Last /\ Find(t) \in 1 .. Len(mem) /\ mem[Find(t)].tid = t
      BY <1>0, <1>1, <2>2
    <3>2. AddSubs(Find(t), 1) /\ ptr' = [ptr EXCEPT ![j] = PtrTo(Find(t))] /\ pc'[j] = "locked"
      BY <1>4, <2>0, <2>2 DEF JoinLock
    <3>3. Keeps
      BY <1>0, <3>1, <3>2, AddSubsKeeps
    <3> QED
      BY <3>1, <3>2, <3>3 DEF Locks
  <2> QED
    BY <2>1, <2>2
<1>5. ASSUME NEW j \in Joiners, JoinUnlock(j) PROVE Keeps \/ UNCHANGED mem
  <2>1. CASE Good(ptr[j])
    <3>1. ptr[j].idx \in 1 .. Len(mem)
      BY <1>0, <2>1 DEF Good, TypeInv, Pointer
    <3>2. AddSubs(ptr[j].idx, UnlockBy) /\ UnlockBy \in Int
      BY <1>5, <2>1 DEF JoinUnlock, UnlockBy
    <3> QED
      BY <1>0, <3>1, <3>2, AddSubsKeeps
  <2>2. CASE ~Good(ptr[j])
    BY <1>5, <2>2 DEF JoinUnlock
  <2> QED
    BY <2>1, <2>2
<1> QED
  BY <1>2, <1>3, <1>4, <1>5, CreateGrows, FailGrows DEF Creates

-----------------------------------------------------------------------------
(* Every step preserves each part of the invariant *)

\* A step preserves the types.
LEMMA TypeStep ==
    ASSUME IInv, Next
    PROVE  TypeInv'
<1>e. /\ CreateFails => Grows
      /\ \A t \in Tasks : Create(t) => Creates(t)
      /\ \A t \in Tasks : Remove(t) => Removes(t)
      /\ \A t \in Tasks : Signal(t) => Find(t) \in 1 .. Last /\ mem[Find(t)].ev = t
      /\ \A j \in Joiners, t \in Tasks : JoinLock(j, t) => Locks(j, t)
      /\ \A j \in Joiners : JoinUnlock(j) => Keeps \/ UNCHANGED mem
  BY Effects
<1>d. Tasks \cap Joiners = {} /\ null \notin Tasks \cup Joiners
  BY HandlesAssumption
<1>l. Last \in Nat /\ Len(mem) \in Nat /\ Last <= Len(mem) /\ (~failed => Last = ll_nThreads)
  BY LastFacts DEF IInv
<1>s. UNCHANGED <<mem, ll_nThreads>> => Last' = Last
  BY LastSame
<1> USE <1>d DEF IInv, TypeInv, history
<1>1. ASSUME NEW t \in Tasks, Create(t) PROVE TypeInv'
  <2>1. mem' \in Seq(Slot)
    BY <1>1, <1>e DEF Creates, Grows
  <2>2. block' \in Nat /\ moved' \subseteq Tasks \cup Joiners /\ failed' \in BOOLEAN
    BY <1>1 DEF Create, MayMove, Users
  <2>3. /\ pc' \in [Tasks \cup Joiners -> TaskLocs \cup JoinLocs]
        /\ \A u \in Tasks : pc'[u] \in TaskLocs
        /\ \A i \in Joiners : pc'[i] \in JoinLocs
    BY <1>1 DEF Create, TaskLocs, JoinLocs
  <2>4. evSet' \subseteq Tasks
    BY <1>1, <1>e DEF Create
  <2>5. td' \in [Tasks -> Pointer] /\ ptr' \in [Joiners -> Pointer]
    BY <1>1 DEF Create
  <2>6. target' \in [Joiners -> Tasks \cup {null}] /\ waitOn' \in [Joiners -> Tasks \cup {null}]
    BY <1>1 DEF Create
  <2> QED
    BY <2>1, <2>2, <2>3, <2>4, <2>5, <2>6
<1>2. ASSUME NEW t \in Tasks, Signal(t) PROVE TypeInv'
  <2>1. mem' \in Seq(Slot)
    BY <1>2 DEF Signal
  <2>2. block' \in Nat /\ moved' \subseteq Tasks \cup Joiners /\ failed' \in BOOLEAN
    BY <1>2 DEF Signal, MayMove, Users
  <2>3. /\ pc' \in [Tasks \cup Joiners -> TaskLocs \cup JoinLocs]
        /\ \A u \in Tasks : pc'[u] \in TaskLocs
        /\ \A i \in Joiners : pc'[i] \in JoinLocs
    BY <1>2 DEF Signal, TaskLocs, JoinLocs
  <2>4. evSet' \subseteq Tasks
    BY <1>2, <1>e DEF Signal
  <2>5. td' \in [Tasks -> Pointer] /\ ptr' \in [Joiners -> Pointer]
    <3>1. PtrTo(Find(t)) \in Pointer
      <4>1. Find(t) \in 1 .. Last
        BY <1>2, <1>e
      <4> QED
        BY <4>1 DEF PtrTo, Pointer
    <3> QED
      BY <1>2, <3>1 DEF Signal
  <2>6. target' \in [Joiners -> Tasks \cup {null}] /\ waitOn' \in [Joiners -> Tasks \cup {null}]
    BY <1>2 DEF Signal
  <2> QED
    BY <2>1, <2>2, <2>3, <2>4, <2>5, <2>6
<1>3. ASSUME NEW t \in Tasks, Spin(t) PROVE TypeInv'
  <2>1. mem' \in Seq(Slot)
    BY <1>3 DEF Spin
  <2>2. block' \in Nat /\ moved' \subseteq Tasks \cup Joiners /\ failed' \in BOOLEAN
    BY <1>3 DEF Spin, MayMove, Users
  <2>3. /\ pc' \in [Tasks \cup Joiners -> TaskLocs \cup JoinLocs]
        /\ \A u \in Tasks : pc'[u] \in TaskLocs
        /\ \A i \in Joiners : pc'[i] \in JoinLocs
    BY <1>3 DEF Spin, TaskLocs, JoinLocs
  <2>4. evSet' \subseteq Tasks
    BY <1>3, <1>e DEF Spin
  <2>5. td' \in [Tasks -> Pointer] /\ ptr' \in [Joiners -> Pointer]
    BY <1>3 DEF Spin
  <2>6. target' \in [Joiners -> Tasks \cup {null}] /\ waitOn' \in [Joiners -> Tasks \cup {null}]
    BY <1>3 DEF Spin
  <2> QED
    BY <2>1, <2>2, <2>3, <2>4, <2>5, <2>6
<1>4. ASSUME NEW t \in Tasks, Remove(t) PROVE TypeInv'
  <2>1. mem' \in Seq(Slot)
    BY <1>4, <1>e DEF Removes, Shrinks
  <2>2. block' \in Nat /\ moved' \subseteq Tasks \cup Joiners /\ failed' \in BOOLEAN
    BY <1>4 DEF Remove, MayMove, Users
  <2>3. /\ pc' \in [Tasks \cup Joiners -> TaskLocs \cup JoinLocs]
        /\ \A u \in Tasks : pc'[u] \in TaskLocs
        /\ \A i \in Joiners : pc'[i] \in JoinLocs
    BY <1>4 DEF Remove, TaskLocs, JoinLocs
  <2>4. evSet' \subseteq Tasks
    BY <1>4, <1>e DEF Remove
  <2>5. td' \in [Tasks -> Pointer] /\ ptr' \in [Joiners -> Pointer]
    BY <1>4 DEF Remove
  <2>6. target' \in [Joiners -> Tasks \cup {null}] /\ waitOn' \in [Joiners -> Tasks \cup {null}]
    BY <1>4 DEF Remove
  <2> QED
    BY <2>1, <2>2, <2>3, <2>4, <2>5, <2>6
<1>5. ASSUME NEW j \in Joiners, JoinBegin(j) PROVE TypeInv'
  <2>1. mem' \in Seq(Slot)
    BY <1>5 DEF JoinBegin
  <2>2. block' \in Nat /\ moved' \subseteq Tasks \cup Joiners /\ failed' \in BOOLEAN
    BY <1>5 DEF JoinBegin, MayMove, Users
  <2>3. /\ pc' \in [Tasks \cup Joiners -> TaskLocs \cup JoinLocs]
        /\ \A u \in Tasks : pc'[u] \in TaskLocs
        /\ \A i \in Joiners : pc'[i] \in JoinLocs
    BY <1>5 DEF JoinBegin, TaskLocs, JoinLocs
  <2>4. evSet' \subseteq Tasks
    BY <1>5, <1>e DEF JoinBegin
  <2>5. td' \in [Tasks -> Pointer] /\ ptr' \in [Joiners -> Pointer]
    BY <1>5 DEF JoinBegin
  <2>6. target' \in [Joiners -> Tasks \cup {null}] /\ waitOn' \in [Joiners -> Tasks \cup {null}]
    <3>1. Good(ptr[j]) => mem[ptr[j].idx].ev \in Tasks \cup {null}
      <4>1. Good(ptr[j]) => ptr[j].idx \in 1 .. Len(mem)
        BY DEF Good, Pointer
      <4>2. Good(ptr[j]) => mem[ptr[j].idx] \in Slot
        BY <4>1
      <4> QED
        BY <4>2 DEF Slot
    <3> QED
      BY <1>5, <3>1 DEF JoinBegin
  <2> QED
    BY <2>1, <2>2, <2>3, <2>4, <2>5, <2>6
<1>6. ASSUME NEW j \in Joiners, JoinWake(j) PROVE TypeInv'
  <2>1. mem' \in Seq(Slot)
    BY <1>6 DEF JoinWake
  <2>2. block' \in Nat /\ moved' \subseteq Tasks \cup Joiners /\ failed' \in BOOLEAN
    BY <1>6 DEF JoinWake, MayMove, Users
  <2>3. /\ pc' \in [Tasks \cup Joiners -> TaskLocs \cup JoinLocs]
        /\ \A u \in Tasks : pc'[u] \in TaskLocs
        /\ \A i \in Joiners : pc'[i] \in JoinLocs
    BY <1>6 DEF JoinWake, TaskLocs, JoinLocs
  <2>4. evSet' \subseteq Tasks
    BY <1>6, <1>e DEF JoinWake
  <2>5. td' \in [Tasks -> Pointer] /\ ptr' \in [Joiners -> Pointer]
    BY <1>6 DEF JoinWake
  <2>6. target' \in [Joiners -> Tasks \cup {null}] /\ waitOn' \in [Joiners -> Tasks \cup {null}]
    BY <1>6 DEF JoinWake
  <2> QED
    BY <2>1, <2>2, <2>3, <2>4, <2>5, <2>6
<1>7. ASSUME NEW j \in Joiners, JoinUnlock(j) PROVE TypeInv'
  <2>1. mem' \in Seq(Slot)
    BY <1>7, <1>e DEF Keeps, JoinUnlock
  <2>2. block' \in Nat /\ moved' \subseteq Tasks \cup Joiners /\ failed' \in BOOLEAN
    BY <1>7 DEF JoinUnlock, MayMove, Users
  <2>3. /\ pc' \in [Tasks \cup Joiners -> TaskLocs \cup JoinLocs]
        /\ \A u \in Tasks : pc'[u] \in TaskLocs
        /\ \A i \in Joiners : pc'[i] \in JoinLocs
    BY <1>7 DEF JoinUnlock, TaskLocs, JoinLocs
  <2>4. evSet' \subseteq Tasks
    BY <1>7, <1>e DEF JoinUnlock
  <2>5. td' \in [Tasks -> Pointer] /\ ptr' \in [Joiners -> Pointer]
    BY <1>7 DEF JoinUnlock
  <2>6. target' \in [Joiners -> Tasks \cup {null}] /\ waitOn' \in [Joiners -> Tasks \cup {null}]
    BY <1>7 DEF JoinUnlock
  <2> QED
    BY <2>1, <2>2, <2>3, <2>4, <2>5, <2>6
<1>8. ASSUME NEW j \in Joiners, NEW t \in Tasks, JoinLock(j, t) PROVE TypeInv'
  <2>1. mem' \in Seq(Slot)
    BY <1>8, <1>e DEF Locks, Keeps, JoinLock
  <2>2. block' \in Nat /\ moved' \subseteq Tasks \cup Joiners /\ failed' \in BOOLEAN
    BY <1>8 DEF JoinLock, MayMove, Users
  <2>3. /\ pc' \in [Tasks \cup Joiners -> TaskLocs \cup JoinLocs]
        /\ \A u \in Tasks : pc'[u] \in TaskLocs
        /\ \A i \in Joiners : pc'[i] \in JoinLocs
    BY <1>8 DEF JoinLock, TaskLocs, JoinLocs
  <2>4. evSet' \subseteq Tasks
    BY <1>8, <1>e DEF JoinLock
  <2>5. td' \in [Tasks -> Pointer] /\ ptr' \in [Joiners -> Pointer]
    <3>1. Find(t) \in 1 .. Last => PtrTo(Find(t)) \in Pointer
      BY DEF PtrTo, Pointer
    <3>2. \/ UNCHANGED ptr
          \/ Find(t) \in 1 .. Last /\ ptr' = [ptr EXCEPT ![j] = PtrTo(Find(t))]
      BY <1>8, <1>e DEF Locks
    <3> QED
      BY <1>8, <3>1, <3>2 DEF JoinLock
  <2>6. target' \in [Joiners -> Tasks \cup {null}] /\ waitOn' \in [Joiners -> Tasks \cup {null}]
    BY <1>8 DEF JoinLock
  <2> QED
    BY <2>1, <2>2, <2>3, <2>4, <2>5, <2>6
<1>9. CASE CreateFails
  <2>1. mem' \in Seq(Slot)
    BY <1>9, <1>e DEF Grows
  <2>2. block' \in Nat /\ moved' \subseteq Tasks \cup Joiners /\ failed' \in BOOLEAN
    BY <1>9 DEF CreateFails, MayMove, Users
  <2>3. /\ pc' \in [Tasks \cup Joiners -> TaskLocs \cup JoinLocs]
        /\ \A u \in Tasks : pc'[u] \in TaskLocs
        /\ \A i \in Joiners : pc'[i] \in JoinLocs
    BY <1>9 DEF CreateFails, TaskLocs, JoinLocs
  <2>4. evSet' \subseteq Tasks
    BY <1>9, <1>e DEF CreateFails
  <2>5. td' \in [Tasks -> Pointer] /\ ptr' \in [Joiners -> Pointer]
    BY <1>9 DEF CreateFails
  <2>6. target' \in [Joiners -> Tasks \cup {null}] /\ waitOn' \in [Joiners -> Tasks \cup {null}]
    BY <1>9 DEF CreateFails
  <2> QED
    BY <2>1, <2>2, <2>3, <2>4, <2>5, <2>6
<1>10. CASE UNCHANGED vars
  BY <1>10 DEF vars
<1> QED
  BY <1>1, <1>2, <1>3, <1>4, <1>5, <1>6, <1>7, <1>8, <1>9, <1>10 DEF Next, TaskStep, JoinStep, SpinAgain, Terminated

\* A step preserves what slots hold.
LEMMA SlotStep ==
    ASSUME IInv, Next
    PROVE  SlotInv'
<1>e. /\ CreateFails => Grows
      /\ \A t \in Tasks : Create(t) => Creates(t)
      /\ \A t \in Tasks : Remove(t) => Removes(t)
      /\ \A t \in Tasks : Signal(t) => Find(t) \in 1 .. Last /\ mem[Find(t)].ev = t
      /\ \A j \in Joiners, t \in Tasks : JoinLock(j, t) => Locks(j, t)
      /\ \A j \in Joiners : JoinUnlock(j) => Keeps \/ UNCHANGED mem
  BY Effects
<1>d. Tasks \cap Joiners = {} /\ null \notin Tasks \cup Joiners
  BY HandlesAssumption
<1>l. Last \in Nat /\ Len(mem) \in Nat /\ Last <= Len(mem) /\ (~failed => Last = ll_nThreads)
  BY LastFacts DEF IInv
<1>s. UNCHANGED <<mem, ll_nThreads>> => Last' = Last
  BY LastSame
<1> USE <1>d DEF IInv, TypeInv, SlotInv, history
<1>1. ASSUME NEW t \in Tasks, Create(t) PROVE SlotInv'
  BY <1>1, <1>e DEF Create, Creates, Grows
<1>2. ASSUME NEW t \in Tasks, Signal(t) PROVE SlotInv'
  BY <1>2 DEF Signal
<1>3. ASSUME NEW t \in Tasks, Spin(t) PROVE SlotInv'
  BY <1>3 DEF Spin
<1>4. ASSUME NEW t \in Tasks, Remove(t) PROVE SlotInv'
  <2>l. Last \in Nat /\ Len(mem) \in Nat /\ Last <= Len(mem)
    BY <1>l
  <2>e. Removes(t)
    BY <1>4, <1>e
  <2>1. CASE Find(t) = 0
    BY <2>1, <2>e DEF Removes
  <2>2. CASE Find(t) # 0
    BY <2>2, <2>e DEF Removes, Shrinks
  <2> QED
    BY <2>1, <2>2
<1>5. ASSUME NEW j \in Joiners, JoinBegin(j) PROVE SlotInv'
  BY <1>5 DEF JoinBegin
<1>6. ASSUME NEW j \in Joiners, JoinWake(j) PROVE SlotInv'
  BY <1>6 DEF JoinWake
<1>7. ASSUME NEW j \in Joiners, JoinUnlock(j) PROVE SlotInv'
  BY <1>7, <1>e DEF JoinUnlock, Keeps
<1>8. ASSUME NEW j \in Joiners, NEW t \in Tasks, JoinLock(j, t) PROVE SlotInv'
  BY <1>8, <1>e DEF JoinLock, Locks, Keeps
<1>9. CASE CreateFails
  BY <1>9, <1>e DEF CreateFails, Grows
<1>10. CASE UNCHANGED vars
  BY <1>10 DEF vars
<1> QED
  BY <1>1, <1>2, <1>3, <1>4, <1>5, <1>6, <1>7, <1>8, <1>9, <1>10 DEF Next, TaskStep, JoinStep, SpinAgain, Terminated

\* A step preserves the bound on the count.
LEMMA CountStep ==
    ASSUME IInv, Next
    PROVE  CountInv'
<1>e. /\ CreateFails => Grows
      /\ \A t \in Tasks : Create(t) => Creates(t)
      /\ \A t \in Tasks : Remove(t) => Removes(t)
      /\ \A j \in Joiners, t \in Tasks : JoinLock(j, t) => Locks(j, t)
      /\ \A j \in Joiners : JoinUnlock(j) => Keeps \/ UNCHANGED mem
  BY Effects
<1> DEFINE Same == Len(mem') = Len(mem) /\ ll_nThreads' = ll_nThreads /\ failed' = failed
<1>s. Same => CountInv'
  BY DEF IInv, CountInv
<1> USE DEF history
<1>1. ASSUME NEW t \in Tasks, Create(t) PROVE CountInv'
  BY <1>1, <1>e DEF Creates, Grows
<1>2. ASSUME NEW t \in Tasks, Signal(t) \/ Spin(t) PROVE Same
  BY <1>2 DEF Signal, Spin
<1>3. ASSUME NEW t \in Tasks, Remove(t) PROVE CountInv'
  <2>1. CASE Find(t) = 0
    BY <1>s, <1>3, <2>1 DEF Remove
  <2>2. CASE Find(t) # 0
    BY <1>3, <1>e, <2>2 DEF Removes, Shrinks
  <2> QED
    BY <2>1, <2>2
<1>4. ASSUME NEW j \in Joiners, JoinBegin(j) \/ JoinWake(j) PROVE Same
  BY <1>4 DEF JoinBegin, JoinWake
<1>5. ASSUME NEW j \in Joiners, JoinUnlock(j) PROVE Same
  <2>1. Keeps \/ UNCHANGED mem
    BY <1>5, <1>e
  <2> QED
    BY <1>5, <2>1 DEF Keeps, JoinUnlock
<1>6. ASSUME NEW j \in Joiners, NEW t \in Tasks, JoinLock(j, t) PROVE Same
  <2>1. Keeps \/ UNCHANGED mem
    BY <1>6, <1>e DEF Locks
  <2> QED
    BY <1>6, <2>1 DEF Keeps, JoinLock
<1>7. CASE CreateFails
  BY <1>7, <1>e DEF Grows
<1>8. CASE UNCHANGED vars
  BY <1>s, <1>8 DEF vars
<1> HIDE DEF Same
<1> QED
  BY <1>s, <1>1, <1>2, <1>3, <1>4, <1>5, <1>6, <1>7, <1>8 DEF Next, TaskStep, JoinStep, SpinAgain, Terminated


\* A step preserves the slots of running tasks.
LEMMA LiveStep ==
    ASSUME IInv, Next
    PROVE  LiveInv'
<1>e. /\ CreateFails => Grows
      /\ \A t \in Tasks : Create(t) => Creates(t)
      /\ \A t \in Tasks : Remove(t) => Removes(t)
      /\ \A t \in Tasks : Signal(t) => Find(t) \in 1 .. Last /\ mem[Find(t)].ev = t
      /\ \A j \in Joiners, t \in Tasks : JoinLock(j, t) => Locks(j, t)
      /\ \A j \in Joiners : JoinUnlock(j) => Keeps \/ UNCHANGED mem
  BY Effects
<1>d. Tasks \cap Joiners = {} /\ null \notin Tasks \cup Joiners
  BY HandlesAssumption
<1>l. Last \in Nat /\ Len(mem) \in Nat /\ Last <= Len(mem) /\ (~failed => Last = ll_nThreads)
  BY LastFacts DEF IInv
<1>s. UNCHANGED <<mem, ll_nThreads>> => Last' = Last
  BY LastSame
<1> USE <1>d DEF IInv, TypeInv, history
<1>1. ASSUME NEW t \in Tasks, Create(t) PROVE LiveInv'
  <2>l. Last \in Nat /\ Len(mem) \in Nat /\ Last <= Len(mem)
    BY <1>l
  <2>e. Creates(t)
    BY <1>1, <1>e
  <2>r. Running' = Running \cup {t} /\ t \notin Running
    BY <1>1 DEF Create, Running
  <2>1. /\ Last' \in Nat /\ Last < Last' /\ mem'[Last'].tid = t
        /\ \A i \in 1 .. Last : mem'[i] = mem[i]
    BY <2>e DEF Creates, Grows
  <2>2. ASSUME NEW u \in Running PROVE \E i \in 1 .. Last' : mem'[i].tid = u
    <3>1. PICK i \in 1 .. Last : mem[i].tid = u
      BY DEF LiveInv
    <3>2. i \in 1 .. Last' /\ mem'[i].tid = u
      BY <2>l, <2>1, <3>1
    <3> QED
      BY <3>2
  <2>3. Last' \in 1 .. Last'
    BY <2>l, <2>1
  <2> QED
    BY <2>r, <2>1, <2>2, <2>3 DEF LiveInv
<1>2. ASSUME NEW t \in Tasks, Signal(t) PROVE LiveInv'
  BY <1>2, <1>s DEF Signal, LiveInv, Running
<1>3. ASSUME NEW t \in Tasks, Spin(t) PROVE LiveInv'
  BY <1>3, <1>s DEF Spin, LiveInv, Running
<1>4. ASSUME NEW t \in Tasks, Remove(t) PROVE LiveInv'
  <2>l. Last \in Nat /\ Len(mem) \in Nat /\ Last <= Len(mem)
    BY <1>l
  <2>e. Removes(t)
    BY <1>4, <1>e
  <2>r. Running' = Running \ {t}
    BY <1>4 DEF Remove, Running
  <2>1. CASE Find(t) = 0
    BY <2>1, <2>e, <2>r, <1>s DEF Removes, LiveInv
  <2>2. CASE Find(t) # 0
    <3>1. PICK f \in 1 .. Last :
             /\ mem[f].tid = t /\ Last' \in Nat /\ Last - 1 <= Last'
             /\ \A k \in 1 .. Last - 1 : mem'[k] = mem[IF k >= f THEN k + 1 ELSE k]
      BY <2>2, <2>e DEF Removes, Shrinks
    <3>2. \A k \in 1 .. Last - 1 : k < f => mem'[k] = mem[k]
      BY <2>l, <3>1
    <3>3. \A k \in 1 .. Last - 1 : k >= f => mem'[k] = mem[k + 1]
      BY <2>l, <3>1
    <3>4. ASSUME NEW u \in Running \ {t} PROVE \E i \in 1 .. Last' : mem'[i].tid = u
      <4>1. PICK i \in 1 .. Last : mem[i].tid = u
        BY DEF LiveInv
      <4>2. CASE i < f
        <5>1. i \in 1 .. Last - 1 /\ i \in 1 .. Last'
          BY <2>l, <3>1, <4>2
        <5> QED
          BY <3>2, <4>1, <4>2, <5>1
      <4>3. CASE i > f
        <5>1. i - 1 \in 1 .. Last - 1 /\ i - 1 \in 1 .. Last' /\ i - 1 >= f /\ (i - 1) + 1 = i
          BY <2>l, <3>1, <4>3
        <5>2. mem'[i - 1].tid = u
          BY <3>3, <4>1, <5>1
        <5> QED
          BY <5>1, <5>2
      <4> QED
        BY <2>l, <3>1, <4>1, <4>2, <4>3
    <3> QED
      BY <2>r, <3>1, <3>4 DEF LiveInv
  <2> QED
    BY <2>1, <2>2
<1>5. ASSUME NEW j \in Joiners, JoinBegin(j) PROVE LiveInv'
  BY <1>5, <1>s DEF JoinBegin, LiveInv, Running
<1>6. ASSUME NEW j \in Joiners, JoinWake(j) PROVE LiveInv'
  BY <1>6, <1>s DEF JoinWake, LiveInv, Running
<1>7. ASSUME NEW j \in Joiners, JoinUnlock(j) PROVE LiveInv'
  <2>l. Last \in Nat /\ Len(mem) \in Nat /\ Last <= Len(mem)
    BY <1>l
  <2>r. Running' = Running
    BY <1>7 DEF JoinUnlock, Running, TaskLocs
  <2>k. /\ Last' = Last /\ failed' = failed
        /\ \A i \in 1 .. Last : mem'[i].tid = mem[i].tid
    <3>1. Keeps \/ UNCHANGED mem
      BY <1>7, <1>e
    <3>2. Last' = Last
      BY <1>7, <3>1 DEF JoinUnlock, Keeps, Last, Past
    <3> QED
      BY <1>7, <2>l, <3>1, <3>2 DEF JoinUnlock, Keeps
  <2> QED
    BY <2>l, <2>r, <2>k DEF LiveInv
<1>8. ASSUME NEW j \in Joiners, NEW t \in Tasks, JoinLock(j, t) PROVE LiveInv'
  <2>l. Last \in Nat /\ Len(mem) \in Nat /\ Last <= Len(mem)
    BY <1>l
  <2>r. Running' = Running
    BY <1>8 DEF JoinLock, Running, TaskLocs
  <2>k. /\ Last' = Last /\ failed' = failed
        /\ \A i \in 1 .. Last : mem'[i].tid = mem[i].tid
    <3>1. Keeps \/ UNCHANGED mem
      BY <1>8, <1>e DEF Locks
    <3>2. Last' = Last
      BY <1>8, <3>1 DEF JoinLock, Keeps, Last, Past
    <3> QED
      BY <1>8, <2>l, <3>1, <3>2 DEF JoinLock, Keeps
  <2> QED
    BY <2>l, <2>r, <2>k DEF LiveInv
<1>9. CASE CreateFails
  <2>1. Last' \in Nat /\ Last <= Last' /\ \A i \in 1 .. Last : mem'[i] = mem[i]
    BY <1>9, <1>e DEF Grows
  <2>2. Running' = Running
    BY <1>9 DEF CreateFails, Running
  <2>3. \A i \in 1 .. Last : i \in 1 .. Last'
    BY <1>l, <2>1
  <2> QED
    BY <2>1, <2>2, <2>3 DEF LiveInv
<1>10. CASE UNCHANGED vars
  BY <1>10, <1>s DEF vars, LiveInv, Running
<1> QED
  BY <1>1, <1>2, <1>3, <1>4, <1>5, <1>6, <1>7, <1>8, <1>9, <1>10 DEF Next, TaskStep, JoinStep, SpinAgain, Terminated

\* A step preserves that slots are not shared.
LEMMA OnceStep ==
    ASSUME IInv, Next
    PROVE  OnceInv'
<1>e. /\ CreateFails => Grows
      /\ \A t \in Tasks : Create(t) => Creates(t)
      /\ \A t \in Tasks : Remove(t) => Removes(t)
      /\ \A t \in Tasks : Signal(t) => Find(t) \in 1 .. Last /\ mem[Find(t)].ev = t
      /\ \A j \in Joiners, t \in Tasks : JoinLock(j, t) => Locks(j, t)
      /\ \A j \in Joiners : JoinUnlock(j) => Keeps \/ UNCHANGED mem
  BY Effects
<1>d. Tasks \cap Joiners = {} /\ null \notin Tasks \cup Joiners
  BY HandlesAssumption
<1>l. Last \in Nat /\ Len(mem) \in Nat /\ Last <= Len(mem) /\ (~failed => Last = ll_nThreads)
  BY LastFacts DEF IInv
<1>s. UNCHANGED <<mem, ll_nThreads>> => Last' = Last
  BY LastSame
<1> USE <1>d DEF IInv, TypeInv, history
<1>1. ASSUME NEW t \in Tasks, Create(t) PROVE OnceInv'
  <2>l. Last \in Nat /\ Len(mem) \in Nat /\ Last <= Len(mem)
    BY <1>l
  <2>e. Creates(t)
    BY <1>1, <1>e
  <2>r. Running' = Running \cup {t} /\ t \notin Running
    BY <1>1 DEF Create, Running
  <2>1. /\ ~failed => Last' = Last + 1 /\ mem'[Last + 1].tid = t
        /\ \A i \in 1 .. Last : mem'[i] = mem[i]
        /\ failed' = failed
    BY <1>1, <2>e DEF Create, Creates, Grows
  <2>2. ASSUME ~failed, NEW i \in 1 .. Last + 1
        PROVE  /\ mem'[i].tid \in Running \cup {t}
               /\ \A k \in 1 .. Last + 1 : mem'[k].tid = mem'[i].tid => k = i
    <3>1. mem'[Last + 1].tid = t /\ \A k \in 1 .. Last : mem'[k] = mem[k]
      BY <2>1, <2>2
    <3>2. /\ \A k \in 1 .. Last : mem[k].tid \in Running
          /\ \A k, q \in 1 .. Last : mem[q].tid = mem[k].tid => q = k
      BY <2>2 DEF OnceInv
    <3>3. \A k \in 1 .. Last + 1 : k \in 1 .. Last \/ k = Last + 1
      BY <2>l
    <3> QED
      BY <2>r, <3>1, <3>2, <3>3
  <2> QED
    BY <2>r, <2>1, <2>2 DEF OnceInv
<1>2. ASSUME NEW t \in Tasks, Signal(t) PROVE OnceInv'
  BY <1>2, <1>s DEF Signal, OnceInv, Running
<1>3. ASSUME NEW t \in Tasks, Spin(t) PROVE OnceInv'
  BY <1>3, <1>s DEF Spin, OnceInv, Running
<1>4. ASSUME NEW t \in Tasks, Remove(t) PROVE OnceInv'
  <2>l. Last \in Nat /\ Len(mem) \in Nat /\ Last <= Len(mem)
    BY <1>l
  <2>e. Removes(t)
    BY <1>4, <1>e
  <2>r. Running' = Running \ {t}
    BY <1>4 DEF Remove, Running
  <2>f. failed' = failed
    BY <1>4 DEF Remove
  <2>1. CASE Find(t) = 0
    BY <2>1, <2>e, <2>r, <2>f, <1>s DEF Removes, OnceInv
  <2>2. CASE Find(t) # 0
    <3>1. PICK f \in 1 .. Last :
             /\ mem[f].tid = t /\ (~failed => Last' = Last - 1)
             /\ \A k \in 1 .. Last - 1 : mem'[k] = mem[IF k >= f THEN k + 1 ELSE k]
      BY <2>2, <2>e DEF Removes, Shrinks
    <3>2. \A k \in 1 .. Last - 1 : k < f => mem'[k] = mem[k]
      BY <2>l, <3>1
    <3>3. \A k \in 1 .. Last - 1 : k >= f => mem'[k] = mem[k + 1]
      BY <2>l, <3>1
    <3>4. ASSUME ~failed, NEW i \in 1 .. Last - 1
          PROVE  /\ mem'[i].tid \in Running \ {t}
                 /\ \A k \in 1 .. Last - 1 : mem'[k].tid = mem'[i].tid => k = i
      <4> DEFINE g(k) == IF k < f THEN k ELSE k + 1
      <4>1. \A k \in 1 .. Last - 1 : g(k) \in 1 .. Last /\ g(k) # f /\ mem'[k] = mem[g(k)]
        BY <2>l, <3>2, <3>3
      <4>2. \A k \in 1 .. Last - 1 : g(k) = g(i) => k = i
        BY <2>l
      <4> HIDE DEF g
      <4>3. /\ mem[g(i)].tid \in Running /\ mem[g(i)].tid # t
            /\ \A k \in 1 .. Last : mem[k].tid = mem[g(i)].tid => k = g(i)
        BY <3>1, <3>4, <4>1 DEF OnceInv
      <4> QED
        BY <4>1, <4>2, <4>3
    <3> QED
      BY <2>r, <2>f, <3>1, <3>4 DEF OnceInv
  <2> QED
    BY <2>1, <2>2
<1>5. ASSUME NEW j \in Joiners, JoinBegin(j) PROVE OnceInv'
  BY <1>5, <1>s DEF JoinBegin, OnceInv, Running
<1>6. ASSUME NEW j \in Joiners, JoinWake(j) PROVE OnceInv'
  BY <1>6, <1>s DEF JoinWake, OnceInv, Running
<1>7. ASSUME NEW j \in Joiners, JoinUnlock(j) PROVE OnceInv'
  <2>l. Last \in Nat /\ Len(mem) \in Nat /\ Last <= Len(mem)
    BY <1>l
  <2>r. Running' = Running
    BY <1>7 DEF JoinUnlock, Running, TaskLocs
  <2>k. /\ Last' = Last /\ failed' = failed
        /\ \A i \in 1 .. Last : mem'[i].tid = mem[i].tid
    <3>1. Keeps \/ UNCHANGED mem
      BY <1>7, <1>e
    <3>2. Last' = Last
      BY <1>7, <3>1 DEF JoinUnlock, Keeps, Last, Past
    <3> QED
      BY <1>7, <2>l, <3>1, <3>2 DEF JoinUnlock, Keeps
  <2> QED
    BY <2>l, <2>r, <2>k DEF OnceInv
<1>8. ASSUME NEW j \in Joiners, NEW t \in Tasks, JoinLock(j, t) PROVE OnceInv'
  <2>l. Last \in Nat /\ Len(mem) \in Nat /\ Last <= Len(mem)
    BY <1>l
  <2>r. Running' = Running
    BY <1>8 DEF JoinLock, Running, TaskLocs
  <2>k. /\ Last' = Last /\ failed' = failed
        /\ \A i \in 1 .. Last : mem'[i].tid = mem[i].tid
    <3>1. Keeps \/ UNCHANGED mem
      BY <1>8, <1>e DEF Locks
    <3>2. Last' = Last
      BY <1>8, <3>1 DEF JoinLock, Keeps, Last, Past
    <3> QED
      BY <1>8, <2>l, <3>1, <3>2 DEF JoinLock, Keeps
  <2> QED
    BY <2>l, <2>r, <2>k DEF OnceInv
<1>9. CASE CreateFails
  BY <1>9 DEF CreateFails, OnceInv
<1>10. CASE UNCHANGED vars
  BY <1>10, <1>s DEF vars, OnceInv, Running
<1> QED
  BY <1>1, <1>2, <1>3, <1>4, <1>5, <1>6, <1>7, <1>8, <1>9, <1>10 DEF Next, TaskStep, JoinStep, SpinAgain, Terminated

\* A step sets no event too early.
LEMMA EvStep ==
    ASSUME IInv, Next
    PROVE  EvInv'
<1>e. /\ CreateFails => Grows
      /\ \A t \in Tasks : Create(t) => Creates(t)
      /\ \A t \in Tasks : Remove(t) => Removes(t)
      /\ \A t \in Tasks : Signal(t) => Find(t) \in 1 .. Last /\ mem[Find(t)].ev = t
      /\ \A j \in Joiners, t \in Tasks : JoinLock(j, t) => Locks(j, t)
      /\ \A j \in Joiners : JoinUnlock(j) => Keeps \/ UNCHANGED mem
  BY Effects
<1>d. Tasks \cap Joiners = {} /\ null \notin Tasks \cup Joiners
  BY HandlesAssumption
<1>l. Last \in Nat /\ Len(mem) \in Nat /\ Last <= Len(mem) /\ (~failed => Last = ll_nThreads)
  BY LastFacts DEF IInv
<1>s. UNCHANGED <<mem, ll_nThreads>> => Last' = Last
  BY LastSame
<1> USE <1>d DEF IInv, TypeInv, EvInv, history
<1>1. ASSUME NEW t \in Tasks, Create(t) PROVE EvInv'
  BY <1>1 DEF Create
<1>2. ASSUME NEW t \in Tasks, Signal(t) PROVE EvInv'
  <2>1. evSet' = evSet \cup {t} /\ pc' = [pc EXCEPT ![t] = "spin"]
    BY <1>2, <1>e DEF Signal
  <2> QED
    BY <2>1
<1>3. ASSUME NEW t \in Tasks, Spin(t) PROVE EvInv'
  BY <1>3 DEF Spin
<1>4. ASSUME NEW t \in Tasks, Remove(t) PROVE EvInv'
  BY <1>4 DEF Remove
<1>5. ASSUME NEW j \in Joiners, JoinBegin(j) PROVE EvInv'
  BY <1>5 DEF JoinBegin
<1>6. ASSUME NEW j \in Joiners, JoinWake(j) PROVE EvInv'
  BY <1>6 DEF JoinWake
<1>7. ASSUME NEW j \in Joiners, JoinUnlock(j) PROVE EvInv'
  BY <1>7 DEF JoinUnlock
<1>8. ASSUME NEW j \in Joiners, NEW t \in Tasks, JoinLock(j, t) PROVE EvInv'
  BY <1>8 DEF JoinLock
<1>9. CASE CreateFails
  BY <1>9 DEF CreateFails
<1>10. CASE UNCHANGED vars
  BY <1>10 DEF vars
<1> QED
  BY <1>1, <1>2, <1>3, <1>4, <1>5, <1>6, <1>7, <1>8, <1>9, <1>10 DEF Next, TaskStep, JoinStep, SpinAgain, Terminated

\* A step preserves the pointers of undisturbed joiners.
LEMMA PointerStep ==
    ASSUME IInv, Next
    PROVE  JoinInv'
<1>e. /\ CreateFails => Grows
      /\ \A t \in Tasks : Create(t) => Creates(t)
      /\ \A t \in Tasks : Remove(t) => Removes(t)
      /\ \A t \in Tasks : Signal(t) => Find(t) \in 1 .. Last /\ mem[Find(t)].ev = t
      /\ \A j \in Joiners, t \in Tasks : JoinLock(j, t) => Locks(j, t)
      /\ \A j \in Joiners : JoinUnlock(j) => Keeps \/ UNCHANGED mem
  BY Effects
<1>d. Tasks \cap Joiners = {} /\ null \notin Tasks \cup Joiners
  BY HandlesAssumption
<1>l. Last \in Nat /\ Len(mem) \in Nat /\ Last <= Len(mem) /\ (~failed => Last = ll_nThreads)
  BY LastFacts DEF IInv
<1>s. UNCHANGED <<mem, ll_nThreads>> => Last' = Last
  BY LastSame
<1> USE <1>d DEF IInv, TypeInv, history
<1>1. ASSUME NEW t \in Tasks, Create(t) PROVE JoinInv'
  <2>l. Last \in Nat /\ Len(mem) \in Nat /\ Last <= Len(mem)
    BY <1>l
  <2>1. Last' \in Nat /\ Last <= Last' /\ \A i \in 1 .. Last : mem'[i] = mem[i]
    BY <1>1, <1>e DEF Creates, Grows
  <2>2. /\ \A i \in Joiners : pc'[i] = pc[i]
        /\ UNCHANGED <<ptr, target, waitOn, evSet>>
    BY <1>1 DEF Create
  <2>3. \A u \in Tasks : pc[u] # "none" => pc'[u] = pc[u]
    BY <1>1 DEF Create
  <2>4. \A i \in Joiners \ moved' : i \notin moved /\ (Working(i) => UNCHANGED block)
    <3>1. \A i \in Joiners \ moved : Working(i) => ptr[i].idx \in 1 .. Len(mem)
      BY <2>l DEF JoinInv, Pointer
    <3>2. \A i \in Joiners : Working(i) /\ ptr[i].idx \in 1 .. Len(mem) => i \in Users(1 .. Len(mem))
      BY DEF Users, Working
    <3>3. UNCHANGED <<block, moved>> \/ moved' = moved \cup Users(1 .. Len(mem))
      BY <1>1 DEF Create, MayMove
    <3> QED
      BY <3>1, <3>2, <3>3
  <2>5. \A i \in Joiners \ moved : Working(i) =>
           ptr[i].idx \in 1 .. Last /\ ptr[i].block = block /\ mem[ptr[i].idx].tid = target[i]
    BY <2>l DEF JoinInv, Pointer
  <2>6. ASSUME NEW i \in Joiners \ moved' PROVE
           Working(i) => /\ ptr[i].block = block' /\ ptr[i].idx <= Last'
                         /\ mem'[ptr[i].idx].tid = target[i]
    BY <2>l, <2>1, <2>4, <2>5, <2>6
  <2> QED
    BY <2>2, <2>3, <2>4, <2>6 DEF JoinInv, Working
<1>2. ASSUME NEW t \in Tasks, Signal(t) PROVE JoinInv'
  BY <1>2, <1>s DEF Signal, JoinInv, Working
<1>3. ASSUME NEW t \in Tasks, Spin(t) PROVE JoinInv'
  BY <1>3, <1>s DEF Spin, JoinInv, Working
<1>4. ASSUME NEW t \in Tasks, Remove(t) PROVE JoinInv'
  <2>l. Last \in Nat /\ Len(mem) \in Nat /\ Last <= Len(mem)
    BY <1>l
  <2>e. Removes(t)
    BY <1>4, <1>e
  <2>2. /\ \A i \in Joiners : pc'[i] = pc[i]
        /\ UNCHANGED <<block, ptr, target, waitOn, evSet>>
    BY <1>4 DEF Remove
  <2>3. \A u \in Tasks : pc[u] \notin {"none", "dg"} => pc'[u] \notin {"none", "dg"}
    BY <1>4 DEF Remove
  <2>5. \A i \in Joiners \ moved : Working(i) =>
           ptr[i].idx \in 1 .. Last /\ ptr[i].block = block /\ mem[ptr[i].idx].tid = target[i]
    BY <2>l DEF JoinInv, Pointer
  <2>f. Find(t) \in Nat
    BY Found
  <2>4. \A i \in Joiners \ moved' : i \notin moved /\ (Working(i) => ptr[i].idx < Find(t))
    BY <1>4, <2>l, <2>5, <2>f DEF Remove, Users, Working
  <2>6. ASSUME NEW i \in Joiners \ moved', Working(i) PROVE
           ptr[i].idx <= Last' /\ mem'[ptr[i].idx].tid = target[i]
    <3>1. ptr[i].idx \in 1 .. Last /\ ptr[i].idx < Find(t) /\ mem[ptr[i].idx].tid = target[i]
      BY <2>4, <2>5, <2>6
    <3>2. Find(t) # 0
      BY <3>1
    <3>3. /\ Find(t) \in 1 .. Last /\ Last' \in Nat /\ Last - 1 <= Last'
          /\ mem'[ptr[i].idx] = mem[ptr[i].idx]
      <4>1. Find(t) \in 1 .. Last /\ Shrinks(Find(t))
        BY <2>e, <3>2 DEF Removes
      <4>2. ptr[i].idx \in 1 .. Last - 1 /\ ~(ptr[i].idx >= Find(t))
        BY <2>l, <3>1, <4>1
      <4> QED
        BY <4>1, <4>2 DEF Shrinks
    <3> QED
      BY <2>l, <3>1, <3>3
  <2> QED
    BY <2>2, <2>3, <2>4, <2>5, <2>6 DEF JoinInv, Working
<1>5. ASSUME NEW j \in Joiners, JoinBegin(j) PROVE JoinInv'
  BY <1>5, <1>s DEF JoinBegin, Good, SlotInv, Pointer, JoinInv, Working
<1>6. ASSUME NEW j \in Joiners, JoinWake(j) PROVE JoinInv'
  BY <1>6, <1>s DEF JoinWake, EventSet, JoinInv, Working
<1>7. ASSUME NEW j \in Joiners, JoinUnlock(j) PROVE JoinInv'
  <2>l. Last \in Nat /\ Len(mem) \in Nat /\ Last <= Len(mem)
    BY <1>l
  <2>o. \A i \in Joiners \ {j} : /\ pc'[i] = pc[i] /\ ptr'[i] = ptr[i]
                               /\ target'[i] = target[i] /\ waitOn'[i] = waitOn[i]
    BY <1>7 DEF JoinUnlock
  <2>p. \A u \in Tasks : pc'[u] = pc[u]
    BY <1>7 DEF JoinUnlock
  <2>u. UNCHANGED <<block, evSet, moved>>
    BY <1>7 DEF JoinUnlock
  <2>k. /\ Last' = Last /\ failed' = failed
        /\ \A i \in 1 .. Last : mem'[i].tid = mem[i].tid
    <3>1. Keeps \/ UNCHANGED mem
      BY <1>7, <1>e
    <3>2. Last' = Last
      BY <1>7, <3>1 DEF JoinUnlock, Keeps, Last, Past
    <3> QED
      BY <1>7, <2>l, <3>1, <3>2 DEF JoinUnlock, Keeps
  <2>5. \A i \in Joiners \ moved : Working(i) =>
           ptr[i].idx \in 1 .. Last /\ ptr[i].block = block /\ mem[ptr[i].idx].tid = target[i]
    BY <2>l DEF JoinInv, Pointer
  <2>6. /\ pc[j] = "unlock" /\ pc'[j] \in {"done", "wild"} /\ target'[j] = target[j]
    BY <1>7 DEF JoinUnlock
  <2>7. j \notin moved => target[j] \in Tasks /\ pc[target[j]] \notin {"none", "dg"}
    BY <2>6 DEF JoinInv, EvInv
  <2> HIDE DEF IInv, TypeInv
  <2>8. JoinInv
    BY DEF IInv
  <2>9. ASSUME NEW i \in Joiners \ moved, i # j
        PROVE  /\ Working(i) => mem'[ptr[i].idx].tid = target[i]
    BY <2>k, <2>5, <2>9
  <2>10. \A i \in Joiners \ moved : target[i] \in Tasks => pc'[target[i]] = pc[target[i]]
    BY <2>p
  <2> QED
    BY <2>o, <2>p, <2>u, <2>k, <2>5, <2>6, <2>7, <2>8, <2>9, <2>10 DEF JoinInv, Working
<1>8. ASSUME NEW j \in Joiners, NEW t \in Tasks, JoinLock(j, t) PROVE JoinInv'
  <2>l. Last \in Nat /\ Len(mem) \in Nat /\ Last <= Len(mem)
    BY <1>l
  <2>o. \A i \in Joiners \ {j} : /\ pc'[i] = pc[i] /\ ptr'[i] = ptr[i]
                               /\ target'[i] = target[i] /\ waitOn'[i] = waitOn[i]
    BY <1>8 DEF JoinLock
  <2>p. \A u \in Tasks : pc'[u] = pc[u]
    BY <1>8 DEF JoinLock
  <2>u. UNCHANGED <<block, evSet, moved>>
    BY <1>8 DEF JoinLock
  <2>k. /\ Last' = Last /\ failed' = failed
        /\ \A i \in 1 .. Last : mem'[i].tid = mem[i].tid
    <3>1. Keeps \/ UNCHANGED mem
      BY <1>8, <1>e DEF Locks
    <3>2. Last' = Last
      BY <1>8, <3>1 DEF JoinLock, Keeps, Last, Past
    <3> QED
      BY <1>8, <2>l, <3>1, <3>2 DEF JoinLock, Keeps
  <2>5. \A i \in Joiners \ moved : Working(i) =>
           ptr[i].idx \in 1 .. Last /\ ptr[i].block = block /\ mem[ptr[i].idx].tid = target[i]
    BY <2>l DEF JoinInv, Pointer
  <2>6. target'[j] = t /\ pc[t] # "none"
    BY <1>8 DEF JoinLock
  <2>7. \/ pc'[j] = "wild"
        \/ /\ pc'[j] = "done" /\ pc[t] # "dg"
        \/ /\ pc'[j] = "locked" /\ ptr'[j].block = block /\ ptr'[j].idx \in 1 .. Last
           /\ mem[ptr'[j].idx].tid = t
    <3>1. Locks(j, t)
      BY <1>8, <1>e
    <3>2. CASE Find(t) = 0
      BY <3>1, <3>2 DEF Locks, LiveInv, Running
    <3>3. CASE Find(t) # 0
      BY <3>1, <3>3 DEF Locks, PtrTo
    <3> QED
      BY <3>2, <3>3
  <2>8. JoinInv
    OBVIOUS
  <2> HIDE DEF IInv, TypeInv
  <2>9. ASSUME NEW i \in Joiners \ moved, i # j
        PROVE  /\ Working(i) => mem'[ptr[i].idx].tid = target[i]
    BY <2>k, <2>5, <2>9
  <2>10. \A i \in Joiners \ moved : target[i] \in Tasks => pc'[target[i]] = pc[target[i]]
    BY <2>p
  <2>11. ASSUME NEW i \in Joiners \ moved, i # j
         PROVE  /\ Working(i)' => /\ ptr'[i].block = block' /\ ptr'[i].idx <= Last'
                                  /\ mem'[ptr'[i].idx].tid = target'[i]
                /\ pc'[i] = "wait" => waitOn'[i] = target'[i]
                /\ pc'[i] = "unlock" => target'[i] \in evSet'
                /\ pc'[i] = "done" => target'[i] \in Tasks /\ pc'[target'[i]] \notin {"none", "dg"}
    BY <2>o, <2>u, <2>k, <2>5, <2>8, <2>9, <2>10, <2>11 DEF JoinInv, Working
  <2>12. /\ Working(j)' => /\ ptr'[j].block = block' /\ ptr'[j].idx <= Last'
                           /\ mem'[ptr'[j].idx].tid = target'[j]
         /\ pc'[j] # "wait" /\ pc'[j] # "unlock"
         /\ pc'[j] = "done" => target'[j] \in Tasks /\ pc'[target'[j]] \notin {"none", "dg"}
    BY <2>l, <2>k, <2>p, <2>u, <2>6, <2>7 DEF Working
  <2> QED
    BY <2>u, <2>11, <2>12 DEF JoinInv
<1>9. CASE CreateFails
  <2>l. Last \in Nat /\ Len(mem) \in Nat /\ Last <= Len(mem)
    BY <1>l
  <2>1. Last' \in Nat /\ Last <= Last' /\ \A i \in 1 .. Last : mem'[i] = mem[i]
    BY <1>9, <1>e DEF Grows
  <2>2. /\ \A i \in Joiners : pc'[i] = pc[i]
        /\ UNCHANGED <<ptr, target, waitOn, evSet>>
    BY <1>9 DEF CreateFails
  <2>3. \A u \in Tasks : pc[u] # "none" => pc'[u] = pc[u]
    BY <1>9 DEF CreateFails
  <2>4. \A i \in Joiners \ moved' : i \notin moved /\ (Working(i) => UNCHANGED block)
    <3>1. \A i \in Joiners \ moved : Working(i) => ptr[i].idx \in 1 .. Len(mem)
      BY <2>l DEF JoinInv, Pointer
    <3>2. \A i \in Joiners : Working(i) /\ ptr[i].idx \in 1 .. Len(mem) => i \in Users(1 .. Len(mem))
      BY DEF Users, Working
    <3>3. UNCHANGED <<block, moved>> \/ moved' = moved \cup Users(1 .. Len(mem))
      BY <1>9 DEF CreateFails, MayMove
    <3> QED
      BY <3>1, <3>2, <3>3
  <2>5. \A i \in Joiners \ moved : Working(i) =>
           ptr[i].idx \in 1 .. Last /\ ptr[i].block = block /\ mem[ptr[i].idx].tid = target[i]
    BY <2>l DEF JoinInv, Pointer
  <2>6. ASSUME NEW i \in Joiners \ moved' PROVE
           Working(i) => /\ ptr[i].block = block' /\ ptr[i].idx <= Last'
                         /\ mem'[ptr[i].idx].tid = target[i]
    BY <2>l, <2>1, <2>4, <2>5, <2>6
  <2> QED
    BY <2>2, <2>3, <2>4, <2>6 DEF JoinInv, Working
<1>10. CASE UNCHANGED vars
  BY <1>10, <1>s DEF vars, JoinInv, Working
<1> QED
  BY <1>1, <1>2, <1>3, <1>4, <1>5, <1>6, <1>7, <1>8, <1>9, <1>10 DEF Next, TaskStep, JoinStep, SpinAgain, Terminated

-----------------------------------------------------------------------------
(* The invariant holds, and what follows from it *)

\* At first there is no slot and no task.
LEMMA InitInv == Init => IInv
<1> SUFFICES ASSUME Init PROVE IInv
  OBVIOUS
<1> USE HandlesAssumption DEF Init
<1>1. mem \in Seq(Slot) /\ Len(mem) = 0 /\ ll_nThreads = 0 /\ Last = 0
  BY DEF Last, Past
<1>2. NoPtr \in Pointer
  BY DEF NoPtr, Pointer
<1>3. /\ pc \in [Tasks \cup Joiners -> TaskLocs \cup JoinLocs]
      /\ \A t \in Tasks : pc[t] = "none" /\ pc[t] \in TaskLocs
      /\ \A j \in Joiners : pc[j] = "idle" /\ pc[j] \in JoinLocs
  BY DEF TaskLocs, JoinLocs
<1>4. TypeInv
  <2>1. td \in [Tasks -> Pointer] /\ ptr \in [Joiners -> Pointer]
    BY <1>2
  <2>2. /\ target \in [Joiners -> Tasks \cup {null}] /\ waitOn \in [Joiners -> Tasks \cup {null}]
        /\ moved \subseteq Tasks \cup Joiners /\ failed \in BOOLEAN /\ evSet \subseteq Tasks
    OBVIOUS
  <2>3. block \in Nat
    OBVIOUS
  <2> HIDE DEF Init
  <2> QED
    BY <1>1, <1>3, <2>1, <2>2, <2>3 DEF TypeInv
<1>5. CountInv /\ SlotInv /\ LiveInv /\ OnceInv
  BY <1>1, <1>3 DEF CountInv, SlotInv, LiveInv, OnceInv, Running
<1>6. EvInv /\ JoinInv
  BY <1>3 DEF EvInv, JoinInv, Working
<1> QED
  BY <1>4, <1>5, <1>6 DEF IInv

\* IInv is an invariant of the specification.
LEMMA Invariance == Spec => []IInv
<1>1. ASSUME IInv, [Next]_vars PROVE IInv'
  <2>1. CASE Next
    <3>1. TypeInv' /\ CountInv' /\ SlotInv' /\ LiveInv'
      BY <1>1, <2>1, TypeStep, CountStep, SlotStep, LiveStep
    <3>2. OnceInv' /\ EvInv' /\ JoinInv'
      BY <1>1, <2>1, OnceStep, EvStep, PointerStep
    <3> QED
      BY <3>1, <3>2 DEF IInv
  <2>2. CASE UNCHANGED vars
    <3>0. Last' = Last
      BY <2>2, LastSame DEF vars
    <3>1. TypeInv' /\ CountInv' /\ SlotInv' /\ LiveInv'
      BY <1>1, <2>2, <3>0 DEF vars, history, IInv, TypeInv, CountInv, SlotInv, LiveInv, Running
    <3>2. OnceInv' /\ EvInv' /\ JoinInv'
      BY <1>1, <2>2, <3>0 DEF vars, history, IInv, OnceInv, EvInv, JoinInv, Running, Working
    <3> QED
      BY <3>1, <3>2 DEF IInv
  <2> QED
    BY <1>1, <2>1, <2>2
<1> QED
  BY <1>1, InitInv, PTL DEF Spec

\* ll_nThreads counts no slot that is not there, but for one after a create whose realloc
\* failed; an event handle is always that of a task, and the subscriber count stays in
\* its width.
THEOREM TypeCorrect == Spec => []TypeOK
<1>1. ASSUME IInv PROVE TypeOK
  <2>1. ll_nThreads \in 0 .. Len(mem) + (IF failed THEN 1 ELSE 0)
    <3>1. Len(mem) \in Nat
      BY <1>1 DEF IInv, TypeInv
    <3> QED
      BY <1>1, <3>1 DEF IInv, CountInv
  <2> QED
    BY <1>1, <2>1 DEF IInv, TypeInv, TypeOK
<1> QED
  BY <1>1, Invariance, PTL

\* joinLowLevelThread returns only after the delegate of its target has returned, unless
\* a removal or a realloc made its pointer stale; failed creates do not matter.
THEOREM JoinWaits == Spec => []UndisturbedJoin
<1>1. IInv => UndisturbedJoin
  BY DEF IInv, JoinInv, UndisturbedJoin
<1> QED
  BY <1>1, Invariance, PTL

\* From create to remove a task has exactly one slot with its own event, and there are
\* no other slots, unless a create failed: memmove and realloc lose and duplicate none.
THEOREM OneSlot == Spec => []SlotPerTask
<1>1. ASSUME IInv, ~failed PROVE SlotPerTask
  <2>0. Last = ll_nThreads /\ Last \in Nat /\ Len(mem) \in Nat /\ Last <= Len(mem)
    BY <1>1, LastFacts DEF IInv
  <2>1. ASSUME NEW t \in Tasks
        PROVE  Cardinality({i \in 1 .. ll_nThreads : mem[i].tid = t})
                  = IF pc[t] \in {"none", "gone"} THEN 0 ELSE 1
    <3> DEFINE S == {i \in 1 .. ll_nThreads : mem[i].tid = t}
    <3>1. pc[t] \in {"none", "gone"} \/ t \in Running
      BY <1>1 DEF IInv, TypeInv, TaskLocs, Running
    <3>2. CASE pc[t] \in {"none", "gone"}
      <4>1. S = {}
        BY <1>1, <2>0, <3>2 DEF IInv, OnceInv, Running
      <4> QED
        BY <3>2, <4>1, FS_EmptySet
    <3>3. CASE t \in Running
      <4>1. PICK i \in 1 .. ll_nThreads : mem[i].tid = t
        BY <1>1, <2>0, <3>3 DEF IInv, LiveInv
      <4>2. S = {i}
        BY <1>1, <2>0, <4>1 DEF IInv, OnceInv
      <4>3. Cardinality(S) = 1
        BY <4>2, FS_Singleton
      <4> QED
        BY <3>3, <4>3 DEF Running
    <3> QED
      BY <3>1, <3>2, <3>3
  <2>2. ASSUME NEW i \in 1 .. ll_nThreads PROVE mem[i].tid # null /\ mem[i].ev = mem[i].tid
    <3>1. i \in 1 .. Len(mem)
      BY <2>0
    <3> QED
      BY <1>1, <2>0, <3>1, HandlesAssumption DEF IInv, SlotInv, OnceInv, Running
  <2> QED
    BY <2>1, <2>2 DEF SlotPerTask
<1>2. IInv => SlotPerTask
  BY <1>1 DEF SlotPerTask
<1> QED
  BY <1>2, Invariance, PTL
=============================================================================
