---------------------------- MODULE EventProofs ----------------------------
(***************************************************************************)
(* Theorems about the event, for any set of waiters, durations, width of   *)
(* the tick counter and boot tick, whether the counter wraps or not and    *)
(* whether the collector suspends tasks or not.                            *)
(***************************************************************************)
EXTENDS Event, TLAPS

\* A wait in progress that can see the bit, or was released by it, has been signalled.
SeenInv == \A w \in Waiters :
    /\ pc[w] # "idle" /\ bit => seen[w]
    /\ pc[w] = "granted" => seen[w]
    /\ pc[w] = "idle" /\ result[w] => seen[w]

\* The end of a timed wait is at least as far ahead as the ticks it still owes: a tick
\* brings both nearer, and a wrap of the counter only puts the end further away.
DueInv == \A w \in Waiters :
    /\ pc[w] # "idle" /\ frame[w].timed /\ due[w] # 0 => now + due[w] <= frame[w].endTime
    /\ pc[w] = "idle" /\ ~result[w] => due[w] = 0

\* The inductive invariant.
IInv == TypeOK /\ SeenInv /\ DueInv

-----------------------------------------------------------------------------
\* The remainder of a division by the counter's range is a value of the counter.
LEMMA Modulo ==
    ASSUME NEW i \in Int
    PROVE  i % TickMod \in 0 .. TickMod - 1
<1>1. TickMod \in Nat \ {0}
  BY EventAssumption
<1> QED
  BY <1>1

\* One tick makes the counter at most one greater.
LEMMA OneTick ==
    ASSUME NEW i \in 0 .. TickMod - 1
    PROVE  (i + 1) % TickMod \in 0 .. TickMod - 1 /\ (i + 1) % TickMod <= i + 1
<1>1. TickMod \in Nat \ {0}
  BY EventAssumption
<1>2. (i + 1) % TickMod \in 0 .. TickMod - 1
  BY Modulo
<1>3. CASE i + 1 < TickMod
  <2>1. (i + 1) % TickMod = i + 1
    BY <1>1, <1>3
  <2> QED
    BY <1>2, <2>1
<1>4. CASE i + 1 = TickMod
  BY <1>1, <1>2, <1>4
<1> QED
  BY <1>1, <1>3, <1>4

\* At first nobody waits and the bit is clear.
LEMMA InitInv == Init => IInv
<1> SUFFICES ASSUME Init PROVE IInv
  OBVIOUS
<1> USE DEF Init, NoFrame
<1>1. NoFrame \in Frame
  BY EventAssumption DEF Frame, MAX_DELAY
<1>2. {clearOnExit, bit, fault, manual, wasReset} \subseteq BOOLEAN
  BY DEF ClearOnExit
<1>3. now \in 0 .. TickMod - 1 /\ pc \in [Waiters -> Locs] /\ due \in [Waiters -> Nat]
  BY EventAssumption DEF Locs
<1>4. result \in [Waiters -> BOOLEAN] /\ seen \in [Waiters -> BOOLEAN]
  OBVIOUS
<1>5. frame \in [Waiters -> Frame]
  <2> HIDE DEF NoFrame
  <2> QED
    BY <1>1
<1> QED
  BY <1>2, <1>3, <1>4, <1>5 DEF IInv, TypeOK, SeenInv, DueInv

\* A step preserves the types.
LEMMA TypeStep ==
    ASSUME IInv, Next
    PROVE  TypeOK'
<1>n. NoFrame \in Frame
  BY EventAssumption DEF NoFrame, Frame, MAX_DELAY
<1> USE DEF IInv, TypeOK, Locs, Goto, history, fixed
<1>1. CASE Set
  <2>1. /\ {clearOnExit', bit', fault', manual', wasReset'} \subseteq BOOLEAN
        /\ now' \in 0 .. TickMod - 1
    BY <1>1 DEF Set, Blocked
  <2>2. pc' \in [Waiters -> Locs] /\ due' \in [Waiters -> Nat]
    BY <1>1 DEF Set, Blocked
  <2>3. result' \in [Waiters -> BOOLEAN] /\ seen' \in [Waiters -> BOOLEAN]
    BY <1>1 DEF Set, Blocked
  <2>4. frame' \in [Waiters -> Frame]
    BY <1>1, <1>n DEF Set
  <2> QED
    BY <2>1, <2>2, <2>3, <2>4
<1>2. CASE Reset
  <2>1. /\ {clearOnExit', bit', fault', manual', wasReset'} \subseteq BOOLEAN
        /\ now' \in 0 .. TickMod - 1
    BY <1>2 DEF Reset
  <2>2. pc' \in [Waiters -> Locs] /\ due' \in [Waiters -> Nat]
    BY <1>2 DEF Reset
  <2>3. result' \in [Waiters -> BOOLEAN] /\ seen' \in [Waiters -> BOOLEAN]
    BY <1>2 DEF Reset
  <2>4. frame' \in [Waiters -> Frame]
    BY <1>2, <1>n DEF Reset
  <2> QED
    BY <2>1, <2>2, <2>3, <2>4
<1>3. CASE Tick
  <2>1. /\ {clearOnExit', bit', fault', manual', wasReset'} \subseteq BOOLEAN
        /\ now' \in 0 .. TickMod - 1
    BY <1>3, OneTick DEF Tick
  <2>2. pc' \in [Waiters -> Locs] /\ due' \in [Waiters -> Nat]
    BY <1>3 DEF Tick
  <2>3. result' \in [Waiters -> BOOLEAN] /\ seen' \in [Waiters -> BOOLEAN]
    BY <1>3 DEF Tick
  <2>4. frame' \in [Waiters -> Frame]
    <3>1. ASSUME NEW w \in Waiters, frame[w].left # 0
          PROVE  [frame[w] EXCEPT !.left = @ - 1] \in Frame
      BY <3>1, EventAssumption DEF Frame, MAX_DELAY
    <3> QED
      BY <1>3, <3>1 DEF Tick
  <2> QED
    BY <2>1, <2>2, <2>3, <2>4
<1>4. ASSUME NEW w \in Waiters, WaitForever(w) PROVE TypeOK'
  <2>1. /\ {clearOnExit', bit', fault', manual', wasReset'} \subseteq BOOLEAN
        /\ now' \in 0 .. TickMod - 1
    BY <1>4 DEF WaitForever, Begin
  <2>2. pc' \in [Waiters -> Locs] /\ due' \in [Waiters -> Nat]
    BY <1>4 DEF WaitForever, Begin
  <2>3. result' \in [Waiters -> BOOLEAN] /\ seen' \in [Waiters -> BOOLEAN]
    BY <1>4 DEF WaitForever, Begin
  <2>4. frame' \in [Waiters -> Frame]
    BY <1>4, <1>n DEF WaitForever, Begin
  <2> QED
    BY <2>1, <2>2, <2>3, <2>4
<1>5. ASSUME NEW w \in Waiters, NEW d \in Durations, WaitFor(w, d) PROVE TypeOK'
  <2>0. toTicks(d) \in Nat
    BY EventAssumption DEF toTicks
  <2> HIDE DEF Frame
  <2> USE <2>0
  <2>1. /\ {clearOnExit', bit', fault', manual', wasReset'} \subseteq BOOLEAN
        /\ now' \in 0 .. TickMod - 1
    BY <1>5 DEF WaitFor, Begin
  <2>2. pc' \in [Waiters -> Locs] /\ due' \in [Waiters -> Nat]
    BY <1>5 DEF WaitFor, Begin
  <2>3. result' \in [Waiters -> BOOLEAN] /\ seen' \in [Waiters -> BOOLEAN]
    BY <1>5 DEF WaitFor, Begin
  <2>4. frame' \in [Waiters -> Frame]
    <3>1. [timed |-> TRUE, startTime |-> now, endTime |-> now + toTicks(d), left |-> 0] \in Frame
      BY EventAssumption DEF Frame, MAX_DELAY
    <3> QED
      BY <1>5, <3>1 DEF WaitFor, Begin
  <2> QED
    BY <2>1, <2>2, <2>3, <2>4
<1>6. ASSUME NEW w \in Waiters, NEW d \in Durations, WaitForNoTick(w, d) PROVE TypeOK'
  <2>1. /\ {clearOnExit', bit', fault', manual', wasReset'} \subseteq BOOLEAN
        /\ now' \in 0 .. TickMod - 1
    BY <1>6 DEF WaitForNoTick
  <2>2. pc' \in [Waiters -> Locs] /\ due' \in [Waiters -> Nat]
    BY <1>6 DEF WaitForNoTick
  <2>3. result' \in [Waiters -> BOOLEAN] /\ seen' \in [Waiters -> BOOLEAN]
    BY <1>6 DEF WaitForNoTick
  <2>4. frame' \in [Waiters -> Frame]
    BY <1>6, <1>n DEF WaitForNoTick
  <2> QED
    BY <2>1, <2>2, <2>3, <2>4
<1>7. ASSUME NEW w \in Waiters, Call(w) PROVE TypeOK'
  <2>1. /\ {clearOnExit', bit', fault', manual', wasReset'} \subseteq BOOLEAN
        /\ now' \in 0 .. TickMod - 1
    BY <1>7 DEF Call, Take, Return
  <2>2. pc' \in [Waiters -> Locs] /\ due' \in [Waiters -> Nat]
    BY <1>7 DEF Call, Take, Return
  <2>3. result' \in [Waiters -> BOOLEAN] /\ seen' \in [Waiters -> BOOLEAN]
    BY <1>7 DEF Call, Take, Return
  <2>4. frame' \in [Waiters -> Frame]
    <3>1. TicksToWait(frame[w]) \in 0 .. MAX_DELAY
      <4>1. frame[w] \in Frame
        OBVIOUS
      <4>2. (frame[w].endTime - frame[w].startTime) % TickMod \in 0 .. TickMod - 1
        BY <4>1, Modulo DEF Frame
      <4>3. MAX_DELAY \in 0 .. MAX_DELAY
        BY EventAssumption DEF MAX_DELAY
      <4> QED
        BY <4>2, <4>3 DEF TicksToWait, MAX_DELAY
    <3>2. [frame[w] EXCEPT !.left = TicksToWait(frame[w])] \in Frame
      BY <3>1 DEF Frame
    <3> QED
      BY <1>7, <1>n, <3>2 DEF Call, Take, Return
  <2> QED
    BY <2>1, <2>2, <2>3, <2>4
<1>8. ASSUME NEW w \in Waiters, Granted(w) PROVE TypeOK'
  <2>1. /\ {clearOnExit', bit', fault', manual', wasReset'} \subseteq BOOLEAN
        /\ now' \in 0 .. TickMod - 1
    BY <1>8 DEF Granted, Return
  <2>2. pc' \in [Waiters -> Locs] /\ due' \in [Waiters -> Nat]
    BY <1>8 DEF Granted, Return
  <2>3. result' \in [Waiters -> BOOLEAN] /\ seen' \in [Waiters -> BOOLEAN]
    BY <1>8 DEF Granted, Return
  <2>4. frame' \in [Waiters -> Frame]
    BY <1>8, <1>n DEF Granted, Return
  <2> QED
    BY <2>1, <2>2, <2>3, <2>4
<1>9. ASSUME NEW w \in Waiters, Reread(w) PROVE TypeOK'
  <2>1. /\ {clearOnExit', bit', fault', manual', wasReset'} \subseteq BOOLEAN
        /\ now' \in 0 .. TickMod - 1
    BY <1>9 DEF Reread, Take, Return
  <2>2. pc' \in [Waiters -> Locs] /\ due' \in [Waiters -> Nat]
    BY <1>9 DEF Reread, Take, Return
  <2>3. result' \in [Waiters -> BOOLEAN] /\ seen' \in [Waiters -> BOOLEAN]
    BY <1>9 DEF Reread, Take, Return
  <2>4. frame' \in [Waiters -> Frame]
    BY <1>9, <1>n DEF Reread, Take, Return
  <2> QED
    BY <2>1, <2>2, <2>3, <2>4
<1>10. ASSUME NEW w \in Waiters, Again(w) PROVE TypeOK'
  <2>1. /\ {clearOnExit', bit', fault', manual', wasReset'} \subseteq BOOLEAN
        /\ now' \in 0 .. TickMod - 1
    BY <1>10 DEF Again, Return, Repeat
  <2>2. pc' \in [Waiters -> Locs] /\ due' \in [Waiters -> Nat]
    BY <1>10 DEF Again, Return, Repeat
  <2>3. result' \in [Waiters -> BOOLEAN] /\ seen' \in [Waiters -> BOOLEAN]
    BY <1>10 DEF Again, Return, Repeat
  <2>4. frame' \in [Waiters -> Frame]
    <3>1. now \in 0 .. TickMod - 1 /\ 0 \in 0 .. TickMod - 1
      BY EventAssumption
    <3>2. [frame[w] EXCEPT !.startTime = IF frame[w].timed THEN now ELSE 0, !.left = 0] \in Frame
      BY <3>1 DEF Frame, MAX_DELAY
    <3> QED
      BY <1>10, <1>n, <3>2 DEF Again, Return
  <2> QED
    BY <2>1, <2>2, <2>3, <2>4
<1>11. ASSUME NEW w \in Waiters, Timeout(w) PROVE TypeOK'
  <2>1. /\ {clearOnExit', bit', fault', manual', wasReset'} \subseteq BOOLEAN
        /\ now' \in 0 .. TickMod - 1
    BY <1>11 DEF Timeout, Unblock
  <2>2. pc' \in [Waiters -> Locs] /\ due' \in [Waiters -> Nat]
    BY <1>11 DEF Timeout, Unblock
  <2>3. result' \in [Waiters -> BOOLEAN] /\ seen' \in [Waiters -> BOOLEAN]
    BY <1>11 DEF Timeout, Unblock
  <2>4. frame' \in [Waiters -> Frame]
    <3>1. [frame[w] EXCEPT !.left = 0] \in Frame
      BY EventAssumption DEF Frame, MAX_DELAY
    <3> QED
      BY <1>11, <3>1 DEF Timeout, Unblock
  <2> QED
    BY <2>1, <2>2, <2>3, <2>4
<1>12. ASSUME NEW w \in Waiters, Suspend(w) PROVE TypeOK'
  <2>1. /\ {clearOnExit', bit', fault', manual', wasReset'} \subseteq BOOLEAN
        /\ now' \in 0 .. TickMod - 1
    BY <1>12 DEF Suspend, Unblock
  <2>2. pc' \in [Waiters -> Locs] /\ due' \in [Waiters -> Nat]
    BY <1>12 DEF Suspend, Unblock
  <2>3. result' \in [Waiters -> BOOLEAN] /\ seen' \in [Waiters -> BOOLEAN]
    BY <1>12 DEF Suspend, Unblock
  <2>4. frame' \in [Waiters -> Frame]
    <3>1. [frame[w] EXCEPT !.left = 0] \in Frame
      BY EventAssumption DEF Frame, MAX_DELAY
    <3> QED
      BY <1>12, <3>1 DEF Suspend, Unblock
  <2> QED
    BY <2>1, <2>2, <2>3, <2>4
<1>13. ASSUME NEW w \in Waiters, Resume(w) PROVE TypeOK'
  <2>1. /\ {clearOnExit', bit', fault', manual', wasReset'} \subseteq BOOLEAN
        /\ now' \in 0 .. TickMod - 1
    BY <1>13 DEF Resume, Unblock
  <2>2. pc' \in [Waiters -> Locs] /\ due' \in [Waiters -> Nat]
    BY <1>13 DEF Resume, Unblock
  <2>3. result' \in [Waiters -> BOOLEAN] /\ seen' \in [Waiters -> BOOLEAN]
    BY <1>13 DEF Resume, Unblock
  <2>4. frame' \in [Waiters -> Frame]
    <3>1. [frame[w] EXCEPT !.left = 0] \in Frame
      BY EventAssumption DEF Frame, MAX_DELAY
    <3> QED
      BY <1>13, <3>1 DEF Resume, Unblock
  <2> QED
    BY <2>1, <2>2, <2>3, <2>4
<1> QED
  BY <1>1, <1>2, <1>3, <1>4, <1>5, <1>6, <1>7, <1>8, <1>9, <1>10, <1>11, <1>12, <1>13 DEF Next, WaitStep, KernelStep

\* A step preserves what is known of signals.
LEMMA SeenStep ==
    ASSUME IInv, Next
    PROVE  SeenInv'
<1> USE DEF IInv, TypeOK, SeenInv, Goto, history, fixed
<1>1. CASE Set
  BY <1>1 DEF Set, Blocked
<1>2. CASE Reset
  BY <1>2 DEF Reset
<1>3. CASE Tick
  BY <1>3 DEF Tick
<1>4. ASSUME NEW w \in Waiters, WaitForever(w) PROVE SeenInv'
  BY <1>4 DEF WaitForever, Begin, NoFrame
<1>5. ASSUME NEW w \in Waiters, NEW d \in Durations, WaitFor(w, d) PROVE SeenInv'
  BY <1>5 DEF WaitFor, Begin
<1>6. ASSUME NEW w \in Waiters, NEW d \in Durations, WaitForNoTick(w, d) PROVE SeenInv'
  BY <1>6 DEF WaitForNoTick
<1>7. ASSUME NEW w \in Waiters, Call(w) PROVE SeenInv'
  BY <1>7 DEF Call, Take, Return
<1>8. ASSUME NEW w \in Waiters, Granted(w) PROVE SeenInv'
  BY <1>8 DEF Granted, Return
<1>9. ASSUME NEW w \in Waiters, Reread(w) PROVE SeenInv'
  BY <1>9 DEF Reread, Take, Return
<1>10. ASSUME NEW w \in Waiters, Again(w) PROVE SeenInv'
  BY <1>10 DEF Again, Return, Repeat
<1>11. ASSUME NEW w \in Waiters, Timeout(w) PROVE SeenInv'
  BY <1>11 DEF Timeout, Unblock
<1>12. ASSUME NEW w \in Waiters, Suspend(w) PROVE SeenInv'
  BY <1>12 DEF Suspend, Unblock
<1>13. ASSUME NEW w \in Waiters, Resume(w) PROVE SeenInv'
  BY <1>13 DEF Resume, Unblock
<1> QED
  BY <1>1, <1>2, <1>3, <1>4, <1>5, <1>6, <1>7, <1>8, <1>9, <1>10, <1>11, <1>12, <1>13 DEF Next, WaitStep, KernelStep

\* A step preserves what is known of the ticks that are owed.
LEMMA DueStep ==
    ASSUME IInv, Next
    PROVE  DueInv'
<1> USE DEF IInv, TypeOK, DueInv, Goto, history, fixed
<1>1. CASE Set
  BY <1>1 DEF Set, Blocked
<1>2. CASE Reset
  BY <1>2 DEF Reset
<1>3. CASE Tick
  <2>1. now' <= now + 1 /\ now' \in Nat
    BY <1>3, OneTick DEF Tick
  <2>2. ASSUME NEW w \in Waiters
        PROVE  /\ pc'[w] = pc[w] /\ result'[w] = result[w]
               /\ frame'[w].timed = frame[w].timed /\ frame'[w].endTime = frame[w].endTime
               /\ due'[w] = IF pc[w] = "idle" \/ due[w] = 0 THEN due[w] ELSE due[w] - 1
    BY <1>3 DEF Tick, Frame
  <2> QED
    BY <2>1, <2>2 DEF Frame
<1>4. ASSUME NEW w \in Waiters, WaitForever(w) PROVE DueInv'
  BY <1>4 DEF WaitForever, Begin, NoFrame
<1>5. ASSUME NEW w \in Waiters, NEW d \in Durations, WaitFor(w, d) PROVE DueInv'
  <2>1. toTicks(d) \in Nat
    BY EventAssumption DEF toTicks
  <2>2. /\ frame'[w].endTime = now + toTicks(d) /\ due'[w] = toTicks(d) /\ now' = now
        /\ pc'[w] = "call"
        /\ \A v \in Waiters \ {w} : /\ pc'[v] = pc[v] /\ frame'[v] = frame[v]
                                    /\ due'[v] = due[v] /\ result'[v] = result[v]
    BY <1>5 DEF WaitFor, Begin
  <2> QED
    BY <2>1, <2>2
<1>6. ASSUME NEW w \in Waiters, NEW d \in Durations, WaitForNoTick(w, d) PROVE DueInv'
  BY <1>6 DEF WaitForNoTick
<1>7. ASSUME NEW w \in Waiters, Call(w) PROVE DueInv'
  <2>1. CASE Take(w)
    BY <1>7, <2>1 DEF Call, Take, Return
  <2>2. CASE ~Take(w)
    <3>1. /\ pc[w] = "call" /\ pc'[w] # "idle" /\ UNCHANGED <<now, due, result>>
          /\ \A v \in Waiters \ {w} : pc'[v] = pc[v]
          /\ \A v \in Waiters : frame'[v].timed = frame[v].timed /\ frame'[v].endTime = frame[v].endTime
      BY <1>7, <2>2 DEF Call, Frame
    <3> QED
      BY <3>1
  <2> QED
    BY <2>1, <2>2
<1>8. ASSUME NEW w \in Waiters, Granted(w) PROVE DueInv'
  BY <1>8 DEF Granted, Return
<1>9. ASSUME NEW w \in Waiters, Reread(w) PROVE DueInv'
  BY <1>9 DEF Reread, Take, Return
<1>10. ASSUME NEW w \in Waiters, Again(w) PROVE DueInv'
  <2>1. CASE Repeat(frame[w])
    <3>1. /\ pc[w] = "again" /\ pc'[w] = "call" /\ UNCHANGED <<now, due, result>>
          /\ \A v \in Waiters \ {w} : pc'[v] = pc[v]
          /\ \A v \in Waiters : frame'[v].timed = frame[v].timed /\ frame'[v].endTime = frame[v].endTime
      BY <1>10, <2>1 DEF Again, Frame
    <3> QED
      BY <3>1
  <2>2. CASE ~Repeat(frame[w])
    <3>1. frame[w].timed /\ ~(now < frame[w].endTime)
      BY <2>2 DEF Repeat
    <3>2. due[w] = 0
      BY <1>10, <3>1 DEF Again, Frame
    <3> QED
      BY <1>10, <2>2, <3>2 DEF Again, Return
  <2> QED
    BY <2>1, <2>2
<1>11. ASSUME NEW w \in Waiters, Timeout(w) PROVE DueInv'
  BY <1>11 DEF Timeout, Unblock
<1>12. ASSUME NEW w \in Waiters, Suspend(w) PROVE DueInv'
  BY <1>12 DEF Suspend, Unblock
<1>13. ASSUME NEW w \in Waiters, Resume(w) PROVE DueInv'
  BY <1>13 DEF Resume, Unblock
<1> QED
  BY <1>1, <1>2, <1>3, <1>4, <1>5, <1>6, <1>7, <1>8, <1>9, <1>10, <1>11, <1>12, <1>13 DEF Next, WaitStep, KernelStep

\* The inductive invariant is one.
LEMMA Invariance == Spec => []IInv
<1>1. ASSUME IInv, [Next]_vars PROVE IInv'
  <2>1. CASE Next
    BY <1>1, <2>1, TypeStep, SeenStep, DueStep DEF IInv
  <2>2. CASE UNCHANGED vars
    <3>1. TypeOK'
      BY <1>1, <2>2 DEF IInv, TypeOK, vars, history, fixed
    <3>2. SeenInv'
      BY <1>1, <2>2 DEF IInv, SeenInv, vars, history, fixed
    <3>3. DueInv'
      BY <1>1, <2>2 DEF IInv, DueInv, vars, history, fixed
    <3> QED
      BY <3>1, <3>2, <3>3 DEF IInv
  <2> QED
    BY <1>1, <2>1, <2>2
<1> QED
  BY <1>1, InitInv, PTL DEF Spec

\* The counter, the ticks to wait (the 64-bit difference cut to the counter's width) and
\* the locals of every wait stay in their ranges.
THEOREM TypeCorrect == Spec => []TypeOK
<1>1. IInv => TypeOK
  BY DEF IInv
<1> QED
  BY <1>1, Invariance, PTL

\* wait(Duration) returns false only when that many ticks have passed: neither the
\* collector's suspensions, nor a wait cut short by the kernel, nor a wrap of the tick
\* counter makes it give up too early.
THEOREM NeverTooEarly == Spec => []TimeoutHonest
<1>1. IInv => TimeoutHonest
  BY DEF IInv, DueInv, TimeoutHonest
<1> QED
  BY <1>1, Invariance, PTL

\* A wait returns true only if the event was set at some moment between its call and its
\* return, also for a task that was suspended, or that finds the bit clear again after it
\* was released.
THEOREM NeverForNothing == Spec => []TrueMeansSignalled
<1>1. IInv => TrueMeansSignalled
  BY DEF IInv, SeenInv, TrueMeansSignalled
<1> QED
  BY <1>1, Invariance, PTL
=============================================================================
