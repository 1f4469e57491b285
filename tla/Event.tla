------------------------------- MODULE Event -------------------------------
(***************************************************************************)
(* One event of the FreeRTOS port while it is initialised: set, reset,     *)
(* wait() and wait(Duration) of core.sync.event_awaiter.                   *)
(*                                                                         *)
(* The event group itself is the kernel's and is modelled from the way the *)
(* code uses it: xEventGroupSetBits releases every blocked task, and then  *)
(* clears the bit if one of them asked for that; a blocked task that is    *)
(* suspended leaves the group's list, and when it is resumed, as when its  *)
(* time is up, it only looks at the bit once more.  The collector suspends *)
(* and resumes tasks wherever they block, which is why the code loops.     *)
(***************************************************************************)
EXTENDS Integers

CONSTANTS
    Waiters,       \* tasks that wait on the event
    Durations,     \* arguments of wait(Duration), in fractions of a tick
    Fractions,     \* how many fractions make a tick
    TickMod,       \* 2^w of the tick counter
    BootTick,      \* the tick count when the model begins
    Collects,      \* does the collector suspend tasks?
    Wraps          \* does the counter wrap?  If not, its last value is all later time

ASSUME EventAssumption ==
    /\ Wraps \in BOOLEAN /\ Collects \in BOOLEAN
    /\ Durations \subseteq Nat /\ Fractions \in Nat \ {0}
    /\ TickMod \in Nat \ {0, 1} /\ BootTick \in 0 .. TickMod - 1

VARIABLES
    clearOnExit,  \* the field, from the constructor's manualReset
    bit,          \* the group's one bit
    now,          \* xTaskGetTickCount()
    pc,           \* where a waiter is
    frame,        \* its locals: is it wait(Duration), the times, the kernel's timeout
    result,       \* what its last wait returned
    fault,        \* a failed assertion
    seen,         \* history: the event was signalled during the last wait
    due,          \* history: ticks the last wait(Duration) asked for and that did not pass
    manual,       \* history: the argument manualReset
    wasReset      \* history: reset was called

history == <<seen, due, wasReset>>
fixed == <<clearOnExit, manual>>
vars == <<fixed, bit, now, pc, frame, result, fault, history>>

\* xTicksToWait: portMAX_DELAY is the largest value of the counter and means for ever.
MAX_DELAY == TickMod - 1

Locs == {"idle", "call", "blocked", "suspended", "granted", "reread", "again"}
Frame == [timed : BOOLEAN, startTime : 0 .. TickMod - 1, endTime : Nat, left : 0 .. MAX_DELAY]
NoFrame == [timed |-> FALSE, startTime |-> 0, endTime |-> 0, left |-> 0]

\* The counter, the ticks to wait and the local times stay in their ranges.
TypeOK ==
    /\ {clearOnExit, bit, fault, manual, wasReset} \subseteq BOOLEAN
    /\ now \in 0 .. TickMod - 1
    /\ pc \in [Waiters -> Locs]
    /\ frame \in [Waiters -> Frame]
    /\ result \in [Waiters -> BOOLEAN]
    /\ seen \in [Waiters -> BOOLEAN]
    /\ due \in [Waiters -> Nat]

\* Mutant: the two values of clearOnExit are swapped.
Bug_ClearSwapped(manualReset) == manualReset

ClearOnExit(manualReset) == ~manualReset

\* EventAwaiter(manualReset, initialState).
Init ==
    /\ manual \in BOOLEAN
    /\ clearOnExit = ClearOnExit(manual)
    /\ bit \in BOOLEAN
    /\ now = BootTick
    /\ pc = [w \in Waiters |-> "idle"]
    /\ frame = [w \in Waiters |-> NoFrame]
    /\ result = [w \in Waiters |-> TRUE]
    /\ fault = FALSE
    /\ seen = [w \in Waiters |-> TRUE]
    /\ due = [w \in Waiters |-> 0]
    /\ wasReset = FALSE

Goto(w, l) == pc' = [pc EXCEPT ![w] = l]

\* The wait returns r; its locals are gone.
Return(w, r) ==
    /\ Goto(w, "idle")
    /\ result' = [result EXCEPT ![w] = r]
    /\ frame' = [frame EXCEPT ![w] = NoFrame]

-----------------------------------------------------------------------------
(* set and reset *)

Blocked == {w \in Waiters : pc[w] = "blocked"}

\* xEventGroupSetBits releases all blocked tasks and clears the bit if one asked for it.
Set ==
    /\ bit' = ~(clearOnExit /\ Blocked # {})
    /\ pc' = [w \in Waiters |-> IF w \in Blocked THEN "granted" ELSE pc[w]]
    /\ seen' = [w \in Waiters |-> seen[w] \/ pc[w] # "idle"]
    /\ UNCHANGED <<fixed, now, frame, result, fault, due, wasReset>>

Reset ==
    /\ bit' = FALSE
    /\ wasReset' = TRUE
    /\ UNCHANGED <<fixed, now, pc, frame, result, fault, seen, due>>

-----------------------------------------------------------------------------
(* wait() and wait(Duration) *)

\* Duration.toTicks drops the fraction.
toTicks(d) == d \div Fractions

\* A wait begins, with a result it has not got yet.
Begin(w, f, ticks) ==
    /\ pc[w] = "idle"
    /\ Goto(w, "call")
    /\ frame' = [frame EXCEPT ![w] = f]
    /\ result' = [result EXCEPT ![w] = TRUE]
    /\ seen' = [seen EXCEPT ![w] = bit]
    /\ due' = [due EXCEPT ![w] = ticks]
    /\ UNCHANGED <<fixed, bit, now, fault, wasReset>>

WaitForever(w) == Begin(w, NoFrame, 0)

\* wait(d) computes its end time in 64 bits.
WaitFor(w, d) ==
    /\ toTicks(d) > 0
    /\ Wraps \/ now + toTicks(d) < TickMod      \* bound: it ends before the last tick
    /\ Begin(w, [timed |-> TRUE, startTime |-> now, endTime |-> now + toTicks(d), left |-> 0],
             toTicks(d))

\* With no tick to wait, the assertion dt > 0 before the first call fails.
WaitForNoTick(w, d) ==
    /\ pc[w] = "idle"
    /\ toTicks(d) = 0
    /\ fault' = TRUE
    /\ UNCHANGED <<fixed, bit, now, pc, frame, result, history>>

\* A wait that sees the bit takes it, clearing it if it asked for that, and returns.
Take(w) ==
    /\ bit
    /\ bit' = ~clearOnExit
    /\ Return(w, TRUE)
    /\ UNCHANGED <<fixed, now, fault, history>>

\* Mutants: portMAX_DELAY in wait(Duration) too; the difference the wrong way round.
Bug_WaitsForever(f) == MAX_DELAY
Bug_DtSwapped(f) == IF f.timed THEN f.startTime - f.endTime ELSE MAX_DELAY

\* The argument xTicksToWait: cast(uint) of the 64-bit dt.
TicksToWait(f) == IF f.timed THEN (f.endTime - f.startTime) % TickMod ELSE MAX_DELAY

\* xEventGroupWaitBits finds the bit set, returns at once, or blocks.
Call(w) ==
    /\ pc[w] = "call"
    /\ \/ Take(w)
       \/ /\ ~bit
          /\ frame' = [frame EXCEPT ![w].left = TicksToWait(frame[w])]
          /\ Goto(w, IF TicksToWait(frame[w]) = 0 THEN "again" ELSE "blocked")
          /\ UNCHANGED <<fixed, bit, now, result, fault, history>>

\* Released by xEventGroupSetBits, the call returns the bit although it may be clear now.
Granted(w) ==
    /\ pc[w] = "granted"
    /\ Return(w, TRUE)
    /\ UNCHANGED <<fixed, bit, now, fault, history>>

\* Timed out, or resumed after it was suspended: the call looks at the bit once more.
Reread(w) ==
    /\ pc[w] = "reread"
    /\ \/ Take(w)
       \/ /\ ~bit
          /\ Goto(w, "again")
          /\ UNCHANGED <<fixed, bit, now, frame, result, fault, history>>

\* Mutants: the call is not repeated, in wait(Duration) or in wait().
Bug_NoLoop(f) == ~f.timed
Bug_NoLoopForever(f) == f.timed /\ now < f.endTime

\* The condition of the two do-while loops, after a call that returned no bit.
Repeat(f) == f.timed => now < f.endTime

\* Go round again with the time that is left, or return false.
Again(w) ==
    /\ pc[w] = "again"
    /\ IF Repeat(frame[w])
         THEN /\ Goto(w, "call")
              /\ frame' = [frame EXCEPT ![w].startTime = IF frame[w].timed THEN now ELSE 0,
                                        ![w].left = 0]
              /\ UNCHANGED result
         ELSE Return(w, ~frame[w].timed)
    /\ UNCHANGED <<fixed, bit, now, fault, history>>

-----------------------------------------------------------------------------
(* The kernel: time, timeouts, suspension *)

Forever(w) == frame[w].left = MAX_DELAY

\* The last tick of a counter that does not wrap stands for all later time.
TimeIsUp(w) == frame[w].left = 0 \/ (~Wraps /\ now = TickMod - 1 /\ ~Forever(w))

Tick ==
    /\ Wraps \/ now < TickMod - 1
    /\ now' = (now + 1) % TickMod
    /\ frame' = [w \in Waiters |->
          IF Forever(w) \/ frame[w].left = 0 THEN frame[w]
          ELSE [frame[w] EXCEPT !.left = @ - 1]]
    /\ due' = [w \in Waiters |-> IF pc[w] = "idle" \/ due[w] = 0 THEN due[w] ELSE due[w] - 1]
    /\ UNCHANGED <<fixed, bit, pc, result, fault, seen, wasReset>>

\* A blocked task goes from the group's list to l without having got the bit.
Unblock(w, l) ==
    /\ Goto(w, l)
    /\ frame' = [frame EXCEPT ![w].left = 0]
    /\ UNCHANGED <<fixed, bit, now, result, fault, history>>

Timeout(w) == pc[w] = "blocked" /\ TimeIsUp(w) /\ Unblock(w, "reread")

\* vTaskSuspend takes a blocked task off the list, vTaskResume makes it ready.
Suspend(w) == Collects /\ pc[w] = "blocked" /\ Unblock(w, "suspended")
Resume(w) == pc[w] = "suspended" /\ Unblock(w, "reread")

-----------------------------------------------------------------------------
WaitStep(w) == Call(w) \/ Granted(w) \/ Reread(w) \/ Again(w)
KernelStep(w) == Timeout(w) \/ Resume(w)

Next ==
    \/ Set \/ Reset \/ Tick
    \/ \E w \in Waiters :
          \/ WaitForever(w) \/ \E d \in Durations : WaitFor(w, d) \/ WaitForNoTick(w, d)
          \/ WaitStep(w) \/ KernelStep(w) \/ Suspend(w)

Spec == Init /\ [][Next]_vars

\* Time passes, the kernel ends what is due, whoever suspended a task resumes it, and
\* a ready task runs.  Nobody has to set the event.
Fairness ==
    /\ WF_vars(Tick)
    /\ \A w \in Waiters : WF_vars(WaitStep(w)) /\ WF_vars(KernelStep(w))

FairSpec == Spec /\ Fairness

-----------------------------------------------------------------------------
(* Properties *)

\* wait(Duration) returns false only when that many ticks have passed, however often
\* the collector suspended and resumed the task in the meantime.
TimeoutHonest == \A w \in Waiters : (pc[w] = "idle" /\ ~result[w]) => due[w] = 0

\* A wait returns true only if the event was signalled at some time while it lasted.
TrueMeansSignalled == \A w \in Waiters : (pc[w] = "idle" /\ result[w]) => seen[w]

\* wait(Duration) returns, set or not ("the maximum time to wait").
TimedWaitReturns == \A w \in Waiters : (pc[w] # "idle" /\ frame[w].timed) ~> (pc[w] = "idle")

\* Once a manual-reset event is set every wait in progress returns, of the tasks too
\* that were suspended at that moment, unless somebody resets it.
SignalReleases ==
    \A w \in Waiters : (manual /\ pc[w] # "idle" /\ seen[w]) ~> (pc[w] = "idle" \/ wasReset)
=============================================================================
