# A TLA+ verification of dfruntime

dfruntime is a fork of LDC whose own work is a D run-time library that is split
by platform (`src/runtime/druntime/config/*`) and a port of it to FreeRTOS, on top
of the LDC compiler (`src/dmd`, `src/gen`, `src/ir`, `src/driver`). This project
models the parts that can go wrong in ways no unit test shows:

* in the run-time system, tasks that share lists, locks, monitors and events while
  a collector suspends and resumes them;
* in the code generator, the cleanup scopes: which cleanups run, in which order, on
  every way out of a statement;
* in the driver, the object cache: compilers and pruners that share a directory
  without a lock and may be killed at any moment.

Paths below are relative to `src/runtime/druntime/` for the run-time system and to
`src/` for the compiler.

## Inventory

| Component | Source | State | Operations | Hard because |
|---|---|---|---|---|
| Thread registry, stop-the-world (FreeRTOS) | `src/core/thread/threadbase.d`, `config/freertos/core/thread/osthread.d` | thread list, context list, about-to-start array, `suspendDepth`, `multiThreadedFlag`, `slock`, `criticalRegionLock`, per thread: running, address, TLS `this`, join event, critical-region flag, stack top | `start`, entry point, `join`, attach, detach, `thread_suspendAll`, `thread_resumeAll`, `thread_joinAll`, critical regions | a thread may start, end, attach, hold a lock or be in a critical region at any step of the collector |
| Low-level threads (FreeRTOS) | same files, `types.d` | array `ll_pThreads`, `ll_nThreads`, subscriber counts, events | create, entry point, join, remove | pointers into an array that `realloc` and `memmove` shift |
| Event, EventAwaiter (FreeRTOS) | `src/core/sync/event.d`, `config/freertos/core/sync/event_awaiter.d`, `config/freertos/core/time/package.d` | one bit of an event group, the tick counter | `set`, `reset`, `wait`, `wait(Duration)` | kernel waits return early when the collector suspends the task; the tick counter wraps |
| Mutex (FreeRTOS) | `config/freertos/core/sync/mutex.d` | owner, recursion count | lock, unlock, tryLock | recursive, taken by the collector |
| Object monitors | `src/rt/monitor_.d`, `config/*/rt/monitor_mutex.d` | `__monitor` of each object, reference counts, C heap | enter, exit, `setSameMutex`, delete, dispose events | lazy creation by double-checked locking, shared ownership, deletion by finalisers |
| ReadWriteMutex | `src/core/sync/rwmutex.d` | four counters, policy, two condition queues | lock, tryLock, tryLock(timeout), unlock, for readers and writers | overtaking, timeouts, which half is woken |
| Critical sections | `src/rt/critical_.d` | list of sections, global mutex | enter, enter2, exit, term | double-checked creation |
| Runtime start and end | `src/rt/dmain2.d` | `_initCount` | `rt_init`, `rt_term` | two callers at once, failure half way |
| Barrier | `src/core/sync/barrier.d` | count, group | wait | reuse by fast threads |
| Condition, Semaphore | `src/core/sync/{condition,semaphore}`, `config/*/core/sync` | queues | wait, notify | unimplemented on FreeRTOS; an algorithm of its own on Windows |
| Cleanup scopes (compiler) | `gen/trycatchfinally.cpp`, `gen/funcgenstate.cpp`, `gen/statements.cpp`, `gen/ms-cxx-helper.cpp` | stacks of cleanup and try-catch scopes, exits and selector of each cleanup, unresolved gotos, cached landing pads, jump targets | push and pop of scopes, `runCleanups`, `registerUnresolvedGoto`, `getLandingPad`, the statement visitors | one copy of a cleanup serves all ways out; gotos are patched scope by scope; landing pads are cached |
| Object cache (driver) | `driver/cache.cpp`, `driver/toobj.cpp`, `driver/cache_pruning.d` | the cache directory, temporary files, output files and links | `writeModule`, `cacheLookup`, `cacheObjectFile`, `recoverObjectFile`, `doPrune` | several processes, no lock, kills, files removed between check and use |
| ThreadGroup, Fiber, minfo, sections, GC, EH, lifetime, AAs | `src/core`, `src/rt` | | | see `components` in `PROJECT.json` for why each is left out |

The components of the run-time system meet at the thread registry. The collector calls
`thread_suspendAll` and `thread_resumeAll`, which suspend tasks wherever they are:
inside a wait of an Event (this is why `Event` has `Suspend` and `Resume`), inside
a synchronized statement (`Monitor`), never inside a critical region or while
they hold `slock` (`ThreadRegistry` proves it). `Thread.join` waits on an
EventAwaiter, and so does `joinLowLevelThread`. The hazards of all of them, each at
its line and with the property that watches it, are listed in `PROJECT.json`.

What makes each part correct:

* registry: after `suspendAll` nobody else runs, nobody stopped holds a lock the
  collector needs, `resumeAll` leaves nobody stopped, no assertion fails, `joinAll`
  misses nobody, all three calls return;
* low-level threads: one slot per living task, a join returns after its target is
  done, a task ends;
* events: a timeout is neither early nor never, "true" means there was a signal,
  a signal releases the waiters;
* monitors: exclusion, also across objects that share a mutex; exact counts; no
  leak, no use after free; enter returns;
* read/write mutex: it is a read/write lock; no wakeup is lost; the preferred half
  is preferred;
* cleanup scopes: every path through the emitted blocks runs exactly the cleanups it
  leaves, innermost first, and arrives where the source says; only illegal gotos are
  rejected; an exception finds the first clause that matches;
* object cache: an entry is complete and belongs to its hash; a compilation that
  succeeds leaves the right object; only a pruner makes others fail; a pruner meets
  its limit.

## Modules

| Module | Models |
|---|---|
| `ThreadRegistry` | registry and stop-the-world of the FreeRTOS port |
| `ThreadRegistryProofs` | its inductive invariant and theorems |
| `LowLevelThreads` | the array of low-level threads |
| `LowLevelThreadsProofs` | what becomes of slots and of pointers to them |
| `Event` | one event with several waiters, time and the collector |
| `EventProofs` | no wait gives up early or returns without a signal |
| `Monitor` | object monitors |
| `MonitorProofs` | exclusion, exact counts, no leak and no use after free |
| `RWMutex` | `ReadWriteMutex` |
| `RWLock` | what any read/write lock promises (abstract) |
| `RWMutexProofs` | `RWMutex` implements `RWLock`; no wakeup is lost |
| `CleanupScopes` | cleanup scopes, landing pads and jump targets of the code generator |
| `CleanupScopesInvariant` | its inductive invariant |
| `CleanupScopesProofs` | what holds of the generator's stacks for every function body |
| `FoldFacts` | induction over a fold, for any operator and invariant |
| `ObjCache` | the object cache, with its pruner and the file system below it |
| `ObjCacheProofs` | the cache's inductive invariant and theorems |
| `MC*` | instances for TLC |

Common conventions. A variable has the name of the field it stands for; `pc[t]`
says where a thread is inside an operation; variables marked "history" exist for
properties only and no guard of the code's actions reads them. One action is what
a thread does between two points at which another thread can observe it. `map` in
`PROJECT.json` gives the lines of each definition; where the plain and the `shared`
overload of a method, or the reader's and the writer's, are the same code, one
definition stands for all of them. Operators called `Bug_...`, or marked as mutants, are plausible mistakes, used by
no specification; replacing the definition that follows by the mutant makes TLC
report the property that is to catch it.

### ThreadRegistry

`pc` distinguishes the steps of `start` (`StartFlag` sets the flag without a lock,
`StartCreate` runs under `slock` and makes the task, `StartReturn`), the entry point
(`EntryInit` ... `EntryDelete`: TLS, add to the lists, run, remove, stop, signal the
join event, delete the task), `thread_attachThis` (`AttachAgain`, which finds the
TLS `this` set and does nothing, or `attachThread`: `AttachBegin`, `AttachAdd`,
`AttachContext`, and `AttachFlag`, which sets the flag only at the end), `thread_suspendAll` (the
lock-free shortcut, or `SuspendAllLock`, `SuspendAllLockCR`, then per thread
`SuspendAllNext`, `SuspendCheck`, `SuspendRetry` while it is in a critical region,
`SuspendTask`), `thread_resumeAll`, critical regions, `join` and `thread_joinAll`.
Linked lists are sets. `slock` is recursive and stays locked between suspendAll and
resumeAll, as in the code. The kernel is a set `suspended`: a suspended task takes
no step. An assertion that fails sets `fault` and ends the program.

`Asserts` tells a build with assertions from one without. It matters for external
tasks: `attachThread` asserts a stack bottom that `thread_attachThis` never sets, so with
assertions every external task ends the program there, and only a
build without them lets it attach. What external tasks do is therefore checked with
`Asserts = FALSE` (`registry_core`), the assertions themselves with `Asserts = TRUE` and no
external tasks (`registry_live`); `AddFindsNoneStopped` states what `add`'s assertion is
about in either build. `assert(false)` and the errors of a mutex stay in a build without assertions, and so they do in the model.

External tasks attach at any time if `LateAttach` is false. With `LateAttach` they
attach only when the program is already multithreaded; that is what the runs and the
theorems assume ("What the violations show" says what happens otherwise). The history variable
`detached` holds the tasks that have called `thread_detachThis`: they may go on running
D code unlisted, and attaching again does not list them, so `RegisteredWhileRunning`
speaks of every thread until then.

### LowLevelThreads

Sections under `lowlevelLock` are atomic. A pointer into `ll_pThreads` is the
allocation and the index: after `memmove` it names another task's slot, after
`realloc` a dead allocation. That holds of the pointers of joiners and of the task's own
pointer, which it reads without the lock: a read from a dead allocation may give zero
(`Spin`) or not (`SpinAgain`), and nothing is assumed of which. The history variable
`moved` holds those whose pointer went stale. A subscriber counter is taken modulo
`SizeMod`.

`ll_nThreads` is counted up before `realloc` and stays so when it fails; from then on
`Past` holds, the loops look one slot past the array and a removal fills the last slot
from there. What is found there is `Leftover`: nothing, or an old copy of some task's
slot (a bound: other garbage has no tid that anybody looks for). A search that finds what
it looks for past the array corrupts memory; the joiner that does is not followed
(`"wild"`), and a task always has a slot of its own that it finds first.

### Event

A call of the kernel is external: it grants the bit, times out, or returns early
because the task was suspended and resumed. The conversion of a Duration to ticks
divides by `Fractions`, so durations below a tick become zero; the sums `endTime` and `dt` are 64-bit and the
tick counter is taken modulo `TickMod`, whose largest value is `portMAX_DELAY`.
A duration under one tick fails `assert(dt > 0)` (`WaitForNoTick`).

### Monitor

A step is one access to shared memory. `calloc` may return any free address, also
one just freed. The guards `InUse` and `Claimed` express what a program has to
respect anyway: an object is finalised when nobody uses it, and made to share a
mutex before others use it.

### RWMutex and RWLock

Each method is atomic between its waits, because all of it runs under
`m_commonMutex`. The `Condition` below it is that of POSIX; the one of FreeRTOS asserts
"Not implemented". A wait can end without a notification. `RWLock` knows only the sets
of threads that hold the lock; the refinement mapping takes them from `pc` and `kind`.

### CleanupScopes

The state is what the code generator holds while it walks a function body, and the
basic blocks emitted so far; an action is one visitor call (`BeginTryFinally`,
`EndTryFinally`, `BeginTryCatch`, `EndTryCatch`, `BeginWhile`, `EndWhile`,
`LoopJump`, `Return`, `Goto`, `Label`, `Call`, temporaries with destructors), so a
behaviour of the model is a function body and its compilation. A block is a record
of what it runs and where it goes: a cleanup's exit is a jump, a switch on the
cleanup's selector, or, for MSVC, a copy of the cleanup per exit. The properties walk
the emitted blocks (`Step`, `Follow`, `Path`, `Unwind`) and compare what they pass with
what the source statement asks for. `MSVC` chooses between landing pads with
selectors and funclets (`runCleanupPad`, `EmitCatchBodiesMSVC`).

### ObjCache

An inode holds an object, known by the hash of its module, or is incomplete; names in
the cache directory, temporary names and output names refer to inodes, and an output
may be a symbolic link. Every system call is a step: `Lookup`, `RemoveOutput`,
`RetrieveCopy` and `CopyDone` (or `RetrieveHardLink`, `RetrieveSymLink`), `Touch`;
`Optimize`, `OpenExisting` or `OpenNew`, `Write`; `CreateTemp`, `StoreOpen`,
`StoreCopied`, `Rename`; and for the pruner `BeginPrune`, `DeleteTemps`, one visit per
file, `PruneForSize`, `Evict`. The mode "link" of `-cache-retrieval` is "symlink" on
Unix and "hardlink" on Windows. That opening a file for writing truncates it in place,
that `copy_file` creates a missing target, that `isFile()` throws for a missing file,
and that `ToolOutputFile` may remove its file on a signal, is behaviour of LLVM, Phobos
and the system, modelled as the code uses it. File sizes are all `ObjSize`;
whether a file has expired is left open; `availableSpace` wraps at `MaxUlong`; `Percent`
is the percentage after `CachePruner.this` has cut it to 100. `dirEntries` is read as one
snapshot in `BeginPrune`, where Phobos reads the directory as it goes: a file that is added
during the traversal is not visited in the model and may be in the program. The file
system makes no errors of its own: `copy_file`, `rename` and the like fail only for files
that have vanished (what a full disk leaves behind is what `Kill` leaves).
Two history variables: `pruned` (a cache file was pruned while the process ran)
and `through` (an output was opened for writing that shares its file).

## Runs

| Run | Checks | Bounds |
|---|---|---|
| `registry_core` | type, `WorldStopped`, `SuspendedHoldsNoLock`, `NoneLeftSuspended`, `RegisteredWhileRunning`, `AddFindsNoneStopped`, `NoFault` | main, a daemon, a worker that throws and that nobody refers to, an external task that attaches, detaches and attaches again; nesting 2; without assertions; 980,000 states |
| `registry_live` | `NoFault` with assertions, `JoinAllComplete`, and under fair scheduling `SuspendAllReturns` and, when thread functions return, `JoinAllReturns` | main and 1 worker (two are beyond TLC's liveness check in minutes) |
| `lowlevel` | type, `UndisturbedJoin`, `SlotPerTask`, `TaskEnds`, with creates that fail | 2 tasks, 2 joiners, 1 failing create, 1 move by `realloc`: removal of the lower slot shifts the other; 911,000 states |
| `lowlevel_join` (violation) | `JoinWaitsForEnd`, no create fails | 3 tasks, 1 joiner |
| `event` | `TimeoutHonest`, `TrueMeansSignalled`, `TimedWaitReturns`, `SignalReleases` | 2 waiters, durations below and above a tick, 4 ticks, collector on |
| `monitor` | `MutualExclusion`, `NoFault`, `RefsExact`, `HeapExact`, `EnterReturns` | 2 threads, 2 objects, 4 addresses, nesting 2 |
| `rwmutex` | `CountsExact`, `NoLostWakeup`, `ImplementsRWLock`, `PreferenceHonoured` | 4 threads, both policies |
| `rwmutex_timeout` (violation) | `QueuedReadersAlerted` | 3 threads |
| `cleanups` | `ExitsRunCleanups`, `GotosRunCleanups`, `RejectsOnlyIllegal`, `UnwindsRunCleanups`, `PlainCallsUncaught` | all bodies of up to 4 statements with 2 cleanups at a time, for both personalities: two nested scopes, a jump and its target |
| `cleanups_nested` (violation) | `UnwindsSurviveNested` | a finally block with a try-catch of its own |
| `objcache` | `OutputsIntact`, `EntriesIntact`, `FailsOnlyUnderPrune`, `PruneEffective` | 2 processes, 2 hashes, all modes, 4 invocations: two compilers or a compiler and a pruner at once on a cache that earlier ones filled; 6 inodes are never exhausted |
| `objcache_links` (violation) | `EntriesCorrect` | hard links, 3 invocations |

### What the violations show

* `lowlevel_join`: the pointer of `joinLowLevelThread` names another task's slot after a
  removal; the join returns while its target runs.
* `rwmutex_timeout`: readers that queued behind a writer whose
  `tryLock(timeout)` gives up are never notified. They sleep while the mutex is
  free, until some writer comes and goes.
* `cleanups_nested`: the exception in flight and its selector sit in one stack slot
  each per function while cleanups run; a finally block that catches an exception of
  its own overwrites them, and the first exception is matched against the
  wrong selector or lost.
* `objcache_links`: after a hit with `-cache-retrieval=hardlink` (the recommended
  mode) the output is the cache file. Compiling a changed module to the same output
  opens it for writing and so truncates and rewrites the entry of the old hash.

The passing runs of the same modules show how far the code is right: programs that
attach late, once, and without assertions, joins whose pointer nothing moved, mutexes
whose writers do not time out under `PREFER_WRITERS`, finally blocks without a try statement, caches whose linked outputs are not written to.

More disagreements are known. They have no run of their own; each is modelled, is a
condition of a passing property or a hazard in `PROJECT.json`, and TLC finds it when that
condition is dropped:

* `thread_suspendAll` without lock against an attaching task
  (`config/freertos/core/thread/osthread.d:306`): it adds itself while `suspendDepth` is not
  0 and runs on in a stopped world, although the comment in `add`
  (`src/core/thread/threadbase.d:635`) argues that this cannot be. With `LateAttach = FALSE`
  and `Asserts = FALSE`, `AddFindsNoneStopped` fails;
* with assertions every external task stops the program in `attachThread`, whose
  `assert(thisContext.bstack)` (`osthread.d:414`) holds of the main thread only. With
  `Asserts = TRUE` and an external task `NoFault` fails;
* `thread_detachThis` leaves the TLS `this` set (`src/core/thread/threadbase.d:854`), so a
  task that attaches again is taken for registered (line 831) and runs D code the
  collector does not stop. `RegisteredWhileRunning` fails when it speaks of all threads;
* a low-level task that found no subscribers (`osthread.d:202`) removes its slot although a
  joiner subscribed in between; that joiner gives the lock back on the task that was moved
  into the slot, whose count wraps, and which is never deleted. Without its exception for
  joiners `TaskEnds` fails;
* `suspend` (`config/freertos/core/thread/osthread.d:368`) records a stack top only for
  the calling thread, although its comment says it loads stack information;
* a timed wait that straddles the wrap of the tick counter
  (`config/freertos/core/sync/event_awaiter.d:129`) can compute `portMAX_DELAY` and never
  return: with `Wraps = TRUE` and a tick counter that starts just before the wrap
  `TimedWaitReturns` fails; the `event` run stays away from the wrap.

### Fairness

* Registry: strong fairness of a thread's steps (the kernel is preemptive,
  tasks of one priority are served in turn and a mutex is handed on in order); the program
  leaves critical regions and resumes what it stopped. Nobody has to enter one, start,
  finish or attach. What a property needs beyond that is a premise of its formula.
  `SuspendAllReturns`: each thread enters critical regions only finitely often; `suspend`
  only sleeps and looks again, and may find the thread in another region each time, which
  no fairness of the scheduler excludes. `JoinAllReturns`: thread functions and the main
  function return (`Ending`).
* Low-level threads: weak fairness of a task's and a joiner's steps that are ready.
  Nothing is assumed of what a task reads through a pointer into freed memory (the
  fairness of `Spin` asks for `Good(td[t])`), so `TaskEnds` excepts tasks whose own pointer
  went stale.
* Events, read/write mutex: weak fairness of every step that is ready, of time, and of
  kernel timeouts. Nobody has to call `set`, `lock`
  or `wait`; a lock's holder releases it. Spurious wakeups are possible, never owed.
* Monitors: strong fairness for taking `gmtx` and a monitor, weak for the rest.
  `EnterReturns` assumes that threads leave their outermost statement again and again.

Deadlock is checked in every run of the run-time modules; where a system may stop, its
module says so in `Terminated`. A compilation and a sequence of invocations simply
end, so the runs of `CleanupScopes` and `ObjCache` do not check it, and as nothing there
waits for anything they state no liveness either.

## Proofs

Every invariant that a passing run checks is proved for all values of the constants, but
for the three of `CleanupScopes` that follow paths through the emitted blocks. The types of
`Monitor` and `RWMutex` are proved only: the ranges of their counters follow from
`RefsExact` and `CountsExact`, which the runs check. None of
them is inductive as it stands; each module states the invariant that is, as a conjunction of named parts, shows with one lemma per
part or per group of actions, one step per action, that a step preserves it, and draws
the properties from it. But for that of `CleanupScopes`, whose types TLC cannot
enumerate, the strengthened invariants were also checked with TLC, on the instances of
the runs.

`ThreadRegistryProofs`, for any sets of workers, daemons and external tasks and any
nesting bound, with assertions or without, under `LateAttach`: `TypeCorrect`,
`StopsTheWorld`, `LocksAvailable`, `ResumesTheWorld`, `AddsWhileRunning`, `AssertionsHold`,
`RunningIsRegistered` and `JoinsAll`. `AssertionsHold` has the further hypothesis that in a
build with assertions there are no external tasks; `AddsWhileRunning` says what `add`'s
assertion would find in a build without. The invariant `IInv` keeps the registry's state
as it was when an assertion failed (`FaultInv`), and ties the owner of each lock to
program locations (`SlockInv`, `CRInv`), the depth counters to the recursion of `slock` (`DepthInv`), the unset flag to the main task being
alone (`AloneInv`), the lists to where a thread is in its life (`LifeInv`), locals to
what they refer to (`ArgInv`) and `suspended` to how far the traversals of suspendAll and
resumeAll have come (`ScanInv`). `AttachInv`, with which
`RunningIsRegistered` is proved, follows an external task from the steps that list it to
its first detach. For `thread_joinAll`, `JoinAllInv` adds that during its
traversal, which holds `slock`, nobody is about to start and only the main thread
is left behind: at the end of the list no worker is listed, and a worker that is not
listed starts nobody and runs no user code.

`LowLevelThreadsProofs`, for any sets of tasks and joiners and any width of the
subscriber count, with failing creates or without: `TypeCorrect`, `JoinWaits`, `OneSlot`.
Lemmas say what `realloc`, the write of a new slot and `memmove` do to the array.
The invariant: `ll_nThreads` counts at most one slot too many, and only after a create
that failed (`CountInv`); every running task has a slot within the array (`LiveInv`),
also where the last slot is filled from past it; as long as no create failed it
is the only one and there are no others (`OnceInv`); a slot's event is its task's even in
stale copies (`SlotInv`); an event is set after the delegate (`EvInv`); and the
pointer of a joiner that nothing disturbed names its target's slot (`JoinInv`). Stale
pointers, which the code has, are excluded by the history variable `moved`, not by an
assumption.

`EventProofs`, for any waiters and durations, any width and start of the tick counter,
wrapping or not, with the collector or without: `TypeCorrect`, `NeverTooEarly`,
`NeverForNothing`. `DueInv` says that the end of a wait is at least as far ahead of the
clock as the ticks that are still owed; a wrap only moves it further away, so the wrap
can make a wait too long (a hazard, see above) but never too short. `SeenInv` says that a
wait that can see the bit, or was released by it, was signalled.

`MonitorProofs`, for any finite sets of threads and objects, recursive mutexes or not, and
any nesting: `TypeCorrect`, `Exclusion`, `NoFaults`, `RefsStayExact`, `HeapStaysExact`. The
invariant says who may use a monitor: living objects that point to it, or one thread to
which it is private (not yet published, lost the race, or about to be freed) (`HeapInv`,
`LeakInv`, `PtrInv`); that an object which is being made to share or finalised is nobody
else's (`UseInv`); that the counts are the cardinalities they stand for (`RefsInv`,
`DepthInv`); that whoever is inside holds the mutex (`HoldInv`); and that sharing objects
have one monitor (`ShareInv`). Five effect lemmas state first what an operation does where
the invariant holds, none of which is a fault.

`RWMutexProofs`, for any finite set of threads: the four counters are exact (`Counts`,
`TypeCorrect`) and the mutex implements `RWLock` (`Implementation`), with writer
timeouts or without. The methods decide on counters and the promise is about sets, so
the invariant is the exactness of the counters; lemmas state what each operation does to
the sets, and the library's facts on cardinality do the rest. `WakeupsNotLost` has the
hypothesis `~WriterTimeouts`, and needs it: the run `rwmutex_timeout` shows what a
writer that gives up does. `WakeInv` behind it says that readers without a writer in
their way are all awake, that a free lock that writers may take has a writer awake, and
that preferred writers do not time out.

`ObjCacheProofs`, for any number of processes, hashes, files and invocations: entries and
successful outputs are right unless a shared output was opened for writing
(`EntriesStayIntact`, `OutputsStayIntact`), and with the default mode, copy, entries are
right without condition (`CopiesKeepEntries`). `EntriesCorrect` says nothing of the files
that are about to become entries. `IInv` adds that a temporary file has one name and one
user (`TempsPrivate`), that a file being written is read by nobody and named by nobody
else (`WritesPrivate`), and what each process has open and what those files hold at each
step (`OpenAt`, `HoldsAt`); for copies, that outputs are private too (`OutputsPrivate`).
`Live`, the inodes a new file must differ from, includes open files without a name, which
is what makes a prune during a copy harmless. `TypeCorrect` needs the pruner's account
(`CountAt`: every candidate was counted, none twice), since `cacheSize` is counted
down. `FailuresFromPruning` rests on `FailAt`: at each step that leads to a missing file,
the file is there or a pruner came by. `PruningSuffices` rests on `LimitAt` and on
`AboveMaximum` being monotone in the size, which is true only while 100 times the size does
not wrap; its hypothesis `Fits` says so (a cache of less than 184 PB).

`CleanupScopesProofs`, with the invariant of `CleanupScopesInvariant`, for any labels,
catch lists and cleanup bodies, any bounds, and for landing pads and funclets alike: `TypeCorrect`, `RejectsIllegal`, `PlainCallsSafe`. With
arbitrary bounds this is every function body the model can express, of any length and
nesting. `IInv` has two halves.

* `WellFormed` is about the generator alone: its state is typed, the stacks of scopes,
  unresolved gotos and landing pads have matching heights, funclets use no selector, and
  every copy of a cleanup has a block. Each operation keeps it, also while a redirected
  goto leads to a placeholder (block 0 in the model), which is gone at the end of
  `RedirectGoto`.
* `Generated` relates the generator to the open statements: which part of the stack is
  whose (`Chain`), that no two statements share a body (`Apart`) or go on in one block
  (`Distinct`), which loop and which try statements the generator knows of (`LoopsOK`,
  `CatchesOK`), that a label's scope is in the stack unless the label is in a try block
  that was closed (`LabelsOK`), and that a goto waiting in a cursor is outside every
  statement above that cursor and that no label seen so far is one it may go to
  (`GotosOK`).

`TypeOK` follows from the first half. `RejectsOnlyIllegal` needs `GotosOK`: a goto that
still waits when the body ends has seen no label it could take, although popping a scope
moves it down a cursor and may rewrite its branch. `PlainCallsUncaught` needs
`CatchesOK`, as `callOrInvoke` decides on the generator's stacks and the property is about
the source. There is one lemma per statement of the visitor (`BeginTryFinallyInv` ...
`EndFunctionInv`) over one effect lemma per operation.

The operations loop over scopes, clauses, blocks and gotos; the model has these loops as
folds. `FoldFacts` proves once, with an operator and a loop invariant as constants, that
what holds of the start and is kept by each element holds of a `FoldLeft` (`Folded`). The
argument is that the recursive function behind the fold exists and that a first position
where the invariant fails cannot; the least-number principle is a hypothesis there,
proved in `CleanupScopesProofs` (`WellOrdered`). Each loop instantiates `FoldFacts` with
its own operator and invariant.

Assumptions are those on the constants, which TLC evaluates in every run:
`ThreadsAssumption`, `DepthAssumption`, `AttachAssumption`, `BuildAssumption`, `HandlesAssumption` (the tasks
and joiners of `LowLevelThreads` are disjoint and none is `null`), `SizeAssumption` and
`FailAssumption` there, `EventAssumption`, `MonitorAssumption` (threads and objects are finite sets, there is
an object), `RWMutexAssumption`, `NoneAssumption`, `ModesAssumption`, `SizeAssumption`,
`CleanupAssumption` (cleanup bodies are of the three kinds, catch lists are non-empty
sequences of the three classes).

Only model-checked:

* all liveness properties (`SuspendAllReturns`, `JoinAllReturns`, `TaskEnds`,
  `TimedWaitReturns`, `SignalReleases`, `EnterReturns`, `PreferenceHonoured`): fairness is
  outside the prover's reach;
* `ExitsRunCleanups`, `GotosRunCleanups` and `UnwindsRunCleanups`: they follow paths
  through the emitted blocks, and a path through a shared cleanup depends on what was
  last stored to each selector on the way. Their inductive invariant would have to
  describe every such path, of unfinished cleanups too, and how each later change of a
  terminator extends it. What `Step` repeated over a path computes is an induction over a
  fold, which `FoldFacts` now allows; the invariant is what is missing. Recursive
  operators are out of the prover's reach altogether, and `CleanupScopes` has none.

## Not modelled

Within the modelled parts: `thread_term`, `thread_detachByAddr` and
`thread_detachInstance` (one thread removes another, which goes on running),
`findLowLevelThread` (asserts "Not implemented"), what happens after a write past the
array of low-level threads, stack contexts of fibers, construction and destruction of Event handles, dispose
events and user-supplied monitors, non-recursive monitor mutexes of FreeRTOS (a nested
synchronized statement waits for itself), `Mutex.tryLock`, errors thrown by
`Condition`; in `CleanupScopes`, catches of C++ classes, switch statements, more than one
loop, try statements in a finally block with the MSVC personality, and a
backward goto into a scope that was left, which the front end rejects; in `ObjCache`, the
other outputs of `writeModule` (a hit returns before they are written), what
`calculateModuleHash` digests, two processes with one output path, and temporary files
of killed processes, which nobody opens again, errors of the file system and the
pruner's reading of the directory while it changes.

Whole parts: see the inventory and `components`. Most of the repository's lines are
declarations for LLVM and the front end (`dmd/frontend.h`), copies of LLVM's profiling
tools, the translation of single tree nodes and assembler tables: they keep no state
over which a property could range, so the models cover a small share of the lines.

## Plan

1. Written and checked: `ThreadRegistry`, `LowLevelThreads`, `Event`, `Monitor`,
   `RWMutex` with `RWLock`, `CleanupScopes`, `ObjCache`; proved: every safety property of
   all of them but the three path properties of `CleanupScopes`.
2. Next modules: `Critical` (`rt/critical_.d`, same double-checked creation as
   monitors, with the list that `_d_critical_term` walks), `RuntimeInit`
   (`rt_init`/`rt_term` count and phases), the dispose events of `monitor_.d` as an
   array that implements a set, `Barrier` with an abstract rendezvous that it
   implements, the life cycle of Event handles, the pointer lists of the registry
   refining the sets used here, the Windows `Condition`.
3. Composition: `Event` under `ThreadRegistry`'s `join`, replacing the external join event.
4. Next proofs: the path properties of `CleanupScopes`, first `ExitsRunCleanups` for
   funclets, where no selector is involved; those of the modules to come;
   `UndisturbedJoin` with the kernel's task handles reused; the pointer lists of the registry as a refinement of its sets.
