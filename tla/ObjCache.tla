------------------------------ MODULE ObjCache ------------------------------
(***************************************************************************)
(* The object cache of the LDC driver (ldc2 -cache=<dir>): writeModule of   *)
(* driver/toobj.cpp, the cache operations of driver/cache.cpp and the       *)
(* pruner of driver/cache_pruning.d, run by several processes that share    *)
(* one cache directory and nothing else.  There is no lock: every system    *)
(* call is a step of its own, and a process may be killed between two.      *)
(*                                                                         *)
(* A process is a succession of invocations of the compiler (all of them    *)
(* write the same output file) or of the pruner, which the compiler runs at *)
(* its end and ldc-prune-cache runs alone.  A file is an inode; a directory *)
(* entry is a reference to one.  An object file is known by the hash of the *)
(* module it was generated from, and holds none while it is incomplete.     *)
(***************************************************************************)
EXTENDS Naturals, FiniteSets

CONSTANTS
    Procs,      \* processes, each with an output file of its own
    Hashes,     \* results of calculateModuleHash
    Inodes,     \* bound: files that exist at a time
    Modes,      \* values of -cache-retrieval in use: "copy", "hardlink", "symlink"
    MaxRuns,    \* bound: invocations in all
    ObjSize,    \* bytes of an object file
    SizeLimit,  \* -cache-prune-maxbytes
    Percent,    \* -cache-prune-maxpercentage, which CachePruner.this cuts to 100
    DiskFree,   \* results of getAvailableDiskSpace
    MaxUlong,   \* ulong.max
    none

ASSUME NoneAssumption == none \notin Inodes /\ none \notin Hashes
ASSUME ModesAssumption == Modes \subseteq {"copy", "hardlink", "symlink"}
ASSUME SizeAssumption ==
    /\ ObjSize \in Nat \ {0} /\ SizeLimit \in Nat /\ Percent \in 0..100
    /\ MaxRuns \in Nat /\ MaxUlong \in Nat /\ DiskFree \subseteq 0..MaxUlong

VARIABLES
    entry,   \* the cache directory: hash -> inode, none if there is no such file
    tmp,     \* process -> inode of its temporary file in the cache directory
    out,     \* process -> inode its output path names
    link,    \* process -> hash of the entry its output path is a symbolic link to
    obj,     \* inode -> hash of the object it holds, none if truncated
    atime,   \* inode -> last access time
    now,     \* the clock, advanced by what sets an access time
    pc,      \* process -> the step it is about to take
    want,    \* process -> moduleHash
    mode,    \* process -> cacheRecoveryMode
    fd,      \* process -> inode it has open for writing
    src,     \* process -> inode it has open for reading
    files,   \* process -> directory entries the pruner has still to visit
    cand,    \* process -> pruneForSizeCandidates
    total,   \* process -> cacheSize
    avail,   \* process -> availableSpace
    runs,    \* invocations so far
    pruned,  \* history: processes during whose invocation a cache file was pruned
    through  \* history: an output was opened that shares its file with others

names == <<entry, tmp, out, link>>
disk  == <<obj, atime, now>>
comp  == <<want, mode, fd, src>>
prune == <<files, cand, total, avail>>
hist  == <<pruned, through>>
vars  == <<names, disk, pc, comp, prune, runs, hist>>

Ended == {"idle", "done", "failed", "rejected", "pruned"}
Compiling == {"lookup", "remove", "retrieve", "copying", "touch", "optimize",
              "open", "write", "create", "copyopen", "storing", "rename"}
Pruning == {"tmps", "expiry", "size", "evict"}

Candidates == [hash : Hashes, inode : Inodes, time : Nat]

\* An empty cache directory, which is also what a missing one is to cacheLookup until
\* cacheObjectFile creates it, and no outputs.
Init ==
    /\ entry = [h \in Hashes |-> none]
    /\ tmp = [p \in Procs |-> none]
    /\ out = [p \in Procs |-> none]
    /\ link = [p \in Procs |-> none]
    /\ obj = [i \in Inodes |-> none]
    /\ atime = [i \in Inodes |-> 0]
    /\ now = 0
    /\ pc = [p \in Procs |-> "idle"]
    /\ want = [p \in Procs |-> none]
    /\ mode = [p \in Procs |-> "copy"]
    /\ fd = [p \in Procs |-> none]
    /\ src = [p \in Procs |-> none]
    /\ files = [p \in Procs |-> {}]
    /\ cand = [p \in Procs |-> {}]
    /\ total = [p \in Procs |-> 0]
    /\ avail = [p \in Procs |-> 0]
    /\ runs = 0
    /\ pruned = {}
    /\ through = FALSE

-----------------------------------------------------------------------------
(* The file system, as the driver uses it.                                  *)

\* Inodes some name or some open file refers to.
Live == UNION {{entry[h] : h \in Hashes}, {tmp[p] : p \in Procs},
               {out[p] : p \in Procs}, {fd[p] : p \in Procs}, {src[p] : p \in Procs}}

\* The inode the next file created gets.
HasRoom == Inodes \ Live # {}
NewInode == CHOOSE i \in Inodes : i \notin Live

\* The file that opening the output path of p reaches.
Output(p) == IF link[p] # none THEN entry[link[p]] ELSE out[p]

\* The file p's output path names has another name, or another process reads it.
Shared(p) ==
    \/ link[p] # none
    \/ \E h \in Hashes : entry[h] = out[p]
    \/ \E q \in Procs \ {p} : out[q] = out[p] \/ src[q] = out[p]

Step(p, from, to) == pc[p] = from /\ pc' = [pc EXCEPT ![p] = to]

\* The pruner's locals are gone with the invocation that had them.
ClearPruner(p) ==
    /\ files' = [files EXCEPT ![p] = {}]
    /\ cand' = [cand EXCEPT ![p] = {}]
    /\ total' = [total EXCEPT ![p] = 0]
    /\ avail' = [avail EXCEPT ![p] = 0]

-----------------------------------------------------------------------------
(* writeModule                                                              *)

\* A new invocation; the module is hashed before anything else happens.
Begin(p) ==
    /\ pc[p] \in Ended
    /\ runs < MaxRuns
    /\ runs' = runs + 1
    /\ pc' = [pc EXCEPT ![p] = "lookup"]
    /\ \E h \in Hashes : want' = [want EXCEPT ![p] = h]
    /\ \E m \in Modes : mode' = [mode EXCEPT ![p] = m]
    /\ pruned' = pruned \ {p}
    /\ ClearPruner(p)
    /\ UNCHANGED <<names, disk, fd, src, through>>

Lookup(p) ==
    /\ Step(p, "lookup", IF entry[want[p]] # none THEN "remove" ELSE "optimize")
    /\ UNCHANGED <<names, disk, comp, prune, runs, hist>>

-----------------------------------------------------------------------------
(* recoverObjectFile                                                        *)

RemoveOutput(p) ==
    /\ Step(p, "remove", "retrieve")
    /\ out' = [out EXCEPT ![p] = none]
    /\ link' = [link EXCEPT ![p] = none]
    /\ UNCHANGED <<entry, tmp, disk, comp, prune, runs, hist>>

\* copy_file opens the entry, then creates the output, then copies.
RetrieveCopy(p) ==
    /\ Step(p, "retrieve", "copying")
    /\ mode[p] = "copy"
    /\ entry[want[p]] # none
    /\ HasRoom
    /\ src' = [src EXCEPT ![p] = entry[want[p]]]
    /\ out' = [out EXCEPT ![p] = NewInode]
    /\ fd' = [fd EXCEPT ![p] = NewInode]
    /\ obj' = [obj EXCEPT ![NewInode] = none]
    /\ UNCHANGED <<entry, tmp, link, atime, now, want, mode, prune, runs, hist>>

CopyDone(p) ==
    /\ Step(p, "copying", "touch")
    /\ obj' = [obj EXCEPT ![fd[p]] = obj[src[p]]]
    /\ fd' = [fd EXCEPT ![p] = none]
    /\ src' = [src EXCEPT ![p] = none]
    /\ UNCHANGED <<names, atime, now, want, mode, prune, runs, hist>>

RetrieveHardLink(p) ==
    /\ Step(p, "retrieve", "touch")
    /\ mode[p] = "hardlink"
    /\ entry[want[p]] # none
    /\ out' = [out EXCEPT ![p] = entry[want[p]]]
    /\ UNCHANGED <<entry, tmp, link, disk, comp, prune, runs, hist>>

\* symlink() succeeds whether or not its target exists.
RetrieveSymLink(p) ==
    /\ Step(p, "retrieve", "touch")
    /\ mode[p] = "symlink"
    /\ link' = [link EXCEPT ![p] = want[p]]
    /\ UNCHANGED <<entry, tmp, out, disk, comp, prune, runs, hist>>

\* The access time is set through a descriptor of the entry.
Touch(p) ==
    /\ Step(p, "touch", "done")
    /\ entry[want[p]] # none
    /\ now' = now + 1
    /\ atime' = [atime EXCEPT ![entry[want[p]]] = now + 1]
    /\ UNCHANGED <<names, obj, comp, prune, runs, hist>>

\* The entry is gone: copy_file, link and open fail, and fatal() ends the process.
RecoverFails(p) ==
    /\ \/ Step(p, "retrieve", "failed") /\ mode[p] # "symlink"
       \/ Step(p, "touch", "failed")
    /\ entry[want[p]] = none
    /\ UNCHANGED <<names, disk, comp, prune, runs, hist>>

-----------------------------------------------------------------------------
(* The rest of writeModule: the module is optimized and written, and the    *)
(* output is then put in the cache by cacheObjectFile.                      *)

\* The passes may report errors, which end the process before it writes a file.
Optimize(p) ==
    /\ \E to \in {"open", "rejected"} : Step(p, "optimize", to)
    /\ UNCHANGED <<names, disk, comp, prune, runs, hist>>

\* codegenModule opens the output path for writing: an existing file is
\* truncated in place, and a dangling link has its target created.
OpenExisting(p) ==
    /\ Output(p) # none
    /\ Step(p, "open", "write")
    /\ fd' = [fd EXCEPT ![p] = Output(p)]
    /\ obj' = [obj EXCEPT ![Output(p)] = none]
    /\ through' = (through \/ Shared(p))
    /\ UNCHANGED <<names, atime, now, want, mode, src, prune, runs, pruned>>

OpenNew(p) ==
    /\ Output(p) = none
    /\ HasRoom
    /\ Step(p, "open", "write")
    /\ fd' = [fd EXCEPT ![p] = NewInode]
    /\ obj' = [obj EXCEPT ![NewInode] = none]
    /\ IF link[p] = none
       THEN /\ out' = [out EXCEPT ![p] = NewInode]
            /\ UNCHANGED <<entry, through>>
       ELSE /\ entry' = [entry EXCEPT ![link[p]] = NewInode]
            /\ through' = TRUE
            /\ UNCHANGED out
    /\ UNCHANGED <<tmp, link, atime, now, want, mode, src, prune, runs, pruned>>

Write(p) ==
    /\ Step(p, "write", "create")
    /\ obj' = [obj EXCEPT ![fd[p]] = want[p]]
    /\ fd' = [fd EXCEPT ![p] = none]
    /\ UNCHANGED <<names, atime, now, want, mode, src, prune, runs, hist>>

\* Mutant: the errors of the passes are not looked at.
WriteFailsUnnoticed(p) ==
    /\ Step(p, "write", "create")
    /\ fd' = [fd EXCEPT ![p] = none]
    /\ UNCHANGED <<names, disk, want, mode, src, prune, runs, hist>>

\* Errors or warnings during the code generation passes: what was written stays.
WriteFails(p) ==
    /\ Step(p, "write", "rejected")
    /\ fd' = [fd EXCEPT ![p] = none]
    /\ UNCHANGED <<names, disk, want, mode, src, prune, runs, hist>>

\* Mutant: the object is copied to the cache file itself.
CreateEntry(p) ==
    /\ HasRoom
    /\ Step(p, "create", "copyopen")
    /\ tmp' = [tmp EXCEPT ![p] = NewInode]
    /\ entry' = [entry EXCEPT ![want[p]] = NewInode]
    /\ obj' = [obj EXCEPT ![NewInode] = none]
    /\ UNCHANGED <<out, link, atime, now, comp, prune, runs, hist>>

CreateTemp(p) ==
    /\ HasRoom
    /\ Step(p, "create", "copyopen")
    /\ tmp' = [tmp EXCEPT ![p] = NewInode]
    /\ obj' = [obj EXCEPT ![NewInode] = none]
    /\ now' = now + 1
    /\ atime' = [atime EXCEPT ![NewInode] = now + 1]
    /\ UNCHANGED <<entry, out, link, comp, prune, runs, hist>>

\* copy_file opens the temporary file by name, and creates it again if it is gone.
StoreOpen(p) ==
    /\ Output(p) # none
    /\ Step(p, "copyopen", "storing")
    /\ src' = [src EXCEPT ![p] = Output(p)]
    /\ IF tmp[p] # none
       THEN /\ fd' = [fd EXCEPT ![p] = tmp[p]]
            /\ UNCHANGED <<tmp, atime, now>>
       ELSE /\ HasRoom
            /\ tmp' = [tmp EXCEPT ![p] = NewInode]
            /\ fd' = [fd EXCEPT ![p] = NewInode]
            /\ now' = now + 1
            /\ atime' = [atime EXCEPT ![NewInode] = now + 1]
    /\ obj' = [obj EXCEPT ![fd'[p]] = none]
    /\ UNCHANGED <<entry, out, link, want, mode, prune, runs, hist>>

StoreCopied(p) ==
    /\ Step(p, "storing", "rename")
    /\ obj' = [obj EXCEPT ![fd[p]] = obj[src[p]]]
    /\ fd' = [fd EXCEPT ![p] = none]
    /\ src' = [src EXCEPT ![p] = none]
    /\ UNCHANGED <<names, atime, now, want, mode, prune, runs, hist>>

\* Mutant: the temporary file has one name for every hash, not a unique one.
RenameCommonTemp(p) ==
    /\ tmp[p] # none
    /\ Step(p, "rename", "done")
    /\ entry' = [entry EXCEPT ![want[p]] = tmp[p]]
    /\ tmp' = [q \in Procs |-> IF want[q] = want[p] THEN none ELSE tmp[q]]
    /\ UNCHANGED <<out, link, disk, comp, prune, runs, hist>>

Rename(p) ==
    /\ tmp[p] # none
    /\ Step(p, "rename", "done")
    /\ entry' = [entry EXCEPT ![want[p]] = tmp[p]]
    /\ tmp' = [tmp EXCEPT ![p] = none]
    /\ UNCHANGED <<out, link, disk, comp, prune, runs, hist>>

\* The output, or the temporary file, is gone.  Assumption: the file system makes no
\* errors of its own.  A full disk, which create_directories, createUniqueFile, copy_file
\* and rename report as well, leaves the disk as Kill at the same place does.
StoreFails(p) ==
    /\ \/ Output(p) = none /\ Step(p, "copyopen", "failed")
       \/ tmp[p] = none /\ Step(p, "rename", "failed")
    /\ tmp' = [tmp EXCEPT ![p] = none]
    /\ UNCHANGED <<entry, out, link, disk, comp, prune, runs, hist>>

-----------------------------------------------------------------------------
(* CachePruner.doPrune                                                      *)

Running == {q \in Procs : pc[q] \notin Ended}

\* dirEntries reads the directory; the interval has passed.
BeginPrune(p) ==
    /\ pc[p] \in Ended
    /\ runs < MaxRuns
    /\ runs' = runs + 1
    /\ pc' = [pc EXCEPT ![p] = "tmps"]
    /\ files' = [files EXCEPT ![p] = {h \in Hashes : entry[h] # none}]
    /\ cand' = [cand EXCEPT ![p] = {}]
    /\ total' = [total EXCEPT ![p] = 0]
    /\ avail' = [avail EXCEPT ![p] = 0]
    /\ want' = [want EXCEPT ![p] = none]
    /\ pruned' = pruned \ {p}
    /\ UNCHANGED <<names, disk, mode, fd, src, through>>

\* deleteFiles removes every temporary file, whoever is writing it.
DeleteTemps(p) ==
    /\ Step(p, "tmps", "expiry")
    /\ tmp' = [q \in Procs |-> none]
    /\ pruned' = IF \E q \in Procs : tmp[q] # none THEN pruned \cup (Running \ {p}) ELSE pruned
    /\ UNCHANGED <<entry, out, link, disk, comp, prune, runs, through>>

\* pruneForExpiry visits a file: it is too old, or a candidate for pruneForSize.
VisitExpired(p, h) ==
    /\ pc[p] = "expiry" /\ h \in files[p] /\ entry[h] # none
    /\ files' = [files EXCEPT ![p] = @ \ {h}]
    /\ entry' = [entry EXCEPT ![h] = none]
    /\ pruned' = pruned \cup (Running \ {p})
    /\ UNCHANGED <<tmp, out, link, disk, pc, comp, cand, total, avail, runs, through>>

WillPruneForSize == SizeLimit > 0 \/ Percent < 100

\* Mutant: the sizes are not added up.
VisitUncounted(p, h) ==
    /\ pc[p] = "expiry" /\ h \in files[p] /\ entry[h] # none
    /\ files' = [files EXCEPT ![p] = @ \ {h}]
    /\ cand' = [cand EXCEPT ![p] = @ \cup
                   {[hash |-> h, inode |-> entry[h], time |-> atime[entry[h]]]}]
    /\ UNCHANGED <<names, disk, pc, comp, total, avail, runs, hist>>

VisitKept(p, h) ==
    /\ pc[p] = "expiry" /\ h \in files[p] /\ entry[h] # none
    /\ files' = [files EXCEPT ![p] = @ \ {h}]
    /\ IF WillPruneForSize
       THEN /\ total' = [total EXCEPT ![p] = @ + ObjSize]
            /\ cand' = [cand EXCEPT ![p] = @ \cup
                           {[hash |-> h, inode |-> entry[h], time |-> atime[entry[h]]]}]
       ELSE UNCHANGED <<total, cand>>
    /\ UNCHANGED <<names, disk, pc, comp, avail, runs, hist>>

\* The file vanished since the directory was read: isFile() throws, outside the try.
VisitVanished(p, h) ==
    /\ h \in files[p] /\ entry[h] = none
    /\ Step(p, "expiry", "failed")
    /\ UNCHANGED <<names, disk, comp, prune, runs, hist>>

\* Mutant: availableSpace is not an unsigned 64-bit integer.
AddUnbounded(size, free) == size + free

\* availableSpace wraps; getAvailableDiskSpace returns ulong.max if it fails.
AvailableSpace(size, free) == (size + free) % (MaxUlong + 1)

AboveMaximum(size, space) ==
    \/ space = 0
    \/ SizeLimit > 0 /\ size > SizeLimit
    \/ (((100 * size) % (MaxUlong + 1)) \div space) > Percent

PruneForSize(p) ==
    /\ files[p] = {}
    /\ \E free \in DiskFree :
        LET space == AvailableSpace(total[p], free)
        IN  /\ avail' = [avail EXCEPT ![p] = space]
            /\ Step(p, "expiry",
                    IF cand[p] # {} /\ AboveMaximum(total[p], space) THEN "evict" ELSE "pruned")
    /\ UNCHANGED <<names, disk, comp, files, cand, total, runs, hist>>

\* The candidates least recently used when they were visited.
Oldest(p) == {c \in cand[p] : \A d \in cand[p] : c.time <= d.time}

\* A removal that fails is skipped, and the size is not reduced.
Evict(p) ==
    /\ pc[p] = "evict"
    /\ \E c \in Oldest(p) :
        LET there == entry[c.hash] # none
            size == IF there THEN total[p] - ObjSize ELSE total[p]
            more == cand[p] # {c} /\ (there => AboveMaximum(size, avail[p]))
        IN  /\ entry' = [entry EXCEPT ![c.hash] = none]
            /\ cand' = [cand EXCEPT ![p] = @ \ {c}]
            /\ total' = [total EXCEPT ![p] = size]
            /\ pc' = [pc EXCEPT ![p] = IF more THEN "evict" ELSE "pruned"]
            /\ pruned' = IF there THEN pruned \cup (Running \ {p}) ELSE pruned
    /\ UNCHANGED <<tmp, out, link, disk, comp, files, avail, runs, through>>

-----------------------------------------------------------------------------
\* The process is killed.  Its temporary file stays until a pruner removes it,
\* but is never opened again; a signal handler may remove the output being written.
Kill(p) ==
    /\ pc[p] \notin Ended
    /\ pc' = [pc EXCEPT ![p] = "idle"]
    /\ tmp' = [tmp EXCEPT ![p] = none]
    /\ fd' = [fd EXCEPT ![p] = none]
    /\ src' = [src EXCEPT ![p] = none]
    /\ want' = [want EXCEPT ![p] = none]
    /\ ClearPruner(p)
    /\ \/ UNCHANGED <<out, link>>
       \/ /\ pc[p] = "write"
          /\ out' = [out EXCEPT ![p] = none]
          /\ link' = [link EXCEPT ![p] = none]
    /\ UNCHANGED <<entry, disk, mode, runs, hist>>

Recover(p) ==
    \/ RemoveOutput(p) \/ RetrieveCopy(p) \/ CopyDone(p) \/ RetrieveHardLink(p)
    \/ RetrieveSymLink(p) \/ Touch(p) \/ RecoverFails(p)

Generate(p) == Optimize(p) \/ OpenExisting(p) \/ OpenNew(p) \/ Write(p) \/ WriteFails(p)

Store(p) ==
    CreateTemp(p) \/ StoreOpen(p) \/ StoreCopied(p) \/ Rename(p) \/ StoreFails(p)

Prune(p) ==
    \/ BeginPrune(p) \/ DeleteTemps(p) \/ PruneForSize(p) \/ Evict(p)
    \/ \E h \in Hashes : VisitExpired(p, h) \/ VisitKept(p, h) \/ VisitVanished(p, h)

Next ==
    \E p \in Procs :
        Begin(p) \/ Lookup(p) \/ Recover(p) \/ Generate(p) \/ Store(p) \/ Prune(p) \/ Kill(p)

Spec == Init /\ [][Next]_vars

-----------------------------------------------------------------------------
(* Properties                                                               *)

DiskOK ==
    /\ entry \in [Hashes -> Inodes \cup {none}]
    /\ tmp \in [Procs -> Inodes \cup {none}]
    /\ out \in [Procs -> Inodes \cup {none}]
    /\ link \in [Procs -> Hashes \cup {none}]
    /\ obj \in [Inodes -> Hashes \cup {none}]
    /\ fd \in [Procs -> Inodes \cup {none}]
    /\ src \in [Procs -> Inodes \cup {none}]
    /\ want \in [Procs -> Hashes \cup {none}]
    /\ pc \in [Procs -> Ended \cup Compiling \cup Pruning]
    /\ through \in BOOLEAN

TypeOK ==
    /\ DiskOK
    /\ atime \in [Inodes -> Nat] /\ now \in Nat
    /\ mode \in [Procs -> {"copy", "hardlink", "symlink"}]
    /\ files \in [Procs -> SUBSET Hashes]
    /\ cand \in [Procs -> SUBSET Candidates]
    /\ total \in [Procs -> Nat] /\ avail \in [Procs -> 0..MaxUlong]
    /\ runs \in 0..MaxRuns
    /\ pruned \subseteq Procs

\* The file under the name of a hash is always the complete object file of that
\* hash: nobody sees an entry half written, whoever is killed, and no later
\* compilation changes it (cacheObjectFile: "To prevent bad cache files").
EntriesCorrect == \A h \in Hashes : entry[h] # none => obj[entry[h]] = h

\* The same as far as the code goes: storing, recovering by any mode, pruning and
\* being killed in between never leave a wrong entry; only a compilation that
\* writes to an output which is a link into the cache does.
EntriesIntact == ~through => EntriesCorrect

\* A compilation that ends without an error leaves the object file of its own
\* module under its output path, recovered or generated, and it stays there
\* whatever the other processes store, recover or prune - but for a symbolic
\* link, which dangles once the entry is pruned.
OutputsIntact ==
    ~through => \A p \in Procs : pc[p] = "done" =>
        \/ Output(p) # none /\ obj[Output(p)] = want[p]
        \/ link[p] = want[p] /\ entry[want[p]] = none

\* Processes that share the cache do not make each other fail by storing or
\* recovering, even the same hash: on a file system that makes no errors of its own a
\* cache operation fails only when a pruner removed a cache file while the process was
\* running.
FailsOnlyUnderPrune == \A p \in Procs : pc[p] = "failed" => p \in pruned

\* What a finished pruner visited and left in the cache is within its limits,
\* although other pruners may have removed some of its candidates before it.
PruneEffective ==
    \A p \in Procs : pc[p] = "pruned" =>
        LET left == {c \in cand[p] : entry[c.hash] = c.inode}
        IN  left # {} => ~AboveMaximum(ObjSize * Cardinality(left), avail[p])

-----------------------------------------------------------------------------
(* The inductive invariant behind EntriesIntact and OutputsIntact.          *)

\* A temporary file has one name and only its process opens it.
TempsPrivate ==
    \A p \in Procs : tmp[p] # none =>
        /\ \A h \in Hashes : entry[h] # tmp[p]
        /\ \A q \in Procs : out[q] # tmp[p] /\ src[q] # tmp[p]
        /\ \A q \in Procs \ {p} : tmp[q] # tmp[p] /\ fd[q] # tmp[p]

\* A file that is being written is read by nobody, and nobody else has a name for it.
WritesPrivate ==
    \A p \in Procs : fd[p] # none =>
        /\ \A h \in Hashes : entry[h] # fd[p]
        /\ \A q \in Procs : src[q] # fd[p]
        /\ \A q \in Procs \ {p} : out[q] # fd[p] /\ tmp[q] # fd[p] /\ fd[q] # fd[p]

\* What a process has open at each step.
OpenAt(p) ==
    /\ pc[p] \in Compiling \cup {"done"} => want[p] \in Hashes
    /\ fd[p] # none <=> pc[p] \in {"copying", "write", "storing"}
    /\ src[p] # none <=> pc[p] \in {"copying", "storing"}
    /\ tmp[p] # none => pc[p] \in {"copyopen", "storing", "rename"}

\* The files it deals with, and what they hold.
HoldsAt(p) ==
    /\ pc[p] = "retrieve" => out[p] = none /\ link[p] = none
    /\ pc[p] \in {"copying", "write"} => out[p] = fd[p] /\ link[p] = none
    /\ pc[p] = "storing" => src[p] = out[p] /\ tmp[p] \in {fd[p], none}
    /\ pc[p] = "copying" => obj[src[p]] = want[p]
    /\ pc[p] \in {"create", "copyopen", "storing", "rename"} =>
            link[p] = none /\ out[p] # none /\ obj[out[p]] = want[p]
    /\ pc[p] = "rename" /\ tmp[p] # none => obj[tmp[p]] = want[p]
    /\ pc[p] \in {"touch", "done"} =>
            \/ link[p] = none /\ out[p] # none /\ obj[out[p]] = want[p]
            \/ link[p] = want[p]

Isolation ==
    ~through => /\ EntriesCorrect
                /\ TempsPrivate
                /\ WritesPrivate
                /\ \A p \in Procs : HoldsAt(p)

IInv == DiskOK /\ (\A p \in Procs : OpenAt(p)) /\ Isolation
=============================================================================
