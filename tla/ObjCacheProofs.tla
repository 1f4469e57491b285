--------------------------- MODULE ObjCacheProofs ---------------------------
(***************************************************************************)
(* Proofs about ObjCache, for any number of processes, hashes, files and    *)
(* invocations and for every retrieval mode.                                *)
(*                                                                         *)
(* EntriesCorrect is not inductive: that Rename publishes a complete object *)
(* needs to know that the temporary file got a copy of the process's own    *)
(* output, that the output held the right object all the while, and that    *)
(* nobody else could have the temporary file, or a file being written, under*)
(* a name of his own.  IInv says so (OpenAt, HoldsAt, TempsPrivate,         *)
(* WritesPrivate); an output that is a link breaks WritesPrivate as soon as *)
(* it is opened for writing, which is what the history variable through     *)
(* records.  TInv adds the types and the pruner's account, FailAt what a    *)
(* process may count on as long as no pruner comes by, LimitAt what a       *)
(* pruner that is finished has achieved.                                    *)
(***************************************************************************)
EXTENDS ObjCache, FiniteSetTheorems, TLAPS

\* A file that is created is new: no name and no open descriptor refers to it.
LEMMA FreshInode ==
    ASSUME HasRoom
    PROVE  NewInode \in Inodes /\ NewInode \notin Live
  BY DEF HasRoom, NewInode

\* Opening an output in place keeps through FALSE only if it is p's alone.
LEMMA UnsharedOpen ==
    ASSUME NEW p \in Procs, OpenExisting(p), ~through'
    PROVE  ~through /\ ~Shared(p)
  BY DEF OpenExisting

\* In the initial state there is no file at all.
LEMMA InitIInv == Init => IInv
<1> SUFFICES ASSUME Init PROVE IInv
  OBVIOUS
<1>1. DiskOK
  BY DEF Init, DiskOK, Ended
<1>2. \A p \in Procs : OpenAt(p) /\ HoldsAt(p)
  BY DEF Init, OpenAt, HoldsAt, Compiling
<1>3. EntriesCorrect /\ TempsPrivate /\ WritesPrivate
  BY DEF Init, EntriesCorrect, TempsPrivate, WritesPrivate
<1> QED
  BY <1>1, <1>2, <1>3 DEF IInv, Isolation

\* Every step of every process leaves each file with the names, and each process
\* with the descriptors, its position in the code calls for.
LEMMA StepOpen ==
    ASSUME IInv, [Next]_vars
    PROVE  (DiskOK /\ \A q \in Procs : OpenAt(q))'
<1> USE NoneAssumption DEF Step, DiskOK, OpenAt, Ended, Compiling, Pruning,
        names, disk, comp, prune, hist
<1>0. DiskOK /\ \A q \in Procs : OpenAt(q)
  BY DEF IInv
<1>1. ASSUME NEW p \in Procs, Begin(p) PROVE (DiskOK /\ \A q \in Procs : OpenAt(q))'
  BY <1>0, <1>1 DEF Begin, ClearPruner
<1>2. ASSUME NEW p \in Procs, Lookup(p) PROVE (DiskOK /\ \A q \in Procs : OpenAt(q))'
  BY <1>0, <1>2 DEF Lookup
<1>3. ASSUME NEW p \in Procs, RemoveOutput(p) PROVE (DiskOK /\ \A q \in Procs : OpenAt(q))'
  BY <1>0, <1>3 DEF RemoveOutput
<1>4. ASSUME NEW p \in Procs, RetrieveCopy(p) PROVE (DiskOK /\ \A q \in Procs : OpenAt(q))'
  BY <1>0, <1>4, FreshInode DEF RetrieveCopy
<1>5. ASSUME NEW p \in Procs, CopyDone(p) PROVE (DiskOK /\ \A q \in Procs : OpenAt(q))'
  BY <1>0, <1>5 DEF CopyDone
<1>6. ASSUME NEW p \in Procs, RetrieveHardLink(p) PROVE (DiskOK /\ \A q \in Procs : OpenAt(q))'
  BY <1>0, <1>6 DEF RetrieveHardLink
<1>7. ASSUME NEW p \in Procs, RetrieveSymLink(p) PROVE (DiskOK /\ \A q \in Procs : OpenAt(q))'
  BY <1>0, <1>7 DEF RetrieveSymLink
<1>8. ASSUME NEW p \in Procs, Touch(p) PROVE (DiskOK /\ \A q \in Procs : OpenAt(q))'
  BY <1>0, <1>8 DEF Touch
<1>9. ASSUME NEW p \in Procs, RecoverFails(p) PROVE (DiskOK /\ \A q \in Procs : OpenAt(q))'
  BY <1>0, <1>9 DEF RecoverFails
<1>10. ASSUME NEW p \in Procs, Optimize(p) PROVE (DiskOK /\ \A q \in Procs : OpenAt(q))'
  BY <1>0, <1>10 DEF Optimize
<1>11. ASSUME NEW p \in Procs, OpenExisting(p) PROVE (DiskOK /\ \A q \in Procs : OpenAt(q))'
  BY <1>0, <1>11 DEF OpenExisting, Output
<1>12. ASSUME NEW p \in Procs, OpenNew(p) PROVE (DiskOK /\ \A q \in Procs : OpenAt(q))'
  BY <1>0, <1>12, FreshInode DEF OpenNew, Output
<1>13. ASSUME NEW p \in Procs, Write(p) PROVE (DiskOK /\ \A q \in Procs : OpenAt(q))'
  BY <1>0, <1>13 DEF Write
<1>14. ASSUME NEW p \in Procs, WriteFails(p) PROVE (DiskOK /\ \A q \in Procs : OpenAt(q))'
  BY <1>0, <1>14 DEF WriteFails
<1>15. ASSUME NEW p \in Procs, CreateTemp(p) PROVE (DiskOK /\ \A q \in Procs : OpenAt(q))'
  BY <1>0, <1>15, FreshInode DEF CreateTemp
<1>16. ASSUME NEW p \in Procs, StoreOpen(p) PROVE (DiskOK /\ \A q \in Procs : OpenAt(q))'
  BY <1>0, <1>16, FreshInode DEF StoreOpen, Output
<1>17. ASSUME NEW p \in Procs, StoreCopied(p) PROVE (DiskOK /\ \A q \in Procs : OpenAt(q))'
  BY <1>0, <1>17 DEF StoreCopied
<1>18. ASSUME NEW p \in Procs, Rename(p) PROVE (DiskOK /\ \A q \in Procs : OpenAt(q))'
  BY <1>0, <1>18 DEF Rename
<1>19. ASSUME NEW p \in Procs, StoreFails(p) PROVE (DiskOK /\ \A q \in Procs : OpenAt(q))'
  BY <1>0, <1>19 DEF StoreFails, Output
<1>20. ASSUME NEW p \in Procs, BeginPrune(p) PROVE (DiskOK /\ \A q \in Procs : OpenAt(q))'
  BY <1>0, <1>20 DEF BeginPrune
<1>21. ASSUME NEW p \in Procs, DeleteTemps(p) PROVE (DiskOK /\ \A q \in Procs : OpenAt(q))'
  BY <1>0, <1>21 DEF DeleteTemps
<1>22. ASSUME NEW p \in Procs, PruneForSize(p) PROVE (DiskOK /\ \A q \in Procs : OpenAt(q))'
  BY <1>0, <1>22 DEF PruneForSize
<1>23. ASSUME NEW p \in Procs, Evict(p) PROVE (DiskOK /\ \A q \in Procs : OpenAt(q))'
  <2>1. PICK c \in Oldest(p), to \in {"evict", "pruned"} :
            /\ entry' = [entry EXCEPT ![c.hash] = none]
            /\ pc' = [pc EXCEPT ![p] = to]
    BY <1>23 DEF Evict
  <2>2. pc[p] = "evict" /\ UNCHANGED <<tmp, out, link, obj, fd, src, want, through>>
    BY <1>23 DEF Evict
  <2> QED
    BY <1>0, <2>1, <2>2
<1>24. ASSUME NEW p \in Procs, Kill(p) PROVE (DiskOK /\ \A q \in Procs : OpenAt(q))'
  BY <1>0, <1>24 DEF Kill, ClearPruner
<1>25. ASSUME NEW p \in Procs, NEW h \in Hashes, VisitExpired(p, h)
       PROVE  (DiskOK /\ \A q \in Procs : OpenAt(q))'
  BY <1>0, <1>25 DEF VisitExpired
<1>26. ASSUME NEW p \in Procs, NEW h \in Hashes, VisitKept(p, h)
       PROVE  (DiskOK /\ \A q \in Procs : OpenAt(q))'
  BY <1>0, <1>26 DEF VisitKept
<1>27. ASSUME NEW p \in Procs, NEW h \in Hashes, VisitVanished(p, h)
       PROVE  (DiskOK /\ \A q \in Procs : OpenAt(q))'
  BY <1>0, <1>27 DEF VisitVanished
<1>28. CASE UNCHANGED vars
  BY <1>0, <1>28 DEF vars
<1> QED
  BY <1>1, <1>2, <1>3, <1>4, <1>5, <1>6, <1>7, <1>8, <1>9, <1>10, <1>11, <1>12, <1>13,
     <1>14, <1>15, <1>16, <1>17, <1>18, <1>19, <1>20, <1>21, <1>22, <1>23, <1>24, <1>25,
     <1>26, <1>27, <1>28 DEF Next, Recover, Generate, Store, Prune

\* No step spoils a file that others rely on, as long as no shared output is opened.
LEMMA StepIsolation ==
    ASSUME IInv, [Next]_vars, ~through'
    PROVE  (EntriesCorrect /\ TempsPrivate /\ WritesPrivate /\ \A q \in Procs : HoldsAt(q))'
<1> DEFINE Iso == EntriesCorrect /\ TempsPrivate /\ WritesPrivate /\ \A q \in Procs : HoldsAt(q)
<1> USE NoneAssumption DEF Step, DiskOK, OpenAt, Ended, Compiling, Pruning,
        names, disk, comp, prune, hist, EntriesCorrect, TempsPrivate, WritesPrivate, HoldsAt
<1>0. DiskOK /\ (\A q \in Procs : OpenAt(q)) /\ (~through => Iso)
  BY DEF IInv, Isolation
<1>1. ASSUME NEW p \in Procs, Begin(p) PROVE Iso'
  BY <1>0, <1>1 DEF Begin, ClearPruner
<1>2. ASSUME NEW p \in Procs, Lookup(p) PROVE Iso'
  BY <1>0, <1>2 DEF Lookup
<1>3. ASSUME NEW p \in Procs, RemoveOutput(p) PROVE Iso'
  BY <1>0, <1>3 DEF RemoveOutput
<1>4. ASSUME NEW p \in Procs, RetrieveCopy(p) PROVE Iso'
  BY <1>0, <1>4, FreshInode DEF RetrieveCopy, Live
<1>5. ASSUME NEW p \in Procs, CopyDone(p) PROVE Iso'
  BY <1>0, <1>5 DEF CopyDone
<1>6. ASSUME NEW p \in Procs, RetrieveHardLink(p) PROVE Iso'
  BY <1>0, <1>6 DEF RetrieveHardLink
<1>7. ASSUME NEW p \in Procs, RetrieveSymLink(p) PROVE Iso'
  BY <1>0, <1>7 DEF RetrieveSymLink
<1>8. ASSUME NEW p \in Procs, Touch(p) PROVE Iso'
  BY <1>0, <1>8 DEF Touch
<1>9. ASSUME NEW p \in Procs, RecoverFails(p) PROVE Iso'
  BY <1>0, <1>9 DEF RecoverFails
<1>10. ASSUME NEW p \in Procs, Optimize(p) PROVE Iso'
  BY <1>0, <1>10 DEF Optimize
<1>11. ASSUME NEW p \in Procs, OpenExisting(p) PROVE Iso'
  <2>1. Iso /\ ~Shared(p)
    BY <1>0, <1>11, UnsharedOpen
  <2> QED
    BY <1>0, <1>11, <2>1 DEF OpenExisting, Output, Shared
<1>12. ASSUME NEW p \in Procs, OpenNew(p) PROVE Iso'
  BY <1>0, <1>12, FreshInode DEF OpenNew, Output, Live
<1>13. ASSUME NEW p \in Procs, Write(p) PROVE Iso'
  BY <1>0, <1>13 DEF Write
<1>14. ASSUME NEW p \in Procs, WriteFails(p) PROVE Iso'
  BY <1>0, <1>14 DEF WriteFails
<1>15. ASSUME NEW p \in Procs, CreateTemp(p) PROVE Iso'
  BY <1>0, <1>15, FreshInode DEF CreateTemp, Live
<1>16. ASSUME NEW p \in Procs, StoreOpen(p) PROVE Iso'
  BY <1>0, <1>16, FreshInode DEF StoreOpen, Output, Live
<1>17. ASSUME NEW p \in Procs, StoreCopied(p) PROVE Iso'
  BY <1>0, <1>17 DEF StoreCopied
<1>18. ASSUME NEW p \in Procs, Rename(p) PROVE Iso'
  BY <1>0, <1>18 DEF Rename
<1>19. ASSUME NEW p \in Procs, StoreFails(p) PROVE Iso'
  BY <1>0, <1>19 DEF StoreFails, Output
<1>20. ASSUME NEW p \in Procs, BeginPrune(p) PROVE Iso'
  BY <1>0, <1>20 DEF BeginPrune
<1>21. ASSUME NEW p \in Procs, DeleteTemps(p) PROVE Iso'
  BY <1>0, <1>21 DEF DeleteTemps
<1>22. ASSUME NEW p \in Procs, PruneForSize(p) PROVE Iso'
  BY <1>0, <1>22 DEF PruneForSize
<1>23. ASSUME NEW p \in Procs, Evict(p) PROVE Iso'
  BY <1>0, <1>23 DEF Evict
<1>24. ASSUME NEW p \in Procs, Kill(p) PROVE Iso'
  BY <1>0, <1>24 DEF Kill, ClearPruner
<1>25. ASSUME NEW p \in Procs, NEW h \in Hashes, VisitExpired(p, h) PROVE Iso'
  BY <1>0, <1>25 DEF VisitExpired
<1>26. ASSUME NEW p \in Procs, NEW h \in Hashes, VisitKept(p, h) PROVE Iso'
  BY <1>0, <1>26 DEF VisitKept
<1>27. ASSUME NEW p \in Procs, NEW h \in Hashes, VisitVanished(p, h) PROVE Iso'
  BY <1>0, <1>27 DEF VisitVanished
<1>28. CASE UNCHANGED vars
  BY <1>0, <1>28 DEF vars
<1> QED
  BY <1>1, <1>2, <1>3, <1>4, <1>5, <1>6, <1>7, <1>8, <1>9, <1>10, <1>11, <1>12, <1>13,
     <1>14, <1>15, <1>16, <1>17, <1>18, <1>19, <1>20, <1>21, <1>22, <1>23, <1>24, <1>25,
     <1>26, <1>27, <1>28 DEF Next, Recover, Generate, Store, Prune

\* IInv is an invariant of the cache.
THEOREM Inductive == Spec => []IInv
<1>1. ASSUME IInv, [Next]_vars PROVE IInv'
  BY <1>1, StepOpen, StepIsolation DEF IInv, Isolation
<1> QED
  BY InitIInv, <1>1, PTL DEF Spec

\* No entry of the cache is wrong or half written (cacheObjectFile's copy to a
\* temporary file and rename), whatever runs at once, is killed or is pruned,
\* unless codegenModule was given an output that is a link into the cache.
THEOREM EntriesStayIntact == Spec => []EntriesIntact
<1>1. IInv => EntriesIntact
  BY DEF IInv, Isolation, EntriesIntact
<1> QED
  BY Inductive, <1>1, PTL

\* A compilation that succeeds, by writeModule's hit or its miss, has its own
\* module's object under its output path, and keeps it there.
THEOREM OutputsStayIntact == Spec => []OutputsIntact
<1>1. ASSUME IInv, ~through, NEW p \in Procs, pc[p] = "done"
      PROVE  \/ Output(p) # none /\ obj[Output(p)] = want[p]
             \/ link[p] = want[p] /\ entry[want[p]] = none
  <2>1. HoldsAt(p) /\ EntriesCorrect /\ want[p] \in Hashes
    BY <1>1 DEF IInv, Isolation, OpenAt
  <2>2. \/ link[p] = none /\ out[p] # none /\ obj[out[p]] = want[p]
        \/ link[p] = want[p]
    BY <1>1, <2>1 DEF HoldsAt
  <2> QED
    BY <2>1, <2>2, NoneAssumption DEF Output, EntriesCorrect
<1>2. IInv => OutputsIntact
  BY <1>1 DEF OutputsIntact
<1> QED
  BY Inductive, <1>2, PTL

-----------------------------------------------------------------------------
(* The default, -cache-retrieval=copy, never shares a file.                 *)

\* With copies only, the file under an output path is that path's alone.
OutputsPrivate ==
    /\ \A p \in Procs : mode[p] = "copy" /\ link[p] = none
    /\ \A p \in Procs : out[p] # none =>
        /\ \A h \in Hashes : entry[h] # out[p]
        /\ \A q \in Procs \ {p} : out[q] # out[p] /\ src[q] # out[p]

CInv == IInv /\ ~through /\ OutputsPrivate /\ mode \in [Procs -> {"copy"}]

\* Each step that gives a file a name or opens it finds it without one.
LEMMA StepPrivate ==
    ASSUME Modes = {"copy"}, CInv, [Next]_vars
    PROVE  (~through /\ OutputsPrivate /\ mode \in [Procs -> {"copy"}])'
<1> DEFINE Priv == ~through /\ OutputsPrivate /\ mode \in [Procs -> {"copy"}]
<1> USE NoneAssumption DEF Step, DiskOK, OpenAt, Ended, Compiling, Pruning,
        names, disk, comp, prune, hist, OutputsPrivate
<1>0. /\ DiskOK /\ (\A q \in Procs : OpenAt(q) /\ HoldsAt(q))
      /\ TempsPrivate /\ WritesPrivate /\ Priv
  BY DEF CInv, IInv, Isolation
<1>1. ASSUME NEW p \in Procs, Begin(p) PROVE Priv'
  BY <1>0, <1>1 DEF Begin, ClearPruner, TempsPrivate, WritesPrivate, HoldsAt
<1>2. ASSUME NEW p \in Procs, Lookup(p) PROVE Priv'
  BY <1>0, <1>2 DEF Lookup, TempsPrivate, WritesPrivate, HoldsAt
<1>3. ASSUME NEW p \in Procs, RemoveOutput(p) PROVE Priv'
  BY <1>0, <1>3 DEF RemoveOutput, TempsPrivate, WritesPrivate, HoldsAt
<1>4. ASSUME NEW p \in Procs, RetrieveCopy(p) PROVE Priv'
  BY <1>0, <1>4, FreshInode DEF RetrieveCopy, TempsPrivate, WritesPrivate, HoldsAt, Live
<1>5. ASSUME NEW p \in Procs, CopyDone(p) PROVE Priv'
  BY <1>0, <1>5 DEF CopyDone, TempsPrivate, WritesPrivate, HoldsAt
<1>6. ASSUME NEW p \in Procs, RetrieveHardLink(p) PROVE Priv'
  BY <1>0, <1>6 DEF RetrieveHardLink, TempsPrivate, WritesPrivate, HoldsAt
<1>7. ASSUME NEW p \in Procs, RetrieveSymLink(p) PROVE Priv'
  BY <1>0, <1>7 DEF RetrieveSymLink, TempsPrivate, WritesPrivate, HoldsAt
<1>8. ASSUME NEW p \in Procs, Touch(p) PROVE Priv'
  BY <1>0, <1>8 DEF Touch, TempsPrivate, WritesPrivate, HoldsAt
<1>9. ASSUME NEW p \in Procs, RecoverFails(p) PROVE Priv'
  BY <1>0, <1>9 DEF RecoverFails, TempsPrivate, WritesPrivate, HoldsAt
<1>10. ASSUME NEW p \in Procs, Optimize(p) PROVE Priv'
  BY <1>0, <1>10 DEF Optimize, TempsPrivate, WritesPrivate, HoldsAt
<1>11. ASSUME NEW p \in Procs, OpenExisting(p) PROVE Priv'
  <2>1. ~Shared(p)
    BY <1>0, <1>11 DEF OpenExisting, Output, Shared
  <2>2. ~through'
    BY <1>0, <1>11, <2>1 DEF OpenExisting
  <2> QED
    BY <1>0, <1>11, <2>2 DEF OpenExisting
<1>12. ASSUME NEW p \in Procs, OpenNew(p) PROVE Priv'
  BY <1>0, <1>12, FreshInode DEF OpenNew, Output, TempsPrivate, WritesPrivate, HoldsAt, Live
<1>13. ASSUME NEW p \in Procs, Write(p) PROVE Priv'
  BY <1>0, <1>13 DEF Write, TempsPrivate, WritesPrivate, HoldsAt
<1>14. ASSUME NEW p \in Procs, WriteFails(p) PROVE Priv'
  BY <1>0, <1>14 DEF WriteFails, TempsPrivate, WritesPrivate, HoldsAt
<1>15. ASSUME NEW p \in Procs, CreateTemp(p) PROVE Priv'
  BY <1>0, <1>15, FreshInode DEF CreateTemp, TempsPrivate, WritesPrivate, HoldsAt, Live
<1>16. ASSUME NEW p \in Procs, StoreOpen(p) PROVE Priv'
  BY <1>0, <1>16, FreshInode DEF StoreOpen, Output, TempsPrivate, WritesPrivate, HoldsAt, Live
<1>17. ASSUME NEW p \in Procs, StoreCopied(p) PROVE Priv'
  BY <1>0, <1>17 DEF StoreCopied, TempsPrivate, WritesPrivate, HoldsAt
<1>18. ASSUME NEW p \in Procs, Rename(p) PROVE Priv'
  BY <1>0, <1>18 DEF Rename, TempsPrivate, WritesPrivate, HoldsAt
<1>19. ASSUME NEW p \in Procs, StoreFails(p) PROVE Priv'
  BY <1>0, <1>19 DEF StoreFails, Output, TempsPrivate, WritesPrivate, HoldsAt
<1>20. ASSUME NEW p \in Procs, BeginPrune(p) PROVE Priv'
  BY <1>0, <1>20 DEF BeginPrune, TempsPrivate, WritesPrivate, HoldsAt
<1>21. ASSUME NEW p \in Procs, DeleteTemps(p) PROVE Priv'
  BY <1>0, <1>21 DEF DeleteTemps, TempsPrivate, WritesPrivate, HoldsAt
<1>22. ASSUME NEW p \in Procs, PruneForSize(p) PROVE Priv'
  BY <1>0, <1>22 DEF PruneForSize, TempsPrivate, WritesPrivate, HoldsAt
<1>23. ASSUME NEW p \in Procs, Evict(p) PROVE Priv'
  BY <1>0, <1>23 DEF Evict, TempsPrivate, WritesPrivate, HoldsAt
<1>24. ASSUME NEW p \in Procs, Kill(p) PROVE Priv'
  BY <1>0, <1>24 DEF Kill, ClearPruner, TempsPrivate, WritesPrivate, HoldsAt
<1>25. ASSUME NEW p \in Procs, NEW h \in Hashes, VisitExpired(p, h) PROVE Priv'
  BY <1>0, <1>25 DEF VisitExpired, TempsPrivate, WritesPrivate, HoldsAt
<1>26. ASSUME NEW p \in Procs, NEW h \in Hashes, VisitKept(p, h) PROVE Priv'
  BY <1>0, <1>26 DEF VisitKept, TempsPrivate, WritesPrivate, HoldsAt
<1>27. ASSUME NEW p \in Procs, NEW h \in Hashes, VisitVanished(p, h) PROVE Priv'
  BY <1>0, <1>27 DEF VisitVanished, TempsPrivate, WritesPrivate, HoldsAt
<1>28. CASE UNCHANGED vars
  BY <1>0, <1>28 DEF vars, TempsPrivate, WritesPrivate, HoldsAt
<1> QED
  BY <1>1, <1>2, <1>3, <1>4, <1>5, <1>6, <1>7, <1>8, <1>9, <1>10, <1>11, <1>12, <1>13,
     <1>14, <1>15, <1>16, <1>17, <1>18, <1>19, <1>20, <1>21, <1>22, <1>23, <1>24, <1>25,
     <1>26, <1>27, <1>28 DEF Next, Recover, Generate, Store, Prune

\* With the default retrieval mode the promise of cacheObjectFile's comment
\* ("To prevent bad cache files") holds without reservation.
THEOREM CopiesKeepEntries == ASSUME Modes = {"copy"} PROVE Spec => []EntriesCorrect
<1>1. Init => CInv
  BY InitIInv DEF Init, CInv, OutputsPrivate
<1>2. ASSUME CInv, [Next]_vars PROVE CInv'
  BY <1>2, StepPrivate, StepOpen, StepIsolation DEF CInv, IInv, Isolation
<1>3. CInv => EntriesCorrect
  BY DEF CInv, IInv, Isolation
<1> QED
  BY <1>1, <1>2, <1>3, PTL DEF Spec

-----------------------------------------------------------------------------
(* Types.  That cacheSize never goes below zero, an unsigned number in      *)
(* CachePruner, needs to know that each candidate was counted when it was   *)
(* made one and that no file is visited twice: CountAt.                     *)

CountAt(p) ==
    /\ IsFiniteSet(cand[p])
    /\ \A c \in cand[p] : c.hash \notin files[p]
    /\ ObjSize * Cardinality(cand[p]) <= total[p]

TInv == IInv /\ TypeOK /\ \A p \in Procs : CountAt(p)

\* The types of what compiler and pruner share.
SharedOK ==
    /\ atime \in [Inodes -> Nat] /\ now \in Nat
    /\ mode \in [Procs -> {"copy", "hardlink", "symlink"}]
    /\ runs \in 0..MaxRuns
    /\ pruned \subseteq Procs

\* The types of the pruner's locals.
LocalsOK ==
    /\ files \in [Procs -> SUBSET Hashes]
    /\ cand \in [Procs -> SUBSET Candidates]
    /\ total \in [Procs -> Nat]
    /\ avail \in [Procs -> 0..MaxUlong]

\* Every step keeps the types of the shared state.
LEMMA StepShared ==
    ASSUME TInv, [Next]_vars
    PROVE  SharedOK'
<1> USE NoneAssumption, SizeAssumption, ModesAssumption DEF DiskOK, SharedOK,
        names, disk, comp, prune, hist
<1>0. DiskOK /\ SharedOK
  BY DEF TInv, TypeOK
<1>1. ASSUME NEW p \in Procs, Begin(p) PROVE SharedOK'
  BY <1>0, <1>1 DEF Begin, ClearPruner
<1>2. ASSUME NEW p \in Procs, Lookup(p) PROVE SharedOK'
  BY <1>0, <1>2 DEF Lookup
<1>3. ASSUME NEW p \in Procs, RemoveOutput(p) PROVE SharedOK'
  BY <1>0, <1>3 DEF RemoveOutput
<1>4. ASSUME NEW p \in Procs, RetrieveCopy(p) PROVE SharedOK'
  BY <1>0, <1>4 DEF RetrieveCopy
<1>5. ASSUME NEW p \in Procs, CopyDone(p) PROVE SharedOK'
  BY <1>0, <1>5 DEF CopyDone
<1>6. ASSUME NEW p \in Procs, RetrieveHardLink(p) PROVE SharedOK'
  BY <1>0, <1>6 DEF RetrieveHardLink
<1>7. ASSUME NEW p \in Procs, RetrieveSymLink(p) PROVE SharedOK'
  BY <1>0, <1>7 DEF RetrieveSymLink
<1>8. ASSUME NEW p \in Procs, Touch(p) PROVE SharedOK'
  <2>1. entry[want[p]] \in Inodes
    BY <1>0, <1>8 DEF TInv, IInv, OpenAt, Touch, Step, Compiling
  <2>2. atime' \in [Inodes -> Nat]
    BY <1>0, <1>8, <2>1 DEF Touch
  <2>3. now' = now + 1 /\ UNCHANGED <<mode, runs, pruned>>
    BY <1>8 DEF Touch
  <2> QED
    BY <1>0, <2>2, <2>3
<1>9. ASSUME NEW p \in Procs, RecoverFails(p) PROVE SharedOK'
  BY <1>0, <1>9 DEF RecoverFails
<1>10. ASSUME NEW p \in Procs, Optimize(p) PROVE SharedOK'
  BY <1>0, <1>10 DEF Optimize
<1>11. ASSUME NEW p \in Procs, OpenExisting(p) PROVE SharedOK'
  BY <1>0, <1>11 DEF OpenExisting
<1>12. ASSUME NEW p \in Procs, OpenNew(p) PROVE SharedOK'
  BY <1>0, <1>12 DEF OpenNew
<1>13. ASSUME NEW p \in Procs, Write(p) PROVE SharedOK'
  BY <1>0, <1>13 DEF Write
<1>14. ASSUME NEW p \in Procs, WriteFails(p) PROVE SharedOK'
  BY <1>0, <1>14 DEF WriteFails
<1>15. ASSUME NEW p \in Procs, CreateTemp(p) PROVE SharedOK'
  BY <1>0, <1>15, FreshInode DEF CreateTemp
<1>16. ASSUME NEW p \in Procs, StoreOpen(p) PROVE SharedOK'
  BY <1>0, <1>16, FreshInode DEF StoreOpen
<1>17. ASSUME NEW p \in Procs, StoreCopied(p) PROVE SharedOK'
  BY <1>0, <1>17 DEF StoreCopied
<1>18. ASSUME NEW p \in Procs, Rename(p) PROVE SharedOK'
  BY <1>0, <1>18 DEF Rename
<1>19. ASSUME NEW p \in Procs, StoreFails(p) PROVE SharedOK'
  BY <1>0, <1>19 DEF StoreFails
<1>20. ASSUME NEW p \in Procs, BeginPrune(p) PROVE SharedOK'
  BY <1>0, <1>20 DEF BeginPrune
<1>21. ASSUME NEW p \in Procs, DeleteTemps(p) PROVE SharedOK'
  BY <1>0, <1>21 DEF DeleteTemps, Running
<1>22. ASSUME NEW p \in Procs, PruneForSize(p) PROVE SharedOK'
  BY <1>0, <1>22 DEF PruneForSize
<1>23. ASSUME NEW p \in Procs, Evict(p) PROVE SharedOK'
  BY <1>0, <1>23 DEF Evict, Running
<1>24. ASSUME NEW p \in Procs, Kill(p) PROVE SharedOK'
  BY <1>0, <1>24 DEF Kill, ClearPruner
<1>25. ASSUME NEW p \in Procs, NEW h \in Hashes, VisitExpired(p, h) PROVE SharedOK'
  BY <1>0, <1>25 DEF VisitExpired, Running
<1>26. ASSUME NEW p \in Procs, NEW h \in Hashes, VisitKept(p, h) PROVE SharedOK'
  BY <1>0, <1>26 DEF VisitKept
<1>27. ASSUME NEW p \in Procs, NEW h \in Hashes, VisitVanished(p, h) PROVE SharedOK'
  BY <1>0, <1>27 DEF VisitVanished
<1>28. CASE UNCHANGED vars
  BY <1>0, <1>28 DEF vars
<1> QED
  BY <1>1, <1>2, <1>3, <1>4, <1>5, <1>6, <1>7, <1>8, <1>9, <1>10, <1>11, <1>12, <1>13,
     <1>14, <1>15, <1>16, <1>17, <1>18, <1>19, <1>20, <1>21, <1>22, <1>23, <1>24,
     <1>25, <1>26, <1>27, <1>28 DEF Next, Recover, Generate, Store, Prune

\* The pruner's locals change in seven actions only, and no other action ends a pruner.
LEMMA QuietSteps ==
    ASSUME TInv, NEW p \in Procs,
           \/ Lookup(p) \/ Recover(p) \/ Generate(p) \/ Store(p) \/ DeleteTemps(p)
           \/ \E h \in Hashes : VisitVanished(p, h)
    PROVE  /\ UNCHANGED <<files, cand, total, avail>>
           /\ \A q \in Procs : pc'[q] = "pruned" => pc[q] = "pruned"
<1> USE DEF Step, prune
<1>0. pc \in [Procs -> Ended \cup Compiling \cup Pruning]
  BY DEF TInv, TypeOK, DiskOK
<1>1. CASE Lookup(p)
  BY <1>0, <1>1 DEF Lookup
<1>2. CASE Recover(p)
  BY <1>0, <1>2 DEF Recover, RemoveOutput, RetrieveCopy, CopyDone, RetrieveHardLink,
     RetrieveSymLink, Touch, RecoverFails
<1>3. CASE Generate(p)
  BY <1>0, <1>3 DEF Generate, Optimize, OpenExisting, OpenNew, Write, WriteFails
<1>4. CASE Store(p)
  BY <1>0, <1>4 DEF Store, CreateTemp, StoreOpen, StoreCopied, Rename, StoreFails
<1>5. CASE DeleteTemps(p)
  BY <1>0, <1>5 DEF DeleteTemps
<1>6. CASE \E h \in Hashes : VisitVanished(p, h)
  BY <1>0, <1>6 DEF VisitVanished
<1> QED
  BY <1>1, <1>2, <1>3, <1>4, <1>5, <1>6

\* Visiting a file that is kept: it was not counted before, and is now.
LEMMA KeptCounted ==
    ASSUME TInv, NEW p \in Procs, NEW h \in Hashes, VisitKept(p, h)
    PROVE  LocalsOK' /\ \A q \in Procs : CountAt(q)'
<1> DEFINE c == [hash |-> h, inode |-> entry[h], time |-> atime[entry[h]]]
<1>1. /\ LocalsOK /\ h \in files[p] /\ entry[h] \in Inodes /\ atime[entry[h]] \in Nat
      /\ \A q \in Procs : CountAt(q)
  BY DEF TInv, TypeOK, DiskOK, LocalsOK, VisitKept
<1>2. c \in Candidates /\ c.hash = h
  BY <1>1 DEF Candidates
<1>3. files' = [files EXCEPT ![p] = @ \ {h}] /\ avail' = avail
  BY DEF VisitKept
<1>4. CASE WillPruneForSize
  <2>1. /\ total' = [total EXCEPT ![p] = @ + ObjSize]
        /\ cand' = [cand EXCEPT ![p] = @ \cup {c}]
    BY <1>4 DEF VisitKept
  <2>2. c \notin cand[p]
    BY <1>1, <1>2 DEF CountAt
  <2> HIDE DEF c
  <2>3. LocalsOK'
    BY <1>1, <1>2, <1>3, <2>1, SizeAssumption DEF LocalsOK
  <2>4. /\ cand'[p] = cand[p] \cup {c} /\ files'[p] = files[p] \ {h}
        /\ total'[p] = total[p] + ObjSize /\ total[p] \in Nat
    BY <1>1, <1>3, <2>1 DEF LocalsOK
  <2>5. /\ IsFiniteSet(cand'[p]) /\ Cardinality(cand[p]) \in Nat
        /\ Cardinality(cand'[p]) = Cardinality(cand[p]) + 1
    <3>1. IsFiniteSet(cand[p])
      BY <1>1 DEF CountAt
    <3>2. IsFiniteSet(cand[p] \cup {c}) /\ Cardinality(cand[p] \cup {c}) = Cardinality(cand[p]) + 1
      BY <3>1, <2>2, FS_AddElement
    <3>3. Cardinality(cand[p]) \in Nat
      BY <3>1, FS_CardinalityType
    <3> QED
      BY <3>2, <3>3, <2>4
  <2>6. ObjSize * Cardinality(cand'[p]) <= total'[p]
    BY <1>1, <2>4, <2>5, SizeAssumption DEF CountAt
  <2>7. \A d \in cand'[p] : d.hash \notin files'[p]
    BY <1>1, <1>2, <2>4 DEF CountAt
  <2>8. CountAt(p)'
    BY <2>5, <2>6, <2>7 DEF CountAt
  <2>9. ASSUME NEW q \in Procs \ {p} PROVE CountAt(q)'
    BY <1>1, <1>3, <2>1 DEF CountAt, LocalsOK
  <2> QED
    BY <2>3, <2>8, <2>9
<1>5. CASE ~WillPruneForSize
  <2>1. total' = total /\ cand' = cand
    BY <1>5 DEF VisitKept
  <2> QED
    BY <1>1, <1>3, <2>1 DEF LocalsOK, CountAt
<1> QED
  BY <1>4, <1>5

\* What Evict does to the pruner's locals.
LEMMA EvictEffect ==
    ASSUME TInv, NEW p \in Procs, Evict(p)
    PROVE  \E c \in cand[p] :
             /\ cand' = [cand EXCEPT ![p] = @ \ {c}]
             /\ total' = [total EXCEPT ![p] = IF entry[c.hash] # none THEN @ - ObjSize ELSE @]
             /\ pc' = [pc EXCEPT ![p] =
                    IF cand[p] # {c} /\ (entry[c.hash] # none =>
                                AboveMaximum(total[p] - ObjSize, avail[p]))
                    THEN "evict" ELSE "pruned"]
             /\ files' = files /\ avail' = avail
<1>1. PICK c \in Oldest(p) :
        LET there == entry[c.hash] # none
            size == IF there THEN total[p] - ObjSize ELSE total[p]
            more == cand[p] # {c} /\ (there => AboveMaximum(size, avail[p]))
        IN  /\ cand' = [cand EXCEPT ![p] = @ \ {c}]
            /\ total' = [total EXCEPT ![p] = size]
            /\ pc' = [pc EXCEPT ![p] = IF more THEN "evict" ELSE "pruned"]
  BY DEF Evict
<1>2. c \in cand[p] /\ files' = files /\ avail' = avail
  BY DEF Oldest, Evict
<1>3. CASE entry[c.hash] # none
  BY <1>1, <1>2, <1>3
<1>4. CASE entry[c.hash] = none
  BY <1>1, <1>2, <1>4
<1> QED
  BY <1>3, <1>4

\* Evicting a candidate takes its size, which was counted, off the total.
LEMMA EvictCounted ==
    ASSUME TInv, NEW p \in Procs, Evict(p)
    PROVE  LocalsOK' /\ \A q \in Procs : CountAt(q)'
<1>1. LocalsOK /\ \A q \in Procs : CountAt(q)
  BY DEF TInv, TypeOK, LocalsOK
<1>2. PICK c \in cand[p], n \in {0, ObjSize} :
        /\ cand' = [cand EXCEPT ![p] = @ \ {c}]
        /\ total' = [total EXCEPT ![p] = @ - n]
        /\ files' = files /\ avail' = avail
  <2>1. PICK c \in cand[p] :
          /\ cand' = [cand EXCEPT ![p] = @ \ {c}]
          /\ total' = [total EXCEPT ![p] = IF entry[c.hash] # none THEN @ - ObjSize ELSE @]
          /\ files' = files /\ avail' = avail
    BY EvictEffect
  <2>2. total[p] - 0 = total[p]
    BY <1>1 DEF LocalsOK
  <2> QED
    BY <2>1, <2>2
<1>3. /\ IsFiniteSet(cand[p]) /\ Cardinality(cand[p]) \in Nat
      /\ IsFiniteSet(cand[p] \ {c}) /\ Cardinality(cand[p] \ {c}) \in Nat
      /\ Cardinality(cand[p]) = Cardinality(cand[p] \ {c}) + 1
  <2>1. IsFiniteSet(cand[p])
    BY <1>1 DEF CountAt
  <2> QED
    BY <2>1, FS_RemoveElement, FS_CardinalityType
<1>4. ObjSize * Cardinality(cand[p] \ {c}) + ObjSize <= total[p] /\ total[p] \in Nat
  BY <1>1, <1>3, SizeAssumption DEF CountAt, LocalsOK
<1>5. /\ total[p] - n \in Nat
      /\ ObjSize * Cardinality(cand[p] \ {c}) <= total[p] - n
  <2>1. ObjSize * Cardinality(cand[p] \ {c}) \in Nat /\ ObjSize \in Nat
    BY <1>3, SizeAssumption
  <2> QED
    BY <2>1, <1>4, <1>2
<1>6. LocalsOK'
  BY <1>1, <1>2, <1>5 DEF LocalsOK
<1>7. /\ cand'[p] = cand[p] \ {c} /\ total'[p] = total[p] - n
  BY <1>1, <1>2 DEF LocalsOK
<1>8. CountAt(p)'
  BY <1>1, <1>2, <1>3, <1>5, <1>7 DEF CountAt
<1>9. ASSUME NEW q \in Procs \ {p} PROVE CountAt(q)'
  BY <1>1, <1>2 DEF CountAt, LocalsOK
<1> QED
  BY <1>6, <1>8, <1>9

\* Every step keeps the pruner's locals well typed and its account right.
LEMMA StepCount ==
    ASSUME TInv, [Next]_vars
    PROVE  LocalsOK' /\ \A q \in Procs : CountAt(q)'
<1>0. LocalsOK /\ \A q \in Procs : CountAt(q)
  BY DEF TInv, TypeOK, LocalsOK
<1>1. ASSUME UNCHANGED <<files, cand, total, avail>>
      PROVE  LocalsOK' /\ \A q \in Procs : CountAt(q)'
  BY <1>0, <1>1 DEF LocalsOK, CountAt
<1>2. ASSUME NEW p \in Procs, NEW fs \in SUBSET Hashes,
             files' = [files EXCEPT ![p] = fs], cand' = [cand EXCEPT ![p] = {}],
             total' = [total EXCEPT ![p] = 0], avail' = [avail EXCEPT ![p] = 0]
      PROVE  LocalsOK' /\ \A q \in Procs : CountAt(q)'
  <2>1. LocalsOK'
    BY <1>0, <1>2, SizeAssumption DEF LocalsOK
  <2>2. cand'[p] = {} /\ total'[p] = 0
    BY <1>0, <1>2 DEF LocalsOK
  <2>3. CountAt(p)'
    BY <2>2, FS_EmptySet, SizeAssumption DEF CountAt
  <2>4. ASSUME NEW q \in Procs \ {p} PROVE CountAt(q)'
    BY <1>0, <1>2 DEF CountAt, LocalsOK
  <2> QED
    BY <2>1, <2>3, <2>4
<1>3. ASSUME NEW p \in Procs, Begin(p) \/ Kill(p)
      PROVE  LocalsOK' /\ \A q \in Procs : CountAt(q)'
  BY <1>2, <1>3 DEF Begin, Kill, ClearPruner
<1>4. ASSUME NEW p \in Procs, BeginPrune(p)
      PROVE  LocalsOK' /\ \A q \in Procs : CountAt(q)'
  BY <1>2, <1>4 DEF BeginPrune
<1>5. ASSUME NEW p \in Procs, NEW h \in Hashes, VisitExpired(p, h)
      PROVE  LocalsOK' /\ \A q \in Procs : CountAt(q)'
  <2>1. /\ files' = [files EXCEPT ![p] = @ \ {h}]
        /\ UNCHANGED <<cand, total, avail>>
    BY <1>5 DEF VisitExpired
  <2> QED
    BY <1>0, <2>1 DEF LocalsOK, CountAt
<1>6. ASSUME NEW p \in Procs, PruneForSize(p)
      PROVE  LocalsOK' /\ \A q \in Procs : CountAt(q)'
  <2>1. PICK free \in DiskFree : avail' = [avail EXCEPT ![p] = AvailableSpace(total[p], free)]
    BY <1>6 DEF PruneForSize
  <2>2. AvailableSpace(total[p], free) \in 0..MaxUlong
    BY <1>0, SizeAssumption DEF AvailableSpace, LocalsOK
  <2>3. UNCHANGED <<files, cand, total>>
    BY <1>6 DEF PruneForSize
  <2> QED
    BY <1>0, <2>1, <2>2, <2>3 DEF LocalsOK, CountAt
<1>7. CASE UNCHANGED vars
  BY <1>1, <1>7 DEF vars, prune
<1> QED
  BY <1>1, <1>3, <1>4, <1>5, <1>6, <1>7, KeptCounted, EvictCounted, QuietSteps DEF Next, Prune

\* TInv is an invariant.
LEMMA TInvInvariant == Spec => []TInv
<1>1. ASSUME Init PROVE TInv
  <2>1. TypeOK
    BY <1>1, InitIInv, SizeAssumption DEF Init, TypeOK, IInv
  <2>2. ASSUME NEW p \in Procs PROVE CountAt(p)
    BY <1>1, FS_EmptySet, SizeAssumption DEF Init, CountAt
  <2> QED
    BY <1>1, <2>1, <2>2, InitIInv DEF TInv
<1>2. ASSUME TInv, [Next]_vars PROVE TInv'
  <2>1. IInv'
    BY <1>2, StepOpen, StepIsolation DEF TInv, IInv, Isolation
  <2>2. TypeOK'
    BY <1>2, <2>1, StepShared, StepCount DEF TypeOK, IInv, SharedOK, LocalsOK
  <2> QED
    BY <1>2, <2>1, <2>2, StepCount DEF TInv
<1> QED
  BY <1>1, <1>2, PTL DEF Spec

\* All state keeps its type; in particular cacheSize, which pruneForSize counts
\* down as it removes files, never goes below zero.
THEOREM TypeCorrect == Spec => []TypeOK
<1>1. TInv => TypeOK
  BY DEF TInv
<1> QED
  BY TInvInvariant, <1>1, PTL

-----------------------------------------------------------------------------
(* Who makes a process fail.  A process fails when it misses a file: the    *)
(* entry it found in the directory, its own output or its temporary file.   *)
(* FailAt says that at each step which leads to that, the file is there     *)
(* unless a pruner came by.                                                 *)

FailAt(p) ==
    /\ pc[p] \in {"remove", "retrieve", "copying", "touch"} /\ entry[want[p]] = none
            => p \in pruned
    /\ pc[p] \in {"write", "create", "copyopen"} /\ Output(p) = none => p \in pruned
    /\ pc[p] \in {"copyopen", "storing", "rename"} /\ tmp[p] = none => p \in pruned
    /\ pc[p] \in {"tmps", "expiry"} /\ (\E h \in files[p] : entry[h] = none) => p \in pruned
    /\ pc[p] = "failed" => p \in pruned

\* What removes a file adds to pruned every process that may be relying on it.
LEMMA StepFails ==
    ASSUME TInv, \A q \in Procs : FailAt(q), [Next]_vars
    PROVE  (\A q \in Procs : FailAt(q))'
<1> DEFINE Fail == \A q \in Procs : FailAt(q)
<1> USE NoneAssumption DEF Step, DiskOK, OpenAt, Ended, Compiling, Pruning,
        names, disk, comp, prune, hist, FailAt, Output
<1>0. /\ DiskOK /\ (\A q \in Procs : OpenAt(q)) /\ Fail
      /\ pruned \subseteq Procs /\ files \in [Procs -> SUBSET Hashes]
  BY DEF TInv, TypeOK, IInv
<1>1. ASSUME NEW p \in Procs, Begin(p) PROVE Fail'
  BY <1>0, <1>1 DEF Begin, ClearPruner
<1>2. ASSUME NEW p \in Procs, Lookup(p) PROVE Fail'
  BY <1>0, <1>2 DEF Lookup
<1>3. ASSUME NEW p \in Procs, RemoveOutput(p) PROVE Fail'
  BY <1>0, <1>3 DEF RemoveOutput
<1>4. ASSUME NEW p \in Procs, RetrieveCopy(p) PROVE Fail'
  BY <1>0, <1>4, FreshInode DEF RetrieveCopy
<1>5. ASSUME NEW p \in Procs, CopyDone(p) PROVE Fail'
  BY <1>0, <1>5 DEF CopyDone
<1>6. ASSUME NEW p \in Procs, RetrieveHardLink(p) PROVE Fail'
  BY <1>0, <1>6 DEF RetrieveHardLink
<1>7. ASSUME NEW p \in Procs, RetrieveSymLink(p) PROVE Fail'
  BY <1>0, <1>7 DEF RetrieveSymLink
<1>8. ASSUME NEW p \in Procs, Touch(p) PROVE Fail'
  BY <1>0, <1>8 DEF Touch
<1>9. ASSUME NEW p \in Procs, RecoverFails(p) PROVE Fail'
  BY <1>0, <1>9 DEF RecoverFails
<1>10. ASSUME NEW p \in Procs, Optimize(p) PROVE Fail'
  BY <1>0, <1>10 DEF Optimize
<1>11. ASSUME NEW p \in Procs, OpenExisting(p) PROVE Fail'
  BY <1>0, <1>11 DEF OpenExisting
<1>12. ASSUME NEW p \in Procs, OpenNew(p) PROVE Fail'
  <2>1. CASE link[p] = none
    BY <1>0, <1>12, <2>1, FreshInode DEF OpenNew
  <2>2. CASE link[p] # none
    BY <1>0, <1>12, <2>2, FreshInode DEF OpenNew
  <2> QED
    BY <2>1, <2>2
<1>13. ASSUME NEW p \in Procs, Write(p) PROVE Fail'
  BY <1>0, <1>13 DEF Write
<1>14. ASSUME NEW p \in Procs, WriteFails(p) PROVE Fail'
  BY <1>0, <1>14 DEF WriteFails
<1>15. ASSUME NEW p \in Procs, CreateTemp(p) PROVE Fail'
  BY <1>0, <1>15, FreshInode DEF CreateTemp
<1>16. ASSUME NEW p \in Procs, StoreOpen(p) PROVE Fail'
  BY <1>0, <1>16, FreshInode DEF StoreOpen
<1>17. ASSUME NEW p \in Procs, StoreCopied(p) PROVE Fail'
  BY <1>0, <1>17 DEF StoreCopied
<1>18. ASSUME NEW p \in Procs, Rename(p) PROVE Fail'
  BY <1>0, <1>18 DEF Rename
<1>19. ASSUME NEW p \in Procs, StoreFails(p) PROVE Fail'
  BY <1>0, <1>19 DEF StoreFails
<1>20. ASSUME NEW p \in Procs, BeginPrune(p) PROVE Fail'
  <2>1. /\ pc[p] \in Ended /\ pc' = [pc EXCEPT ![p] = "tmps"]
        /\ files' = [files EXCEPT ![p] = {h \in Hashes : entry[h] # none}]
        /\ want' = [want EXCEPT ![p] = none] /\ pruned' = pruned \ {p}
        /\ UNCHANGED <<entry, tmp, out, link>>
    BY <1>20 DEF BeginPrune
  <2>2. FailAt(p)'
    <3>1. files'[p] \subseteq {h \in Hashes : entry[h] # none}
      BY <1>0, <2>1
    <3> QED
      BY <1>0, <2>1, <3>1
  <2>3. ASSUME NEW q \in Procs \ {p} PROVE FailAt(q)'
    <3>1. pc'[q] = pc[q] /\ files'[q] = files[q] /\ want'[q] = want[q]
          /\ (q \in pruned' <=> q \in pruned)
      BY <1>0, <2>1
    <3> QED
      BY <1>0, <2>1, <3>1
  <2> QED
    BY <2>2, <2>3
<1>21. ASSUME NEW p \in Procs, DeleteTemps(p) PROVE Fail'
  BY <1>0, <1>21 DEF DeleteTemps, Running
<1>22. ASSUME NEW p \in Procs, PruneForSize(p) PROVE Fail'
  BY <1>0, <1>22 DEF PruneForSize
<1>23. ASSUME NEW p \in Procs, Evict(p) PROVE Fail'
  <2>1. PICK c \in Oldest(p), to \in {"evict", "pruned"} :
            /\ entry' = [entry EXCEPT ![c.hash] = none]
            /\ pruned' = IF entry[c.hash] # none THEN pruned \cup (Running \ {p}) ELSE pruned
            /\ pc' = [pc EXCEPT ![p] = to]
    BY <1>23 DEF Evict
  <2>2. pc[p] = "evict" /\ UNCHANGED <<tmp, out, link, want, files>>
    BY <1>23 DEF Evict
  <2> QED
    BY <1>0, <2>1, <2>2 DEF Running
<1>24. ASSUME NEW p \in Procs, Kill(p) PROVE Fail'
  BY <1>0, <1>24 DEF Kill, ClearPruner
<1>25. ASSUME NEW p \in Procs, NEW h \in Hashes, VisitExpired(p, h) PROVE Fail'
  <2>1. /\ pc[p] = "expiry" /\ files' = [files EXCEPT ![p] = @ \ {h}]
        /\ entry' = [entry EXCEPT ![h] = none]
        /\ pruned' = pruned \cup (Running \ {p})
        /\ UNCHANGED <<tmp, out, link, pc, want>>
    BY <1>25 DEF VisitExpired
  <2>2. FailAt(p)'
    <3>1. files'[p] = files[p] \ {h}
      BY <1>0, <2>1
    <3> QED
      BY <1>0, <2>1, <3>1
  <2>3. ASSUME NEW q \in Procs \ {p} PROVE FailAt(q)'
    <3>1. CASE pc[q] \in Ended
      BY <1>0, <2>1, <3>1
    <3>2. CASE pc[q] \notin Ended
      BY <2>1, <3>2 DEF Running
    <3> QED
      BY <3>1, <3>2
  <2> QED
    BY <2>2, <2>3
<1>26. ASSUME NEW p \in Procs, NEW h \in Hashes, VisitKept(p, h) PROVE Fail'
  BY <1>0, <1>26 DEF VisitKept
<1>27. ASSUME NEW p \in Procs, NEW h \in Hashes, VisitVanished(p, h) PROVE Fail'
  BY <1>0, <1>27 DEF VisitVanished
<1>28. CASE UNCHANGED vars
  BY <1>0, <1>28 DEF vars
<1> QED
  BY <1>1, <1>2, <1>3, <1>4, <1>5, <1>6, <1>7, <1>8, <1>9, <1>10, <1>11, <1>12, <1>13,
     <1>14, <1>15, <1>16, <1>17, <1>18, <1>19, <1>20, <1>21, <1>22, <1>23, <1>24,
     <1>25, <1>26, <1>27, <1>28 DEF Next, Recover, Generate, Store, Prune

\* A compiler or a pruner fails over the cache (recoverObjectFile's and
\* cacheObjectFile's fatal(), the exception of the pruner's isFile) only if a
\* pruner removed a cache file while it was running; errors of the file system
\* itself are not in the model.
THEOREM FailuresFromPruning == Spec => []FailsOnlyUnderPrune
<1> DEFINE FInv == \A p \in Procs : FailAt(p)
<1>1. Init => FInv
  BY DEF Init, FailAt
<1>2. ASSUME TInv, FInv, [Next]_vars PROVE FInv'
  BY <1>2, StepFails
<1>3. FInv => FailsOnlyUnderPrune
  BY DEF FailAt, FailsOnlyUnderPrune
<1> QED
  BY <1>1, <1>2, <1>3, TInvInvariant, PTL DEF Spec

-----------------------------------------------------------------------------
(* The pruner keeps the cache within its limits.  The candidates that are   *)
(* left in the directory may be fewer than it counted, since others remove  *)
(* files too; AboveMaximum is monotone in the size only as long as 100      *)
(* times the size does not wrap, which holds for any cache directory that   *)
(* fits in 1/100 of what a ulong can count.                                 *)

\* The biggest size a pruner can add up.
Fits == IsFiniteSet(Hashes) /\ 100 * (ObjSize * Cardinality(Hashes)) <= MaxUlong

\* What is counted and what may still be is at most one file for each hash, and
\* a pruner that is finished has nothing left or is within its limits.
LimitAt(p) ==
    /\ total[p] + ObjSize * Cardinality(files[p]) <= ObjSize * Cardinality(Hashes)
    /\ pc[p] = "pruned" => cand[p] = {} \/ ~AboveMaximum(total[p], avail[p])

\* A smaller cache is above no limit that a bigger one is below.
LEMMA MonotoneLimit ==
    ASSUME NEW small \in Nat, NEW big \in Nat, small <= big, 100 * big <= MaxUlong,
           NEW space \in Nat, AboveMaximum(small, space)
    PROVE  AboveMaximum(big, space)
<1> USE SizeAssumption
<1>1. CASE space = 0
  BY <1>1 DEF AboveMaximum
<1>2. CASE SizeLimit > 0 /\ small > SizeLimit
  BY <1>2 DEF AboveMaximum
<1>3. CASE space # 0 /\ (((100 * small) % (MaxUlong + 1)) \div space) > Percent
  <2>1. (100 * small) % (MaxUlong + 1) = 100 * small /\ (100 * big) % (MaxUlong + 1) = 100 * big
    OBVIOUS
  <2>2. ASSUME NEW a \in Nat, NEW b \in Nat, a <= b, NEW s \in Nat \ {0}
        PROVE  a \div s <= b \div s /\ a \div s \in Nat /\ b \div s \in Nat
    BY <2>2
  <2>3. (100 * small) \div space <= (100 * big) \div space
        /\ (100 * small) \div space \in Nat /\ (100 * big) \div space \in Nat
    BY <1>3, <2>2
  <2>4. ((100 * big) \div space) > Percent
    BY <1>3, <2>1, <2>3
  <2> QED
    BY <2>1, <2>4 DEF AboveMaximum
<1> QED
  BY <1>1, <1>2, <1>3 DEF AboveMaximum

\* The files a pruner has still to visit are finitely many.
LEMMA FilesFinite ==
    ASSUME TInv, Fits, NEW p \in Procs
    PROVE  /\ IsFiniteSet(files[p]) /\ Cardinality(files[p]) \in Nat
           /\ Cardinality(files[p]) <= Cardinality(Hashes) /\ Cardinality(Hashes) \in Nat
<1>1. files[p] \subseteq Hashes /\ IsFiniteSet(Hashes)
  BY DEF TInv, TypeOK, Fits
<1>2. IsFiniteSet(files[p])
  BY <1>1, FS_Subset
<1> QED
  BY <1>1, <1>2, FS_Subset, FS_CardinalityType

\* Visiting a file moves at most its size from what may be counted to what is.
LEMMA VisitLimit ==
    ASSUME TInv, Fits, NEW p \in Procs, LimitAt(p), NEW h \in files[p],
           NEW n \in {0, ObjSize}, pc[p] # "pruned",
           files'[p] = files[p] \ {h}, total'[p] = total[p] + n, pc' = pc
    PROVE  LimitAt(p)'
<1>1. /\ Cardinality(files[p]) \in Nat /\ Cardinality(files[p] \ {h}) \in Nat
      /\ Cardinality(files[p]) = Cardinality(files[p] \ {h}) + 1
      /\ Cardinality(Hashes) \in Nat
  <2>1. IsFiniteSet(files[p]) /\ Cardinality(files[p]) \in Nat /\ Cardinality(Hashes) \in Nat
    BY FilesFinite
  <2>2. IsFiniteSet(files[p] \ {h}) /\ Cardinality(files[p] \ {h}) = Cardinality(files[p]) - 1
    BY <2>1, FS_RemoveElement
  <2>3. Cardinality(files[p] \ {h}) \in Nat
    BY <2>2, FS_CardinalityType
  <2> QED
    BY <2>1, <2>2, <2>3
<1>2. ObjSize * Cardinality(files[p]) = ObjSize * Cardinality(files[p] \ {h}) + ObjSize
  BY <1>1, SizeAssumption
<1>3. /\ ObjSize * Cardinality(files[p] \ {h}) \in Nat /\ ObjSize \in Nat
      /\ ObjSize * Cardinality(Hashes) \in Nat /\ total[p] \in Nat
  BY <1>1, SizeAssumption DEF TInv, TypeOK
<1>4. total'[p] + ObjSize * Cardinality(files[p] \ {h}) <= ObjSize * Cardinality(Hashes)
  BY <1>2, <1>3 DEF LimitAt
<1> QED
  BY <1>4 DEF LimitAt

\* Every step keeps LimitAt.
LEMMA StepLimit ==
    ASSUME TInv, Fits, \A q \in Procs : LimitAt(q), [Next]_vars
    PROVE  (\A q \in Procs : LimitAt(q))'
<1>0. /\ files \in [Procs -> SUBSET Hashes] /\ cand \in [Procs -> SUBSET Candidates]
      /\ total \in [Procs -> Nat] /\ avail \in [Procs -> 0..MaxUlong]
      /\ pc \in [Procs -> Ended \cup Compiling \cup Pruning]
  BY DEF TInv, TypeOK, DiskOK
<1>1. ASSUME NEW q \in Procs, files'[q] = files[q], cand'[q] = cand[q], total'[q] = total[q],
             avail'[q] = avail[q], pc'[q] = "pruned" => pc[q] = "pruned"
      PROVE  LimitAt(q)'
  BY <1>1 DEF LimitAt, AboveMaximum
<1>2. ASSUME NEW p \in Procs, files'[p] \subseteq Hashes, total'[p] = 0, pc'[p] # "pruned"
      PROVE  LimitAt(p)'
  <2>1. /\ Cardinality(files'[p]) \in Nat /\ Cardinality(Hashes) \in Nat
        /\ Cardinality(files'[p]) <= Cardinality(Hashes)
    <3>1. IsFiniteSet(Hashes)
      BY DEF Fits
    <3> QED
      BY <1>2, <3>1, FS_Subset, FS_CardinalityType
  <2>2. ObjSize * Cardinality(files'[p]) <= ObjSize * Cardinality(Hashes)
        /\ ObjSize * Cardinality(files'[p]) \in Nat
    BY <2>1, SizeAssumption
  <2> QED
    BY <1>2, <2>2 DEF LimitAt
<1>3. ASSUME NEW p \in Procs, Begin(p) \/ Kill(p) PROVE (\A q \in Procs : LimitAt(q))'
  <2>1. /\ files' = [files EXCEPT ![p] = {}] /\ cand' = [cand EXCEPT ![p] = {}]
        /\ total' = [total EXCEPT ![p] = 0] /\ avail' = [avail EXCEPT ![p] = 0]
        /\ \E to \in {"lookup", "idle"} : pc' = [pc EXCEPT ![p] = to]
    BY <1>3 DEF Begin, Kill, ClearPruner
  <2>2. LimitAt(p)'
    BY <1>0, <1>2, <2>1
  <2>3. ASSUME NEW q \in Procs \ {p} PROVE LimitAt(q)'
    BY <1>0, <1>1, <2>1
  <2> QED
    BY <2>2, <2>3
<1>4. ASSUME NEW p \in Procs, BeginPrune(p) PROVE (\A q \in Procs : LimitAt(q))'
  <2>1. PICK fs \in SUBSET Hashes :
           /\ files' = [files EXCEPT ![p] = fs] /\ cand' = [cand EXCEPT ![p] = {}]
           /\ total' = [total EXCEPT ![p] = 0] /\ avail' = [avail EXCEPT ![p] = 0]
           /\ pc' = [pc EXCEPT ![p] = "tmps"]
    BY <1>4 DEF BeginPrune
  <2>2. LimitAt(p)'
    BY <1>0, <1>2, <2>1
  <2>3. ASSUME NEW q \in Procs \ {p} PROVE LimitAt(q)'
    BY <1>0, <1>1, <2>1
  <2> QED
    BY <2>2, <2>3
<1>5. ASSUME NEW p \in Procs, NEW h \in Hashes, VisitExpired(p, h) \/ VisitKept(p, h)
      PROVE  (\A q \in Procs : LimitAt(q))'
  <2>1. /\ pc[p] = "expiry" /\ h \in files[p] /\ pc' = pc /\ avail' = avail
        /\ files' = [files EXCEPT ![p] = @ \ {h}]
    BY <1>5 DEF VisitExpired, VisitKept
  <2>2. PICK n \in {0, ObjSize} : total' = [total EXCEPT ![p] = @ + n]
    <3>1. total = [total EXCEPT ![p] = @ + 0]
      BY <1>0
    <3> QED
      BY <1>5, <3>1 DEF VisitExpired, VisitKept
  <2>3. LimitAt(p)'
    BY <1>0, <2>1, <2>2, VisitLimit
  <2>4. ASSUME NEW q \in Procs \ {p} PROVE LimitAt(q)'
    <3>1. cand'[q] = cand[q]
      BY <1>0, <1>5 DEF VisitExpired, VisitKept
    <3> QED
      BY <1>0, <1>1, <2>1, <2>2, <3>1
  <2> QED
    BY <2>3, <2>4
<1>6. ASSUME NEW p \in Procs, PruneForSize(p) PROVE (\A q \in Procs : LimitAt(q))'
  <2>1. PICK space \in 0..MaxUlong :
           /\ avail' = [avail EXCEPT ![p] = space]
           /\ pc' = [pc EXCEPT ![p] = IF cand[p] # {} /\ AboveMaximum(total[p], space)
                                      THEN "evict" ELSE "pruned"]
    <3>1. PICK free \in DiskFree :
             /\ avail' = [avail EXCEPT ![p] = AvailableSpace(total[p], free)]
             /\ pc' = [pc EXCEPT ![p] =
                   IF cand[p] # {} /\ AboveMaximum(total[p], AvailableSpace(total[p], free))
                   THEN "evict" ELSE "pruned"]
      BY <1>6 DEF PruneForSize, Step
    <3>2. AvailableSpace(total[p], free) \in 0..MaxUlong
      BY <1>0, SizeAssumption DEF AvailableSpace
    <3> QED
      BY <3>1, <3>2
  <2>2. UNCHANGED <<files, cand, total>>
    BY <1>6 DEF PruneForSize
  <2>3. avail'[p] = space /\ (pc'[p] = "pruned" => cand[p] = {} \/ ~AboveMaximum(total[p], space))
    BY <1>0, <2>1
  <2>4. LimitAt(p)'
    BY <2>2, <2>3 DEF LimitAt, AboveMaximum
  <2>5. ASSUME NEW q \in Procs \ {p} PROVE LimitAt(q)'
    BY <1>0, <1>1, <2>1, <2>2
  <2> QED
    BY <2>4, <2>5
<1>7. ASSUME NEW p \in Procs, Evict(p) PROVE (\A q \in Procs : LimitAt(q))'
  <2>1. PICK c \in cand[p] :
           /\ cand' = [cand EXCEPT ![p] = @ \ {c}]
           /\ total' = [total EXCEPT ![p] = IF entry[c.hash] # none THEN @ - ObjSize ELSE @]
           /\ pc' = [pc EXCEPT ![p] =
                  IF cand[p] # {c} /\ (entry[c.hash] # none =>
                              AboveMaximum(total[p] - ObjSize, avail[p]))
                  THEN "evict" ELSE "pruned"]
           /\ files' = files /\ avail' = avail
    BY <1>7, EvictEffect
  <2>2. total'[p] <= total[p] /\ total'[p] \in Nat
    <3>1. total'[p] \in Nat
      BY <1>7, EvictCounted DEF LocalsOK
    <3> QED
      BY <1>0, <2>1, <3>1, SizeAssumption
  <2>3. pc'[p] = "pruned" => cand'[p] = {} \/ ~AboveMaximum(total'[p], avail[p])
    BY <1>0, <2>1
  <2>4. total'[p] + ObjSize * Cardinality(files[p]) <= ObjSize * Cardinality(Hashes)
    <3>1. ObjSize * Cardinality(files[p]) \in Nat /\ ObjSize * Cardinality(Hashes) \in Nat
      BY FilesFinite, SizeAssumption
    <3> QED
      BY <1>0, <2>2, <3>1 DEF LimitAt
  <2>5. LimitAt(p)'
    BY <2>1, <2>3, <2>4 DEF LimitAt, AboveMaximum
  <2>6. ASSUME NEW q \in Procs \ {p} PROVE LimitAt(q)'
    BY <1>0, <1>1, <2>1
  <2> QED
    BY <2>5, <2>6
<1>8. CASE UNCHANGED vars
  BY <1>1, <1>8 DEF vars, prune
<1> QED
  BY <1>1, <1>3, <1>4, <1>5, <1>6, <1>7, <1>8, QuietSteps DEF Next, Prune

\* What a finished pruner leaves of the files it visited is within its limits
\* (pruneForSize), whatever other pruners and compilers did to its candidates
\* meanwhile, if 100 times the size of the cache does not wrap in a ulong.
THEOREM PruningSuffices == Fits => (Spec => []PruneEffective)
<1> SUFFICES ASSUME Fits PROVE Spec => []PruneEffective
  OBVIOUS
<1> DEFINE LInv == \A p \in Procs : LimitAt(p)
<1>1. ASSUME Init PROVE LInv
  <2>1. IsFiniteSet({}) /\ Cardinality({}) = 0 /\ Cardinality(Hashes) \in Nat
    BY FS_EmptySet, FS_CardinalityType DEF Fits
  <2>2. ObjSize * 0 = 0 /\ ObjSize * Cardinality(Hashes) \in Nat
    BY <2>1, SizeAssumption
  <2> QED
    BY <1>1, <2>1, <2>2 DEF Init, LimitAt
<1>2. ASSUME TInv, LInv, [Next]_vars PROVE LInv'
  BY <1>2, StepLimit
<1>3. ASSUME TInv, LInv PROVE PruneEffective
  <2> SUFFICES ASSUME NEW p \in Procs, pc[p] = "pruned",
                      NEW left \in SUBSET cand[p], left # {}
               PROVE  ~AboveMaximum(ObjSize * Cardinality(left), avail[p])
    BY DEF PruneEffective
  <2>1. /\ total[p] \in Nat /\ avail[p] \in Nat /\ CountAt(p) /\ LimitAt(p)
    BY <1>3, SizeAssumption DEF TInv, TypeOK
  <2>2. /\ Cardinality(left) \in Nat /\ Cardinality(cand[p]) \in Nat
        /\ Cardinality(left) <= Cardinality(cand[p])
    <3>1. IsFiniteSet(cand[p])
      BY <2>1 DEF CountAt
    <3> QED
      BY <3>1, FS_Subset, FS_CardinalityType
  <2>3. /\ ObjSize * Cardinality(left) \in Nat
        /\ ObjSize * Cardinality(left) <= ObjSize * Cardinality(cand[p])
    BY <2>2, SizeAssumption
  <2>4. ObjSize * Cardinality(left) <= total[p]
    <3>1. ObjSize * Cardinality(cand[p]) \in Nat
      BY <2>2, SizeAssumption
    <3> QED
      BY <2>1, <2>3, <3>1 DEF CountAt
  <2>5. 100 * total[p] <= MaxUlong
    <3>1. ObjSize * Cardinality(files[p]) \in Nat /\ ObjSize * Cardinality(Hashes) \in Nat
      BY <1>3, FilesFinite, SizeAssumption
    <3>2. total[p] <= ObjSize * Cardinality(Hashes)
      BY <2>1, <3>1 DEF LimitAt
    <3> QED
      BY <2>1, <3>1, <3>2, SizeAssumption DEF Fits
  <2>6. ~AboveMaximum(total[p], avail[p])
    BY <2>1 DEF LimitAt
  <2> QED
    BY <2>1, <2>3, <2>4, <2>5, <2>6, MonotoneLimit
<1> QED
  BY <1>1, <1>2, <1>3, TInvInvariant, PTL DEF Spec
=============================================================================
