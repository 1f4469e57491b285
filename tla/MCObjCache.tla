---------------------------- MODULE MCObjCache ----------------------------
(***************************************************************************)
(* ObjCache for TLC: two processes, two modules' hashes, and as many inodes *)
(* as can be in use at a time.                                              *)
(***************************************************************************)
EXTENDS ObjCache, TLC

\* The processes differ in nothing but their output paths, the hashes in nothing.
CacheSymmetry == Permutations(Procs) \cup Permutations(Hashes)

\* The content of an inode nobody refers to is never looked at.
LiveDisk == [i \in Live \ {none} |-> <<obj[i], atime[i]>>]
CacheView == <<names, LiveDisk, now, pc, comp, prune, runs, hist>>
=============================================================================
