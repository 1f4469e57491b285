------------------------- MODULE MCLowLevelThreads -------------------------
(* Model-checking instances of LowLevelThreads. *)
EXTENDS LowLevelThreads, TLC

\* Tasks are interchangeable.
TaskSymmetry == Permutations(Tasks)
=============================================================================
