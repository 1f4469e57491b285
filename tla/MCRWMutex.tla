----------------------------- MODULE MCRWMutex -----------------------------
(* Model-checking instances of RWMutex. *)
EXTENDS RWMutex
=============================================================================
