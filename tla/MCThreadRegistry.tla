-------------------------- MODULE MCThreadRegistry --------------------------
(* Model-checking instances of ThreadRegistry. *)
EXTENDS ThreadRegistry
=============================================================================
