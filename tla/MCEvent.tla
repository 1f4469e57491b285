------------------------------ MODULE MCEvent ------------------------------
(* Model-checking instances of Event: see the configurations. *)
EXTENDS Event
=============================================================================
