----------------------------- MODULE MCMonitor -----------------------------
(* Model-checking instances of Monitor. *)
EXTENDS Monitor
=============================================================================
