-------------------------- MODULE MCCleanupScopes --------------------------
(* Function bodies of a few statements, compiled for both personalities.   *)
EXTENDS CleanupScopes

MCCatchLists == {<<"Exception">>, <<"Error", "Throwable">>}
=============================================================================
