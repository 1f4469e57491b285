------------------------------- MODULE RWLock -------------------------------
(***************************************************************************)
(* What a read/write lock promises, whatever its policy: any number of     *)
(* readers, or one writer and nobody else.                                 *)
(***************************************************************************)
CONSTANT Threads

VARIABLES readers, writers   \* the threads that hold the lock

vars == <<readers, writers>>

Init == readers = {} /\ writers = {}

BeginRead(t) ==
    /\ t \notin readers /\ writers = {}
    /\ readers' = readers \cup {t}
    /\ UNCHANGED writers

BeginWrite(t) ==
    /\ readers = {} /\ writers = {}
    /\ writers' = {t}
    /\ UNCHANGED readers

EndRead(t) ==
    /\ t \in readers
    /\ readers' = readers \ {t}
    /\ UNCHANGED writers

EndWrite(t) ==
    /\ t \in writers
    /\ writers' = writers \ {t}
    /\ UNCHANGED readers

Next == \E t \in Threads : BeginRead(t) \/ BeginWrite(t) \/ EndRead(t) \/ EndWrite(t)

Spec == Init /\ [][Next]_vars
=============================================================================
