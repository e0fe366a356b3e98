--------------------------- MODULE MCGuardedMutex ----------------------------
(* Instances of the mutex and of guarded operations on it for TLC.         *)
EXTENDS GuardedMutex
=============================================================================
