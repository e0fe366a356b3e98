---------------------------- MODULE MCSharedMutex ----------------------------
(* Instances of the shared mutex and of lock guards on it for TLC.         *)
EXTENDS LockGuard
=============================================================================
