---------------------------- MODULE MCSemaphore -----------------------------
(* Instances of the semaphore and of guarded operations on it for TLC.     *)
EXTENDS GuardedSemaphore
=============================================================================
