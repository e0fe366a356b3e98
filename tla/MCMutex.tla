------------------------------ MODULE MCMutex -------------------------------
(* Instances of the mutex for TLC.                                         *)
EXTENDS Mutex
=============================================================================
