------------------------------ MODULE MCBarrier ------------------------------
(* Instances of the barrier for TLC.                                       *)
EXTENDS Barrier
=============================================================================
