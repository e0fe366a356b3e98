------------------------- MODULE MCConditionVariable -------------------------
(* Instances of the condition variable for TLC.                            *)
EXTENDS ConditionVariable
=============================================================================
