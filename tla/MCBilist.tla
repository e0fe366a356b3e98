------------------------------ MODULE MCBilist ------------------------------
(* The pointer level of the waiter lists on a small set of nodes: two      *)
(* holders are enough for a queue to be moved back and forth, three        *)
(* operations for one to have two neighbours that are operations and for   *)
(* the last arrival at a barrier to find others in the queue.              *)
EXTENDS ArriveList
=============================================================================
