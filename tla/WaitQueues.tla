----------------------------- MODULE WaitQueues -----------------------------
(***************************************************************************)
(* What the primitives expect of their waiter lists: every holder has a    *)
(* FIFO queue of operations; an operation is in at most one queue, joins   *)
(* at the back, may leave from any place, and a whole queue can be taken   *)
(* over by an empty holder without losing or reordering anybody.           *)
(***************************************************************************)
EXTENDS Integers, Sequences, SequencesExt

CONSTANTS Holders, Ops

VARIABLE queue       \* queue[h]: the operations waiting in h, front first

Waiting == {o \in Ops : \E h \in Holders : Contains(queue[h], o)}

Init == queue = [h \in Holders |-> << >>]

Join(o, h) ==
  /\ o \notin Waiting
  /\ queue' = [queue EXCEPT ![h] = Append(@, o)]

Leave(h, i) ==
  queue' = [queue EXCEPT ![h] = RemoveAt(@, i)]

TakeOver(to, from) ==
  /\ queue[to] = << >>
  /\ queue' = [queue EXCEPT ![to] = queue[from], ![from] = << >>]

Next ==
  \/ \E o \in Ops, h \in Holders : Join(o, h)
  \/ \E h \in Holders : \E i \in DOMAIN queue[h] : Leave(h, i)
  \/ \E to, from \in Holders : to # from /\ TakeOver(to, from)

Spec == Init /\ [][Next]_queue
=============================================================================
