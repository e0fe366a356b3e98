------------------------------ MODULE FifoLock ------------------------------
(***************************************************************************)
(* What a boost.sam mutex promises its clients: at most one owner, given   *)
(* in the order of arrival.  A client takes a lock nobody owns or waits    *)
(* for; otherwise it joins the queue.  A release hands the lock to the     *)
(* front of the queue, so nobody can slip in between.  Clients may leave   *)
(* the queue without the lock (cancellation), all of them may be turned    *)
(* away at once (shutdown, destruction), and the lock may be lost with a   *)
(* handler that is destroyed instead of being run.                         *)
(***************************************************************************)
EXTENDS Integers, Sequences, SequencesExt

CONSTANTS Clients,
          None,      \* the lock is free
          Lost       \* the lock was given to a handler that was then destroyed

VARIABLES owner, queue

Init == owner = None /\ queue = << >>

Take(c) ==
  /\ owner = None /\ queue = << >>
  /\ owner' = c
  /\ UNCHANGED queue

Wait(c) ==
  /\ owner \notin {None, c}
  /\ ~ Contains(queue, c)
  /\ queue' = Append(queue, c)
  /\ UNCHANGED owner

Release ==
  /\ owner \in Clients
  /\ \/ queue = << >> /\ owner' = None /\ UNCHANGED queue
     \/ queue # << >> /\ owner' = Head(queue) /\ queue' = Tail(queue)

Leave(i) ==
  /\ queue' = RemoveAt(queue, i)
  /\ UNCHANGED owner

TurnAway ==
  /\ queue' = << >>
  /\ UNCHANGED owner

Lose ==
  /\ owner \in Clients
  /\ owner' = Lost
  /\ UNCHANGED queue

Next ==
  \/ \E c \in Clients : Take(c) \/ Wait(c)
  \/ Release
  \/ \E i \in DOMAIN queue : Leave(i)
  \/ TurnAway
  \/ Lose

Spec == Init /\ [][Next]_<<owner, queue>>
=============================================================================
