---------------------------- MODULE FifoSemaphore ----------------------------
(***************************************************************************)
(* What a boost.sam semaphore promises its clients: permits are neither    *)
(* invented nor forgotten, and whoever has to wait is served in the order  *)
(* of arrival.  A permit that is given back goes to the front of the queue *)
(* if there is one.  Clients may leave the queue (cancellation) or all be  *)
(* turned away (shutdown, destruction), and a permit may be lost with a    *)
(* handler that is destroyed instead of being run.                         *)
(***************************************************************************)
EXTENDS Integers, Sequences, SequencesExt

CONSTANTS Clients, InitialCount

VARIABLES avail,     \* permits nobody has
          holders,   \* clients with a permit
          queue      \* clients waiting for one, first come first

Init == avail = InitialCount /\ holders = {} /\ queue = << >>

Take(c) ==
  /\ c \notin holders
  /\ avail > 0 /\ queue = << >>
  /\ avail' = avail - 1
  /\ holders' = holders \cup {c}
  /\ UNCHANGED queue

Wait(c) ==
  /\ c \notin holders /\ ~ Contains(queue, c)
  /\ avail = 0
  /\ queue' = Append(queue, c)
  /\ UNCHANGED <<avail, holders>>

(* A permit is put into circulation while H hold one.                      *)
GiveBack(H) ==
  \/ queue = << >> /\ avail' = avail + 1 /\ holders' = H /\ UNCHANGED queue
  \/ /\ queue # << >>
     /\ holders' = H \cup {Head(queue)}
     /\ queue' = Tail(queue)
     /\ UNCHANGED avail

Lose(c) ==
  /\ holders' = holders \ {c}
  /\ UNCHANGED <<avail, queue>>

Leave(i) ==
  /\ queue' = RemoveAt(queue, i)
  /\ UNCHANGED <<avail, holders>>

TurnAway ==
  /\ queue' = << >>
  /\ UNCHANGED <<avail, holders>>

Next ==
  \/ \E c \in Clients : Take(c) \/ Wait(c)
  \/ \E c \in holders : GiveBack(holders \ {c}) \/ Lose(c)
  \/ GiveBack(holders)
  \/ \E i \in DOMAIN queue : Leave(i)
  \/ TurnAway

Spec == Init /\ [][Next]_<<avail, holders, queue>>
=============================================================================
