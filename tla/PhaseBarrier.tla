---------------------------- MODULE PhaseBarrier -----------------------------
(***************************************************************************)
(* What a boost.sam barrier promises: a phase ends when InitCount arrivals *)
(* have been made, and then for everyone who waits, at once.  A client     *)
(* that stops waiting (cancellation) has still arrived.                    *)
(***************************************************************************)
EXTENDS Integers, FiniteSets

CONSTANTS Clients, InitCount

VARIABLES arrived,   \* arrivals in the current phase
          waiting    \* the clients waiting for its end

Init == arrived = 0 /\ waiting = {}

ArriveAndWait(c) ==
  /\ c \notin waiting
  /\ arrived + 1 < InitCount
  /\ arrived' = arrived + 1
  /\ waiting' = waiting \cup {c}

ArriveLast ==
  /\ arrived + 1 = InitCount
  /\ arrived' = 0
  /\ waiting' = {}

Leave(c) ==
  /\ waiting' = waiting \ {c}
  /\ UNCHANGED arrived

TurnAway ==
  /\ waiting' = {}
  /\ UNCHANGED arrived

Next ==
  \/ \E c \in Clients : ArriveAndWait(c) \/ Leave(c)
  \/ ArriveLast
  \/ TurnAway

Spec == Init /\ [][Next]_<<arrived, waiting>>
=============================================================================
