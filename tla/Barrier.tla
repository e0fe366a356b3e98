------------------------------- MODULE Barrier -------------------------------
(***************************************************************************)
(* basic_barrier and barrier_impl.  Strands call async_arrive, threads     *)
(* call arrive, and both may call try_arrive.  async_arrive is two         *)
(* critical sections: try_arrive, and if that fails the section that       *)
(* counts the arrival and queues the operation.  A strand between the two  *)
(* is in "arriving".                                                       *)
(***************************************************************************)
EXTENDS WaitOps

CONSTANTS InitCount,    \* init_
          MaxRounds,    \* bound: how often a client passes the barrier
          MaxDeficit    \* bound: a counter_ this far below zero gets no new arrivals

ASSUME BarrierAssumption ==
  InitCount \in Nat \ {0} /\ MaxRounds \in Nat /\ MaxDeficit \in Nat

VARIABLES
  counter_,    \* the counter of barrier_impl
  waiters_,    \* the queue of barrier_impl, front first
  arriving,    \* strands between the two critical sections of async_arrive
  rounds,      \* history: how often each client's arrival has succeeded
  mishaps      \* history: "missed": a last arrival was queued, "cancelled": one
               \* that was counted was cancelled

bvars == <<counter_, waiters_, arriving, rounds, mishaps>>
vars == <<counter_, waiters_, arriving, rounds, mishaps, pc, ec, mtx, dying, life, spurious, mt>>

(* The only thread of a single-threaded program finishes async_arrive      *)
(* before it does anything else.                                           *)
Undisturbed == mt \/ arriving = {}

(* c may start an arrival.                                                 *)
MayArrive(c) ==
  /\ pc[c] = "idle" /\ c \notin arriving /\ Undisturbed
  /\ MayCall(c) /\ EnterSection
  /\ rounds[c] < MaxRounds /\ counter_ > - MaxDeficit

(* Mutants.  The end of a phase with the given counters and completions:   *)
FaultyLastArrival(c, p, last, reset, done, rest) ==
  /\ counter_ <= last
  /\ counter_' = reset
  /\ waiters_' = rest
  /\ pc' = [d \in Clients |-> IF d = c THEN p ELSE
                              IF d \in done THEN CompletedPc(d) ELSE pc[d]]
  /\ ec' = [d \in Clients |-> IF d \in done \cup {c} THEN "ok" ELSE ec[d]]
  /\ rounds' = [d \in Clients |-> IF d \in done \cup {c} THEN rounds[d] + 1 ELSE rounds[d]]

(* the phase ends one arrival early, the counter is not reset, the         *)
(* operations stay linked, or complete() instead of complete_all().        *)
LastArrivalEarly(c, p) ==
  FaultyLastArrival(c, p, 2, InitCount, Range(waiters_), << >>)

LastArrivalNoReset(c, p) ==
  FaultyLastArrival(c, p, 1, 0, Range(waiters_), << >>)

LastArrivalLeavesLinked(c, p) ==
  FaultyLastArrival(c, p, 1, InitCount, Range(waiters_), waiters_)

LastArrivalCompletesOne(c, p) ==
  IF waiters_ = << >>
  THEN FaultyLastArrival(c, p, 1, InitCount, {}, << >>)
  ELSE FaultyLastArrival(c, p, 1, InitCount, {Head(waiters_)}, Tail(waiters_))

(* The arrival of c is the last one: complete_all ends the wait of the     *)
(* others with success, the counter is reset, and c goes on at p.          *)
LastArrival(c, p) ==
  LET done == Range(waiters_) \cup {c}
  IN  /\ counter_ - 1 = 0
      /\ counter_' = InitCount
      /\ waiters_' = << >>
      /\ pc' = [d \in Clients |-> IF d = c THEN p ELSE
                                  IF d \in done THEN CompletedPc(d) ELSE pc[d]]
      /\ ec' = [d \in Clients |-> IF d \in done THEN "ok" ELSE ec[d]]
      /\ rounds' = [d \in Clients |-> IF d \in done THEN rounds[d] + 1 ELSE rounds[d]]

(* Any other arrival counts, and the operation of c waits in the queue.    *)
QueueArrival(c) ==
  /\ counter_' = counter_ - 1
  /\ StartWaiting(c)
  /\ waiters_' = Append(waiters_, c)
  /\ UNCHANGED rounds

-----------------------------------------------------------------------------
(* Mutant: an arrival does not look whether it is the last one.            *)
ArriveNeverLast(c) ==
  /\ c \in Threads /\ mt /\ MayArrive(c)
  /\ QueueArrival(c)
  /\ UNCHANGED <<arriving, mishaps, mtx, dying, life, spurious, mt>>

-----------------------------------------------------------------------------
(* try_arrive by the last client; any other call leaves all as it was.     *)
TryArrive(c) ==
  /\ MayArrive(c)
  /\ LastArrival(c, "acquired")
  /\ UNCHANGED <<arriving, mishaps, mtx, dying, life, spurious, mt>>

(* async_arrive begins with try_arrive.  If that succeeds the handler is   *)
(* dispatched without mtx_.                                                *)
AsyncArrive(c) ==
  /\ c \in Strands /\ life = "alive" /\ MayArrive(c)
  /\ \/ /\ LastArrival(c, IF c \in InlineStrands THEN "acquired" ELSE "posted")
        /\ UNCHANGED arriving
     \/ /\ counter_ - 1 # 0
        /\ arriving' = arriving \cup {c}
        /\ UNCHANGED <<counter_, waiters_, rounds, pc, ec>>
  /\ UNCHANGED <<mishaps, mtx, dying, life, spurious, mt>>

(* Its second critical section does not look at the counter again.         *)
AsyncArriveQueue(c) ==
  /\ c \in arriving /\ life = "alive" /\ EnterSection
  /\ QueueArrival(c)
  /\ arriving' = arriving \ {c}
  /\ mishaps' = IF counter_ - 1 > 0 THEN mishaps ELSE mishaps \cup {"missed"}
  /\ UNCHANGED <<mtx, dying, life, spurious, mt>>

(* arrive(ec) of a multi-threaded barrier is one critical section.         *)
Arrive(c) ==
  /\ c \in Threads /\ mt /\ MayArrive(c)
  /\ \/ LastArrival(c, "acquired")
     \/ counter_ - 1 # 0 /\ QueueArrival(c)
  /\ UNCHANGED <<arriving, mishaps, mtx, dying, life, spurious, mt>>

(* arrive(ec) of a single-threaded barrier: a try_arrive that fails with   *)
(* an error.                                                               *)
ArriveSingleThreaded(c) ==
  /\ c \in Threads /\ ~ mt /\ MayArrive(c)
  /\ \/ LastArrival(c, "acquired")
     \/ /\ counter_ - 1 # 0
        /\ Finish(c, "in_progress", "idle")
        /\ UNCHANGED <<counter_, waiters_, rounds>>
  /\ UNCHANGED <<arriving, mishaps, mtx, dying, life, spurious, mt>>

(* A client that has passed the barrier comes back for the next phase.     *)
Proceed(c) ==
  /\ pc[c] = "acquired" /\ Undisturbed
  /\ pc' = [pc EXCEPT ![c] = "idle"]
  /\ UNCHANGED <<bvars, ec, mtx, dying, life, spurious, mt>>

(* The cancellation handler of a queued operation, emitted where it cannot *)
(* race with the operation's completion.  The counter is not restored.     *)
Cancel(c) ==
  /\ pc[c] = "queued" /\ life = "alive" /\ EnterSection /\ Undisturbed
  /\ \E i \in DOMAIN waiters_ :
       waiters_[i] = c /\ waiters_' = RemoveAt(waiters_, i)
  /\ Complete({c}, "operation_aborted")
  /\ mishaps' = mishaps \cup {"cancelled"}
  /\ UNCHANGED <<counter_, arriving, rounds, mtx, dying, life, spurious, mt>>

(* barrier_impl::shutdown up to the end of its critical section; the       *)
(* strands of the context have stopped before it is destroyed.             *)
Shutdown ==
  /\ arriving = {}
  /\ ShutdownTake(waiters_)
  /\ waiters_' = << >>
  /\ UNCHANGED <<counter_, arriving, rounds, mishaps>>

(* ~barrier_impl: waiters_ is destroyed; no initiation is under way.       *)
Destroy ==
  /\ arriving = {}
  /\ DestroyLists(Range(waiters_))
  /\ waiters_' = << >>
  /\ UNCHANGED <<counter_, arriving, rounds, mishaps>>

-----------------------------------------------------------------------------
Init ==
  /\ OpInit
  /\ counter_ = InitCount
  /\ waiters_ = << >>
  /\ arriving = {}
  /\ rounds = [c \in Clients |-> 0]
  /\ mishaps = {}

Call(c) ==
  \/ TryArrive(c) \/ AsyncArrive(c) \/ Arrive(c) \/ ArriveSingleThreaded(c)
  \/ Proceed(c) \/ Cancel(c)

Next ==
  \/ \E c \in Strands : AsyncArriveQueue(c)
  \/ \E c \in Clients : Call(c)
  \/ \E c \in Clients :
       Undisturbed /\ OpStep(c) /\ UNCHANGED bvars
  \/ ShutdownStep /\ UNCHANGED bvars
  \/ Shutdown
  \/ Destroy

Spec == Init /\ [][Next]_vars

(* Every party arrives again and again.                                    *)
FairSpec ==
  /\ Spec /\ OpFairness
  /\ \A c \in Clients : WF_vars(Proceed(c)) /\ WF_vars(Arrive(c))
  /\ \A c \in Strands : WF_vars(AsyncArrive(c)) /\ WF_vars(AsyncArriveQueue(c))

-----------------------------------------------------------------------------
(* "Arrive at a barrier and wait for all other strands to arrive."         *)
(* (basic_barrier.hpp:63): when all the parties of the barrier have        *)
(* arrived nobody waits any more.  async_arrive asks try_arrive whether it *)
(* is the last one and counts itself in another critical section, so two   *)
(* arrivals can each be told that the other is still to come.              *)
AllArrivedMeansPassed == Len(waiters_) < InitCount

(* That gap is the only way to miss the end of a phase: before it happens  *)
(* the counter is what is missing of the phase, nobody who waits is        *)
(* uncounted, and the last arrival is never among the waiters, whatever    *)
(* mixture of strands and threads arrives, tries or is cancelled.          *)
LastArrivalEndsPhase ==
  "missed" \notin mishaps => counter_ > 0 /\ Len(waiters_) <= InitCount - counter_

(* For a barrier with InitCount parties nobody runs ahead: the end of a    *)
(* phase takes every party along, so all have passed the same number of    *)
(* phases, and nobody goes through one in which another did not arrive.    *)
(* (An arrival that is cancelled or shut down stays counted.)              *)
PartiesStayInStep ==
  life # "down" /\ "cancelled" \notin mishaps =>
    \A c, d \in Clients : rounds[c] = rounds[d]

(* Everyone in the queue still waits and everyone who waits can be reached *)
(* from the queue or from the list a shutdown() works through.             *)
WaitersAreQueued ==
  /\ IsInjective(waiters_)
  /\ Range(waiters_) \cap Range(dying) = {}
  /\ \A c \in Range(waiters_) : Pending(c)
  /\ \A c \in Clients : Pending(c) => c \in Range(waiters_) \cup Range(dying)

(* Nobody waits forever in a multi-threaded barrier as long as the parties *)
(* keep arriving, unless an arrival was cancelled or a last one missed.    *)
(* (In a single-threaded one a thread cannot wait, only be the last.)      *)
EveryPhaseEnds ==
  \A c \in Clients :
    mt /\ Pending(c) ~> (~ Pending(c) \/ life = "down" \/ mishaps # {})

Abstract == INSTANCE PhaseBarrier WITH
  arrived <- InitCount - counter_,
  waiting <- Range(waiters_)

(* The counter and the queue together implement the phases, until the      *)
(* first arrival that is missed.                                           *)
ImplementsPhaseBarrier ==
  Abstract!Init /\ [][Abstract!Next \/ "missed" \in mishaps']_<<counter_, waiters_>>
=============================================================================
