------------------------------ MODULE Semaphore ------------------------------
(***************************************************************************)
(* basic_semaphore and semaphore_impl: one counting semaphore, used by     *)
(* strands (async_acquire) and by threads (the blocking acquire).  Clients *)
(* give back the permit they have, and any client may also put a new       *)
(* permit into circulation, which is how a semaphore signals an event.     *)
(***************************************************************************)
EXTENDS WaitOps

CONSTANTS InitialCount,   \* the constructor's initial_count
          MaxSignals      \* bound: permits released beyond the ones acquired

(* "@pre initial_count >= 0" (basic_semaphore.hpp:50)                      *)
ASSUME SemaphoreAssumption == InitialCount \in Nat /\ MaxSignals \in Nat

VARIABLES
  count_,      \* the counter of semaphore_impl
  waiters_,    \* the queue of semaphore_impl, front first
  signals      \* history: permits released beyond the ones acquired

vars == <<count_, waiters_, signals, pc, ec, mtx, dying, life, spurious, mt>>

(* The clients who had a permit that was destroyed with their handler.     *)
Lost == {c \in Clients : pc[c] = "gone" /\ ec[c] = "ok"}

(* value() in a critical section: the permits left, or minus the number of *)
(* waiters that need one.                                                  *)
value == count_ - Len(waiters_)

-----------------------------------------------------------------------------
(* Mutants.  A waiter is linked at the front of the queue.                 *)
AsyncAcquireFront(c) ==
  /\ c \in Strands
  /\ pc[c] = "idle" /\ life = "alive" /\ EnterSection
  /\ \/ /\ count_ > 0
        /\ count_' = count_ - 1
        /\ DispatchInSection(c)
        /\ UNCHANGED waiters_
     \/ /\ count_ <= 0
        /\ StartWaiting(c)
        /\ waiters_' = <<c>> \o waiters_
        /\ UNCHANGED <<count_, mtx>>
  /\ UNCHANGED <<signals, dying, life, spurious, mt>>

(* try_acquire does not look whether there is a permit.                    *)
TryAcquireUnchecked(c) ==
  /\ pc[c] = "idle" /\ MayCall(c) /\ EnterSection
  /\ count_' = count_ - 1
  /\ Finish(c, "ok", "acquired")
  /\ UNCHANGED <<waiters_, signals, mtx, dying, life, spurious, mt>>

(* The single-threaded acquire takes a permit even when it fails.          *)
AcquireTakesAnyway(c) ==
  /\ c \in Threads /\ ~ mt
  /\ pc[c] = "idle" /\ MayCall(c)
  /\ \/ count_ > 0 /\ Finish(c, "ok", "acquired")
     \/ count_ <= 0 /\ Finish(c, "in_progress", "idle")
  /\ count_' = IF count_ > - 1 THEN count_ - 1 ELSE count_
  /\ UNCHANGED <<waiters_, signals, mtx, dying, life, spurious, mt>>

(* release() increments and completes the given operations, without the    *)
(* decrement(), or without the completion.                                 *)
FaultyRelease(c, granted, rest) ==
  /\ MayCall(c) /\ EnterSection
  /\ count_' = count_ + 1
  /\ CompleteAndGo(granted, "ok", c, "idle")
  /\ waiters_' = rest
  /\ UNCHANGED <<mtx, dying, life, spurious, mt>>

ReleaseKeepsCount(c) ==
  IF waiters_ = << >> THEN FaultyRelease(c, {}, << >>)
                      ELSE FaultyRelease(c, {Head(waiters_)}, Tail(waiters_))

ReleaseForgets(c) == FaultyRelease(c, {}, waiters_)

-----------------------------------------------------------------------------
(* async_acquire: a permit is taken if there is one, else c is queued.     *)
AsyncAcquire(c) ==
  /\ c \in Strands
  /\ pc[c] = "idle" /\ life = "alive" /\ EnterSection
  /\ \/ /\ count_ > 0
        /\ count_' = count_ - 1
        /\ DispatchInSection(c)
        /\ UNCHANGED waiters_
     \/ /\ count_ <= 0
        /\ StartWaiting(c)
        /\ waiters_' = Append(waiters_, c)
        /\ UNCHANGED <<count_, mtx>>
  /\ UNCHANGED <<signals, dying, life, spurious, mt>>

(* try_acquire when there is a permit; else it changes nothing.            *)
TryAcquire(c) ==
  /\ pc[c] = "idle" /\ MayCall(c) /\ EnterSection
  /\ count_ > 0
  /\ count_' = count_ - 1
  /\ Finish(c, "ok", "acquired")
  /\ UNCHANGED <<waiters_, signals, mtx, dying, life, spurious, mt>>

(* acquire(ec) of a multi-threaded semaphore: the thread's operation is    *)
(* linked, and unlinked at once if there is a permit; else it waits.       *)
Acquire(c) ==
  /\ c \in Threads /\ mt
  /\ pc[c] = "idle" /\ MayCall(c) /\ EnterSection
  /\ \/ /\ count_ > 0
        /\ count_' = count_ - 1
        /\ Finish(c, "ok", "acquired")
        /\ UNCHANGED waiters_
     \/ /\ count_ <= 0
        /\ StartWaiting(c)
        /\ waiters_' = Append(waiters_, c)
        /\ UNCHANGED count_
  /\ UNCHANGED <<signals, mtx, dying, life, spurious, mt>>

(* acquire(ec) of a single-threaded semaphore: a try_acquire that fails    *)
(* with an error.                                                          *)
AcquireSingleThreaded(c) ==
  /\ c \in Threads /\ ~ mt
  /\ pc[c] = "idle" /\ MayCall(c)
  /\ \/ /\ count_ > 0
        /\ count_' = count_ - 1
        /\ Finish(c, "ok", "acquired")
     \/ /\ count_ <= 0
        /\ Finish(c, "in_progress", "idle")
        /\ UNCHANGED count_
  /\ UNCHANGED <<waiters_, signals, mtx, dying, life, spurious, mt>>

(* release(), called by c: the counter is incremented, and if somebody     *)
(* waits it is decremented again for the waiter at the front.              *)
ReleaseOne(c) ==
  /\ MayCall(c) /\ EnterSection
  /\ \/ /\ waiters_ = << >>
        /\ count_' = count_ + 1
        /\ CompleteAndGo({}, "ok", c, "idle")
        /\ UNCHANGED waiters_
     \/ /\ waiters_ # << >>
        /\ CompleteAndGo({Head(waiters_)}, "ok", c, "idle")
        /\ waiters_' = Tail(waiters_)
        /\ UNCHANGED count_
  /\ UNCHANGED <<mtx, dying, life, spurious, mt>>

(* A client gives back its permit, or one more comes into circulation.     *)
Release(c) ==
  /\ pc[c] = "acquired"
  /\ ReleaseOne(c)
  /\ UNCHANGED signals

Signal(c) ==
  /\ pc[c] = "idle" /\ signals < MaxSignals
  /\ ReleaseOne(c)
  /\ signals' = signals + 1

(* The cancellation handler of a queued operation, emitted where it cannot *)
(* race with the operation's completion.                                   *)
Cancel(c) ==
  /\ pc[c] = "queued" /\ life = "alive" /\ EnterSection
  /\ \E i \in DOMAIN waiters_ :
       waiters_[i] = c /\ waiters_' = RemoveAt(waiters_, i)
  /\ Complete({c}, "operation_aborted")
  /\ UNCHANGED <<count_, signals, mtx, dying, life, spurious, mt>>

(* semaphore_impl::shutdown up to the end of its critical section.         *)
Shutdown ==
  /\ ShutdownTake(waiters_)
  /\ waiters_' = << >>
  /\ UNCHANGED <<count_, signals>>

(* ~semaphore_impl: waiters_ is destroyed.                                 *)
Destroy ==
  /\ DestroyLists(Range(waiters_))
  /\ waiters_' = << >>
  /\ UNCHANGED <<count_, signals>>

-----------------------------------------------------------------------------
Init == OpInit /\ count_ = InitialCount /\ waiters_ = << >> /\ signals = 0

Call(c) ==
  \/ AsyncAcquire(c) \/ TryAcquire(c) \/ Acquire(c) \/ AcquireSingleThreaded(c)
  \/ Release(c) \/ Signal(c) \/ Cancel(c)

Next ==
  \/ \E c \in Clients : Call(c)
  \/ \E c \in Clients : OpStep(c) /\ UNCHANGED <<count_, waiters_, signals>>
  \/ ShutdownStep /\ UNCHANGED <<count_, waiters_, signals>>
  \/ Shutdown
  \/ Destroy

Spec == Init /\ [][Next]_vars

-----------------------------------------------------------------------------
TypeOK ==
  /\ OpTypeOK
  /\ count_ \in Nat
  /\ waiters_ \in Seq(Clients)
  /\ signals \in 0 .. MaxSignals

(* Permits are conserved: value() and the clients that have, wait for or   *)
(* lost a permit always add up to the permits put into circulation.  So a  *)
(* permit is neither duplicated nor dropped on the way from release() to a *)
(* waiter that is cancelled, aborted or shut down at that moment.          *)
PermitsConserved ==
  value + Cardinality({c \in Clients : Granted(c)}) + Len(waiters_) + Cardinality(Lost)
    = InitialCount + signals

(* Whenever somebody waits there is no permit left: every release() went   *)
(* to a waiter, and try_acquire cannot take what a waiter came for.        *)
(* Everyone in the queue still waits and everyone who waits can be reached *)
(* from the queue or from the list a shutdown() works through.             *)
WaitersAreQueued ==
  /\ waiters_ # << >> => count_ = 0
  /\ IsInjective(waiters_)
  /\ Range(waiters_) \cap Range(dying) = {}
  /\ \A c \in Range(waiters_) : Pending(c)
  /\ \A c \in Clients : Pending(c) => c \in Range(waiters_) \cup Range(dying)

Abstract == INSTANCE FifoSemaphore WITH
  avail   <- count_,
  holders <- {c \in Clients : Granted(c)},
  queue   <- waiters_

(* "async acquire operations will complete in strict FIFO order" and       *)
(* release() serves "the least recent operation" (basic_semaphore.hpp:97,  *)
(* 148), whatever mixture of strands and threads waits.                    *)
ImplementsFifoSemaphore == Abstract!Spec
=============================================================================
