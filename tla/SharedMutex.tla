----------------------------- MODULE SharedMutex -----------------------------
(***************************************************************************)
(* basic_shared_mutex and shared_mutex_impl.  Each client either locks     *)
(* shared (a reader) or exclusively (a writer); strands use the async_     *)
(* operations, threads the blocking ones.  shared_mutex_impl has a queue   *)
(* for each kind, but the blocking lock_shared waits in the exclusive one. *)
(***************************************************************************)
EXTENDS WaitOps

CONSTANT Readers      \* the clients that lock shared; the others are writers

ASSUME SharedMutexAssumption == Readers \subseteq Clients

VARIABLES
  locked_,            \* the flag of mutex_impl
  locked_shared_,     \* the counter of shared_mutex_impl
  waiters_,           \* the exclusive queue, front first
  shared_waiters_,    \* the shared queue, front first
  misgranted          \* history: a reader was handed the exclusive lock

locks == <<locked_, locked_shared_, waiters_, shared_waiters_, misgranted>>
vars == <<locked_, locked_shared_, waiters_, shared_waiters_, misgranted,
          pc, ec, mtx, dying, life, spurious, mt>>

Writers == Clients \ Readers

-----------------------------------------------------------------------------
(* Mutant: an exclusive lock does not look at the readers.                 *)
CanLockDespiteReaders == ~ locked_

(* What lets a client in, and what that changes.                           *)
CanLock == ~ locked_ /\ locked_shared_ = 0

CanLockShared == ~ locked_

Enter ==
  /\ locked_' = TRUE
  /\ UNCHANGED <<locked_shared_, waiters_, shared_waiters_, misgranted>>

EnterShared ==
  /\ locked_shared_' = locked_shared_ + 1
  /\ UNCHANGED <<locked_, waiters_, shared_waiters_, misgranted>>

(* add_waiter and add_shared_waiter.                                       *)
Queue(c) ==
  /\ StartWaiting(c)
  /\ waiters_' = Append(waiters_, c)
  /\ UNCHANGED <<locked_, locked_shared_, shared_waiters_, misgranted>>

QueueShared(c) ==
  /\ StartWaiting(c)
  /\ shared_waiters_' = Append(shared_waiters_, c)
  /\ UNCHANGED <<locked_, locked_shared_, waiters_, misgranted>>

(* unlock and unlock_shared complete the front of the exclusive queue.     *)
HandOver(c) ==
  /\ CompleteAndGo({Head(waiters_)}, "ok", c, "idle")
  /\ waiters_' = Tail(waiters_)
  /\ misgranted' = (misgranted \/ Head(waiters_) \in Readers)
  /\ UNCHANGED shared_waiters_

HandOverNothing(c) ==
  /\ CompleteAndGo({}, "ok", c, "idle")
  /\ UNCHANGED <<waiters_, shared_waiters_, misgranted>>

-----------------------------------------------------------------------------
(* Mutants.  unlock() does not count the readers it lets in, or lets in a  *)
(* writer first.                                                           *)
UnlockUncounted(c) ==
  /\ c \in Writers
  /\ pc[c] = "acquired" /\ MayCall(c) /\ EnterSection
  /\ locked_' = FALSE
  /\ CompleteAndGo(Range(shared_waiters_), "ok", c, "idle")
  /\ shared_waiters_' = << >>
  /\ UNCHANGED <<locked_shared_, waiters_, misgranted, mtx, dying, life, spurious, mt>>

UnlockExclusiveFirst(c) ==
  /\ c \in Writers
  /\ pc[c] = "acquired" /\ MayCall(c) /\ EnterSection
  /\ \/ /\ waiters_ # << >>
        /\ HandOver(c)
        /\ UNCHANGED <<locked_, locked_shared_>>
     \/ /\ waiters_ = << >>
        /\ locked_' = FALSE
        /\ locked_shared_' = locked_shared_ + Len(shared_waiters_)
        /\ CompleteAndGo(Range(shared_waiters_), "ok", c, "idle")
        /\ shared_waiters_' = << >>
        /\ UNCHANGED <<waiters_, misgranted>>
  /\ UNCHANGED <<mtx, dying, life, spurious, mt>>

(* unlock_shared() lets nobody in.                                         *)
UnlockSharedForgets(c) ==
  /\ c \in Readers
  /\ pc[c] = "acquired" /\ MayCall(c) /\ EnterSection
  /\ locked_shared_' = IF locked_shared_ > 0 THEN locked_shared_ - 1 ELSE locked_shared_
  /\ HandOverNothing(c)
  /\ UNCHANGED <<locked_, mtx, dying, life, spurious, mt>>

-----------------------------------------------------------------------------
(* async_lock: taken if nobody has the lock in either way, else queued.    *)
AsyncLock(c) ==
  /\ c \in Strands \cap Writers
  /\ pc[c] = "idle" /\ life = "alive" /\ EnterSection
  /\ \/ CanLock /\ DispatchInSection(c) /\ Enter
     \/ ~ CanLock /\ Queue(c) /\ UNCHANGED mtx
  /\ UNCHANGED <<dying, life, spurious, mt>>

(* async_lock_shared does not look at the writers in the queue.            *)
AsyncLockShared(c) ==
  /\ c \in Strands \cap Readers
  /\ pc[c] = "idle" /\ life = "alive" /\ EnterSection
  /\ \/ CanLockShared /\ DispatchInSection(c) /\ EnterShared
     \/ ~ CanLockShared /\ QueueShared(c) /\ UNCHANGED mtx
  /\ UNCHANGED <<dying, life, spurious, mt>>

(* try_lock and try_lock_shared when they succeed.                         *)
TryLock(c) ==
  /\ c \in Writers
  /\ pc[c] = "idle" /\ MayCall(c) /\ EnterSection
  /\ CanLock /\ Finish(c, "ok", "acquired") /\ Enter
  /\ UNCHANGED <<mtx, dying, life, spurious, mt>>

TryLockShared(c) ==
  /\ c \in Readers
  /\ pc[c] = "idle" /\ MayCall(c) /\ EnterSection
  /\ CanLockShared /\ Finish(c, "ok", "acquired") /\ EnterShared
  /\ UNCHANGED <<mtx, dying, life, spurious, mt>>

(* lock(ec), multi-threaded.                                               *)
Lock(c) ==
  /\ c \in Threads \cap Writers /\ mt
  /\ pc[c] = "idle" /\ MayCall(c) /\ EnterSection
  /\ \/ CanLock /\ Finish(c, "ok", "acquired") /\ Enter
     \/ ~ CanLock /\ Queue(c)
  /\ UNCHANGED <<mtx, dying, life, spurious, mt>>

(* lock_shared(ec), multi-threaded: it waits in the exclusive queue.       *)
LockShared(c) ==
  /\ c \in Threads \cap Readers /\ mt
  /\ pc[c] = "idle" /\ MayCall(c) /\ EnterSection
  /\ \/ CanLockShared /\ Finish(c, "ok", "acquired") /\ EnterShared
     \/ ~ CanLockShared /\ Queue(c)
  /\ UNCHANGED <<mtx, dying, life, spurious, mt>>

(* lock(ec) and lock_shared(ec), single-threaded.                          *)
LockSingleThreaded(c) ==
  /\ c \in Threads \cap Writers /\ ~ mt
  /\ pc[c] = "idle" /\ MayCall(c)
  /\ \/ CanLock /\ Finish(c, "ok", "acquired") /\ Enter
     \/ ~ CanLock /\ Finish(c, "in_progress", "idle") /\ UNCHANGED locks
  /\ UNCHANGED <<mtx, dying, life, spurious, mt>>

LockSharedSingleThreaded(c) ==
  /\ c \in Threads \cap Readers /\ ~ mt
  /\ pc[c] = "idle" /\ MayCall(c)
  /\ \/ CanLockShared /\ Finish(c, "ok", "acquired") /\ EnterShared
     \/ ~ CanLockShared /\ Finish(c, "in_progress", "idle") /\ UNCHANGED locks
  /\ UNCHANGED <<mtx, dying, life, spurious, mt>>

(* unlock(): all the readers of the shared queue are let in, or else the   *)
(* front of the exclusive queue, or else the mutex is free.                *)
Unlock(c) ==
  /\ c \in Writers
  /\ pc[c] = "acquired" /\ MayCall(c) /\ EnterSection
  /\ \/ /\ shared_waiters_ # << >>
        /\ locked_' = FALSE
        /\ locked_shared_' = locked_shared_ + Len(shared_waiters_)
        /\ CompleteAndGo(Range(shared_waiters_), "ok", c, "idle")
        /\ shared_waiters_' = << >>
        /\ UNCHANGED <<waiters_, misgranted>>
     \/ /\ shared_waiters_ = << >> /\ waiters_ = << >>
        /\ locked_' = FALSE
        /\ HandOverNothing(c)
        /\ UNCHANGED locked_shared_
     \/ /\ shared_waiters_ = << >> /\ waiters_ # << >>
        /\ HandOver(c)
        /\ UNCHANGED <<locked_, locked_shared_>>
  /\ UNCHANGED <<mtx, dying, life, spurious, mt>>

(* unlock_shared(): the last reader lets in the front of the exclusive     *)
(* queue.                                                                  *)
UnlockShared(c) ==
  /\ c \in Readers
  /\ pc[c] = "acquired" /\ MayCall(c) /\ EnterSection
  /\ locked_shared_' = IF locked_shared_ > 0 THEN locked_shared_ - 1 ELSE locked_shared_
  /\ \/ /\ locked_shared_' = 0 /\ waiters_ # << >>
        /\ locked_' = TRUE
        /\ HandOver(c)
     \/ /\ locked_shared_' # 0 \/ waiters_ = << >>
        /\ HandOverNothing(c)
        /\ UNCHANGED locked_
  /\ UNCHANGED <<mtx, dying, life, spurious, mt>>

(* The cancellation handler of a queued operation, emitted where it cannot *)
(* race with the operation's completion: it unlinks the operation from the *)
(* queue it is in.                                                         *)
Cancel(c) ==
  /\ pc[c] = "queued" /\ life = "alive" /\ EnterSection
  /\ c \in Range(waiters_) \cup Range(shared_waiters_)
  /\ waiters_' = RemoveFirst(waiters_, c)
  /\ shared_waiters_' = RemoveFirst(shared_waiters_, c)
  /\ Complete({c}, "operation_aborted")
  /\ UNCHANGED <<locked_, locked_shared_, misgranted, mtx, dying, life, spurious, mt>>

(* shutdown() takes both queues and works through the exclusive one first. *)
Shutdown ==
  /\ ShutdownTake(waiters_ \o shared_waiters_)
  /\ waiters_' = << >> /\ shared_waiters_' = << >>
  /\ UNCHANGED <<locked_, locked_shared_, misgranted>>

(* ~shared_mutex_impl: both lists are destroyed.                           *)
Destroy ==
  /\ DestroyLists(Range(waiters_) \cup Range(shared_waiters_))
  /\ waiters_' = << >> /\ shared_waiters_' = << >>
  /\ UNCHANGED <<locked_, locked_shared_, misgranted>>

-----------------------------------------------------------------------------
Init ==
  /\ OpInit
  /\ locked_ = FALSE /\ locked_shared_ = 0
  /\ waiters_ = << >> /\ shared_waiters_ = << >>
  /\ misgranted = FALSE

Call(c) ==
  \/ AsyncLock(c) \/ TryLock(c) \/ Lock(c) \/ LockSingleThreaded(c) \/ Unlock(c)
  \/ AsyncLockShared(c) \/ TryLockShared(c) \/ LockShared(c)
  \/ LockSharedSingleThreaded(c) \/ UnlockShared(c)
  \/ Cancel(c)

Next ==
  \/ \E c \in Clients : Call(c)
  \/ \E c \in Clients : OpStep(c) /\ UNCHANGED locks
  \/ ShutdownStep /\ UNCHANGED locks
  \/ Shutdown
  \/ Destroy

Spec == Init /\ [][Next]_vars

-----------------------------------------------------------------------------
(* A writer with the lock, or on its way to learn that it has it, is alone *)
(* with it.  Both unlock functions hand the lock over to operations that   *)
(* learn of it later, and a reader or a try_lock may come in between.      *)
WritersExclude ==
  \A w \in Writers, c \in Clients : Granted(w) /\ Granted(c) => w = c

(* locked_ and locked_shared_ say who has the lock, whatever the order in  *)
(* which handoffs, cancellations and late lockers come: a handoff that is  *)
(* counted twice or not at all lets somebody in too early or never again.  *)
(* (Once a reader was handed the exclusive lock they do not any more.)     *)
LocksHaveOwners ==
  life # "down" /\ ~ misgranted =>
    /\ locked_ <=> \E w \in Writers : Granted(w)
    /\ locked_shared_ = Cardinality({r \in Readers : Granted(r)})

(* "Unlock the shared mutex side" (shared_mutex.adoc:53): a lock everybody *)
(* has given back is free.  A thread that had to wait in lock_shared is    *)
(* handed the exclusive lock (shared_mutex_impl.ipp:85, 66) and gives back *)
(* a shared one.                                                           *)
GivenBackIsFree ==
  life = "alive" /\ (\A c \in Clients : ~ Granted(c)) => CanLock

(* Nobody waits for a lock that could be had: writers wait behind somebody *)
(* who will hand over, and readers only behind a writer.  Everyone in a    *)
(* queue still waits and everyone who waits is in one queue, once, or in   *)
(* the list a shutdown() works through.                                    *)
WaitersAreQueued ==
  LET queued == waiters_ \o shared_waiters_
  IN  /\ waiters_ # << >> => ~ CanLock
      /\ shared_waiters_ # << >> => ~ CanLockShared
      /\ IsInjective(queued)
      /\ Range(queued) \cap Range(dying) = {}
      /\ \A c \in Range(queued) : Pending(c)
      /\ \A c \in Clients : Pending(c) => c \in Range(queued) \cup Range(dying)

(* Every async reader that waits is let in, although writers keep coming:  *)
(* unlock prefers the shared queue.  (Neither writers nor threads that     *)
(* wait in lock_shared are sure of that: other readers may enter past them *)
(* without end.)  The exceptions are the end of the context, and a lock    *)
(* handed to a reader who cannot give it back.                             *)
EveryReaderIsServed ==
  \A r \in Readers \cap Strands :
    Pending(r) ~> (Granted(r) \/ pc[r] = "idle" \/ life = "down" \/ misgranted)
=============================================================================
