------------------------------- MODULE Mutex --------------------------------
(***************************************************************************)
(* basic_mutex and mutex_impl: one mutex, used by strands (async_lock,     *)
(* try_lock and unlock from handlers the executor runs) and by threads     *)
(* (the blocking lock, try_lock and unlock).  Clients keep the contract of *)
(* a mutex: only the owner unlocks.                                        *)
(***************************************************************************)
EXTENDS WaitOps

CONSTANTS None, Lost    \* abstract owners, see FifoLock

ASSUME MutexAssumption ==
  None \notin Clients /\ Lost \notin Clients /\ None # Lost

VARIABLES
  locked_,     \* the flag of mutex_impl
  waiters_     \* the queue of mutex_impl, front first

vars == <<locked_, waiters_, pc, ec, mtx, dying, life, spurious, mt>>

-----------------------------------------------------------------------------
(* Mutants.  A waiter is linked at the front of the queue.                 *)
AsyncLockFront(c) ==
  /\ c \in Strands
  /\ pc[c] = "idle" /\ life = "alive" /\ EnterSection
  /\ \/ /\ ~ locked_
        /\ locked_' = TRUE
        /\ DispatchInSection(c)
        /\ UNCHANGED waiters_
     \/ /\ locked_
        /\ StartWaiting(c)
        /\ waiters_' = <<c>> \o waiters_
        /\ UNCHANGED <<locked_, mtx>>
  /\ UNCHANGED <<dying, life, spurious, mt>>

(* unlock() with the given effects ...                                     *)
FaultyUnlock(c, stays, granted, rest) ==
  /\ pc[c] = "acquired" /\ MayCall(c) /\ EnterSection
  /\ locked_' = stays
  /\ CompleteAndGo(granted, "ok", c, "idle")
  /\ waiters_' = rest
  /\ UNCHANGED <<mtx, dying, life, spurious, mt>>

FirstWaiter == IF waiters_ = << >> THEN {} ELSE {Head(waiters_)}

OtherWaiters == IF waiters_ = << >> THEN << >> ELSE Tail(waiters_)

(* ... never clears locked_, clears it even when it hands the lock over,   *)
(* does not unlink the operation it completes, or completes nobody.        *)
UnlockKeepsLocked(c) == FaultyUnlock(c, TRUE, FirstWaiter, OtherWaiters)

UnlockClears(c) == FaultyUnlock(c, FALSE, FirstWaiter, OtherWaiters)

UnlockLeavesLinked(c) == FaultyUnlock(c, waiters_ # << >>, FirstWaiter, waiters_)

UnlockForgets(c) == FaultyUnlock(c, FALSE, {}, waiters_)

(* Cancellation completes the operation and puts something else into its   *)
(* place in the queue, or nothing at all.                                  *)
FaultyCancel(c, place(_)) ==
  /\ pc[c] = "queued" /\ life = "alive" /\ EnterSection
  /\ \E i \in DOMAIN waiters_ : waiters_[i] = c /\ waiters_' = place(i)
  /\ Complete({c}, "operation_aborted")
  /\ UNCHANGED <<locked_, mtx, dying, life, spurious, mt>>

CancelNulls(c) == FaultyCancel(c, LAMBDA i : [waiters_ EXCEPT ![i] = None])

CancelLeavesLinked(c) == FaultyCancel(c, LAMBDA i : waiters_)

-----------------------------------------------------------------------------
(* async_lock: a free mutex is taken, otherwise the operation is queued.   *)
AsyncLock(c) ==
  /\ c \in Strands
  /\ pc[c] = "idle" /\ life = "alive" /\ EnterSection
  /\ \/ /\ ~ locked_
        /\ locked_' = TRUE
        /\ DispatchInSection(c)
        /\ UNCHANGED waiters_
     \/ /\ locked_
        /\ StartWaiting(c)
        /\ waiters_' = Append(waiters_, c)
        /\ UNCHANGED <<locked_, mtx>>
  /\ UNCHANGED <<dying, life, spurious, mt>>

(* try_lock on a free mutex; on a locked one it changes nothing.           *)
TryLock(c) ==
  /\ pc[c] = "idle" /\ MayCall(c) /\ EnterSection
  /\ ~ locked_
  /\ locked_' = TRUE
  /\ Finish(c, "ok", "acquired")
  /\ UNCHANGED <<waiters_, mtx, dying, life, spurious, mt>>

(* lock(ec) of a multi-threaded mutex: the thread's operation is linked,   *)
(* and unlinked at once if the mutex is free; else the thread waits.       *)
Lock(c) ==
  /\ c \in Threads /\ mt
  /\ pc[c] = "idle" /\ MayCall(c) /\ EnterSection
  /\ \/ /\ ~ locked_
        /\ locked_' = TRUE
        /\ Finish(c, "ok", "acquired")
        /\ UNCHANGED waiters_
     \/ /\ locked_
        /\ StartWaiting(c)
        /\ waiters_' = Append(waiters_, c)
        /\ UNCHANGED locked_
  /\ UNCHANGED <<mtx, dying, life, spurious, mt>>

(* lock(ec) of a single-threaded mutex is a try_lock that can fail.        *)
LockSingleThreaded(c) ==
  /\ c \in Threads /\ ~ mt
  /\ pc[c] = "idle" /\ MayCall(c)
  /\ \/ ~ locked_ /\ Finish(c, "ok", "acquired")
     \/ locked_ /\ Finish(c, "in_progress", "idle")
  /\ locked_' = TRUE
  /\ UNCHANGED <<waiters_, mtx, dying, life, spurious, mt>>

(* unlock(): the lock is handed to the first waiter, and only a mutex      *)
(* nobody waits for becomes free.                                          *)
Unlock(c) ==
  /\ pc[c] = "acquired" /\ MayCall(c) /\ EnterSection
  /\ \/ /\ waiters_ = << >>
        /\ locked_' = FALSE
        /\ CompleteAndGo({}, "ok", c, "idle")
        /\ UNCHANGED waiters_
     \/ /\ waiters_ # << >>
        /\ CompleteAndGo({Head(waiters_)}, "ok", c, "idle")
        /\ waiters_' = Tail(waiters_)
        /\ UNCHANGED locked_
  /\ UNCHANGED <<mtx, dying, life, spurious, mt>>

(* The cancellation handler of a queued operation, emitted where it cannot *)
(* race with the operation's completion.                                   *)
Cancel(c) ==
  /\ pc[c] = "queued" /\ life = "alive" /\ EnterSection
  /\ \E i \in DOMAIN waiters_ :
       waiters_[i] = c /\ waiters_' = RemoveAt(waiters_, i)
  /\ Complete({c}, "operation_aborted")
  /\ UNCHANGED <<locked_, mtx, dying, life, spurious, mt>>

(* Mutant: the list that shutdown() works through is a copy of waiters_.   *)
ShutdownCopies ==
  /\ ShutdownTake(waiters_)
  /\ UNCHANGED <<locked_, waiters_>>

(* mutex_impl::shutdown up to the end of its critical section.             *)
Shutdown ==
  /\ ShutdownTake(waiters_)
  /\ waiters_' = << >>
  /\ UNCHANGED locked_

(* ~mutex_impl: waiters_ is destroyed.                                     *)
Destroy ==
  /\ DestroyLists(Range(waiters_))
  /\ waiters_' = << >>
  /\ UNCHANGED locked_

-----------------------------------------------------------------------------
Init == OpInit /\ locked_ = FALSE /\ waiters_ = << >>

Call(c) ==
  \/ AsyncLock(c) \/ TryLock(c) \/ Lock(c) \/ LockSingleThreaded(c)
  \/ Unlock(c) \/ Cancel(c)

Next ==
  \/ \E c \in Clients : Call(c)
  \/ \E c \in Clients : OpStep(c) /\ UNCHANGED <<locked_, waiters_>>
  \/ ShutdownStep /\ UNCHANGED <<locked_, waiters_>>
  \/ Shutdown
  \/ Destroy

Spec == Init /\ [][Next]_vars

-----------------------------------------------------------------------------
TypeOK ==
  /\ OpTypeOK
  /\ locked_ \in BOOLEAN
  /\ waiters_ \in Seq(Clients)

(* At most one client owns the mutex or is about to be told so: unlock     *)
(* hands the lock over without clearing locked_, so a try_lock, a late     *)
(* lock or a cancellation between the handoff and the run of the posted    *)
(* handler must not let a second one in.                                   *)
MutualExclusion ==
  \A c, d \in Clients : Granted(c) /\ Granted(d) => c = d

(* A locked mutex has an owner who can unlock it: ownership is not lost on *)
(* the way from unlock to a waiter that is cancelled, aborted or asleep.   *)
(* (Once the context is shut down it can be, with a destroyed handler.)    *)
LockedHasOwner ==
  life # "down" => (locked_ <=> \E c \in Clients : Granted(c))

(* Nobody waits for a free mutex, everyone in the queue still waits, and   *)
(* everyone who waits is in the queue or in the list a shutdown() works    *)
(* through, once: unlock never grants an operation that has already ended, *)
(* and no waiter is out of the reach of whoever must complete it.          *)
WaitersAreQueued ==
  /\ waiters_ # << >> => locked_
  /\ IsInjective(waiters_)
  /\ Range(waiters_) \cap Range(dying) = {}
  /\ \A c \in Range(waiters_) : Pending(c)
  /\ \A c \in Clients : Pending(c) => c \in Range(waiters_) \cup Range(dying)

(* A synchronous operation lives on its thread's stack.  shutdown() works  *)
(* through the list it took without mtx_, while threads wake up and the    *)
(* mutex is used: an operation it has not come to yet is still there.      *)
(* (The one it is at may be gone as soon as done is set: its thread can    *)
(* wake up, see that and return before the error_code is assigned.)        *)
OpsOutliveShutdown ==
  \A i \in 2 .. Len(dying) : pc[dying[i]] = "queued" \/ Blocked(dying[i])

(* "In multi-threaded mode this function will block until unlocked."       *)
(* (mutex.adoc:77): a blocked lock() reports success only if an unlock()   *)
(* handed it the mutex.  lock_op_t::shutdown sets done before ec and       *)
(* without mtx_, so a thread that wakes up in between sees neither.        *)
LockBlocksUntilUnlocked ==
  [][\A c \in Threads : Blocked(c) /\ pc'[c] = "acquired" => ec[c] = "ok"]_vars

(* That is the only way to come out of lock() without the mutex, whatever  *)
(* wakes the thread: the operation is the one shutdown() is at, between    *)
(* its two assignments.                                                    *)
OnlyShutdownInterrupts ==
  [][\A c \in Threads : Blocked(c) /\ pc'[c] = "acquired" =>
       ec[c] = "ok" \/ (ec[c] = "unset" /\ dying # << >> /\ c = Head(dying))]_vars

(* The result an operation was given is the one its client gets: shutdown, *)
(* cancellation and unlock never complete the same operation twice.        *)
ResultIsFinal ==
  [][\A c \in Clients :
       /\ ec[c] \in {"ok", "operation_aborted", "shut_down"}
       /\ pc[c] = "posted" \/ Blocked(c)
       => ec'[c] = ec[c]]_vars

LockOwner ==
  IF \E c \in Clients : Granted(c) THEN CHOOSE c \in Clients : Granted(c)
  ELSE IF locked_ THEN Lost ELSE None

Abstract == INSTANCE FifoLock WITH owner <- LockOwner, queue <- waiters_

(* The mutex gives the lock to its clients in the order they came.         *)
ImplementsFifoLock == Abstract!Spec
=============================================================================
