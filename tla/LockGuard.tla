------------------------------ MODULE LockGuard ------------------------------
(***************************************************************************)
(* lock_guard and shared_lock_guard together with the shared mutex.  Some  *)
(* clients lock through lock(mtx), async_lock(mtx), lock_shared(mtx) and   *)
(* async_lock_shared(mtx), which return a guard that has adopted the lock, *)
(* or let a guard adopt a lock they took with a member function; from then *)
(* on the lock belongs to the guard object.  Guards are moved from place   *)
(* to place and unlock when they are destroyed.                            *)
(***************************************************************************)
EXTENDS SharedMutex

CONSTANTS GuardUsers,    \* the clients that lock through guards
          Slots,         \* places for guard objects
          SharedSlots,   \* the ones for shared_lock_guard; the others are lock_guards
          Dead, Empty    \* no object, and an object with mtx_ = nullptr

ASSUME LockGuardAssumption ==
  /\ GuardUsers \subseteq Clients /\ SharedSlots \subseteq Slots
  /\ {Dead, Empty} \cap Clients = {} /\ Dead # Empty

VARIABLE guard    \* guard[g]: Dead, Empty, or the client whose lock it has adopted

lvars == <<guard, locked_, locked_shared_, waiters_, shared_waiters_, misgranted,
           pc, ec, mtx, dying, life, spurious, mt>>

(* Where the guard that c is given can be.  Its type is that of the        *)
(* function called, whatever lock that function has taken.                 *)
SlotsFor(c) == {g \in Slots : (g \in SharedSlots) = (c \in Readers)}

SameType(g, h) == (g \in SharedSlots) = (h \in SharedSlots)

(* A client's lock call returns: with the lock, it is adopted by a new     *)
(* guard; with an error, the guard is empty and of no further interest.    *)
ReturnGuard(c) ==
  IF pc[c] # "acquired" /\ pc'[c] = "acquired"
  THEN \E g \in SlotsFor(c) : guard[g] = Dead /\ guard' = [guard EXCEPT ![g] = c]
  ELSE UNCHANGED guard

(* lock_shared(mtx) and lock_shared(mtx, ec) call mtx.lock(): the lock     *)
(* that the shared_lock_guard adopts is the exclusive one.                 *)
GuardLockShared(c) ==
  /\ c \in Threads \cap Readers
  /\ pc[c] = "idle" /\ MayCall(c) /\ EnterSection
  /\ \/ /\ CanLock
        /\ Finish(c, "ok", "acquired")
        /\ locked_' = TRUE /\ misgranted' = TRUE
        /\ UNCHANGED <<locked_shared_, waiters_, shared_waiters_>>
     \/ /\ ~ CanLock
        /\ \/ mt /\ Queue(c)
           \/ ~ mt /\ Finish(c, "in_progress", "idle") /\ UNCHANGED locks
  /\ UNCHANGED <<mtx, dying, life, spurious, mt>>

(* lock(mtx), and locks adopted by hand.                                   *)
GuardLockBlocking(c) ==
  \/ Lock(c) \/ LockSingleThreaded(c) \/ LockShared(c) \/ LockSharedSingleThreaded(c)
  \/ TryLock(c) \/ TryLockShared(c)

(* async_lock(mtx) and async_lock_shared(mtx).                             *)
GuardLockAsync(c) == AsyncLock(c)

GuardLockSharedAsync(c) == AsyncLockShared(c)

(* The steps of a client that locks through a guard.                       *)
GuardLocking(c) ==
  /\ \/ GuardLockAsync(c) \/ GuardLockSharedAsync(c)
     \/ GuardLockBlocking(c) \/ GuardLockShared(c)
     \/ OpStep(c) /\ UNCHANGED locks
  /\ ReturnGuard(c)

-----------------------------------------------------------------------------
(* Mutant: the move constructor leaves mtx_ of its argument as it was.     *)
GuardMoveCopies(to, from) ==
  /\ guard[to] = Dead /\ guard[from] # Dead /\ SameType(to, from)
  /\ guard' = [guard EXCEPT ![to] = guard[from]]
  /\ UNCHANGED vars

(* lock_guard(lock_guard &&lhs).                                           *)
GuardMove(to, from) ==
  /\ guard[to] = Dead /\ guard[from] # Dead /\ SameType(to, from)
  /\ guard' = [guard EXCEPT ![to] = guard[from], ![from] = Empty]
  /\ UNCHANGED vars

(* operator=(lock_guard &&lhs): the two guards swap their locks.           *)
GuardAssign(to, from) ==
  /\ guard[to] # Dead /\ guard[from] # Dead /\ SameType(to, from)
  /\ guard' = [guard EXCEPT ![to] = guard[from], ![from] = guard[to]]
  /\ UNCHANGED vars

(* ~lock_guard and ~shared_lock_guard.                                     *)
GuardUnlock(g) ==
  /\ guard[g] \in Clients
  /\ guard' = [guard EXCEPT ![g] = Dead]
  /\ Unlock(guard[g]) \/ UnlockShared(guard[g])

GuardDestroyEmpty(g) ==
  /\ guard[g] = Empty
  /\ guard' = [guard EXCEPT ![g] = Dead]
  /\ UNCHANGED vars

(* What the other clients do, and what happens to the mutex.               *)
Unguarded ==
  /\ \/ \E c \in Clients \ GuardUsers : Call(c) \/ (OpStep(c) /\ UNCHANGED locks)
     \/ \E c \in GuardUsers : Cancel(c)
     \/ ShutdownStep /\ UNCHANGED locks
     \/ Shutdown
     \/ Destroy
  /\ UNCHANGED guard

LInit == Init /\ guard = [g \in Slots |-> Dead]

LNext ==
  \/ \E c \in GuardUsers : GuardLocking(c)
  \/ \E g, h \in Slots : GuardMove(g, h) \/ GuardAssign(g, h)
  \/ \E g \in Slots : GuardUnlock(g) \/ GuardDestroyEmpty(g)
  \/ Unguarded

LSpec == LInit /\ [][LNext]_lvars

(* Nobody keeps the lock or a guard forever.                               *)
LFairSpec ==
  /\ LSpec /\ OpFairness
  /\ \A c \in Clients \ GuardUsers : WF_vars(Unlock(c) \/ UnlockShared(c))
  /\ \A c \in GuardUsers : WF_lvars(\E g \in Slots : guard[g] = c /\ GuardUnlock(g))
  /\ WF_lvars(\E g \in Slots : GuardDestroyEmpty(g))

-----------------------------------------------------------------------------
(* A lock taken through a guard is in exactly one guard object, however    *)
(* guards are moved, swapped and destroyed, and no guard has a lock that   *)
(* was given back: no unlock is missed or done twice.  The mutex is locked *)
(* in the way the guard will unlock it (lock_guard.hpp:54,                 *)
(* shared_lock_guard.hpp:55), unless a reader was given the exclusive lock *)
(* (shared_lock_guard.hpp:70, shared_mutex_impl.ipp:85).                   *)
GuardsOwnTheLocks ==
  /\ \A c \in GuardUsers :
       pc[c] = "acquired" <=> Cardinality({g \in Slots : guard[g] = c}) = 1
  /\ \A g \in Slots : guard[g] \in Clients =>
       /\ guard[g] \in GuardUsers /\ pc[guard[g]] = "acquired"
       /\ ~ misgranted => (g \in SharedSlots <=> ~ locked_)
=============================================================================
