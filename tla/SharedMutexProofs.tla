-------------------------- MODULE SharedMutexProofs --------------------------
(***************************************************************************)
(* Proofs about the shared mutex and lock guards on it, for any number of  *)
(* readers, writers and guard objects.                                     *)
(***************************************************************************)
EXTENDS LockGuard, WaitOpsProofs

TypeInv ==
  /\ OpTypeOK
  /\ locked_ \in BOOLEAN /\ locked_shared_ \in Nat /\ misgranted \in BOOLEAN
  /\ waiters_ \in Seq(Clients) /\ shared_waiters_ \in Seq(Readers)

Queued == Range(waiters_) \cup Range(shared_waiters_)

(* The inductive invariant: the linked operations are those in the two     *)
(* queues, each once, and nobody waits for a lock that could be had.       *)
QueueInv ==
  /\ IsInjective(waiters_) /\ IsInjective(shared_waiters_)
  /\ Range(waiters_) \cap Range(shared_waiters_) = {}
  /\ LinkedInv(Queued)
  /\ waiters_ # << >> => ~ CanLock
  /\ shared_waiters_ # << >> => ~ CanLockShared

(* Ownership: whoever was let in while locked_ is set is alone, though it  *)
(* may be a reader that was handed the exclusive lock; while it is not set *)
(* the counter covers everybody inside.  (Handlers destroyed with their    *)
(* context take their locks with them, and the counter stays.)             *)
OwnerInv ==
  /\ locked_ => /\ locked_shared_ = 0
                /\ \A c, d \in GrantedSet : c = d
                /\ ~ misgranted => GrantedSet \subseteq Writers
                /\ ~ misgranted /\ life # "down" => GrantedSet # {}
  /\ ~ locked_ => /\ GrantedSet \subseteq Readers
                  /\ Cardinality(GrantedSet) <= locked_shared_
                  /\ life # "down" => locked_shared_ = Cardinality(GrantedSet)

IInv == TypeInv /\ QueueInv /\ OwnerInv /\ RaceInv

(* A step of the shared mutex, called with or without a guard.             *)
Step == Next \/ \E c \in Clients : GuardLockShared(c)

-----------------------------------------------------------------------------
(* Type correctness, which needs no other invariant except for Cancel.     *)
LEMMA TypeStep ==
  ASSUME TypeInv, QueueInv, [Step]_vars
  PROVE  TypeInv'
<1> USE DEF TypeInv
<1>0. /\ {"idle", "acquired", "posted"} \subseteq Pcs
      /\ {"ok", "in_progress", "operation_aborted"} \subseteq Results
      /\ mtx \in Clients \cup {Free} /\ Readers \subseteq Clients
  BY SharedMutexAssumption DEF Pcs, Results, OpTypeOK
<1>1. ASSUME NEW c \in Clients, AsyncLock(c) PROVE TypeInv'
  <2>1. OpTypeOK'
    BY <1>1, DispatchType, StartWaitingType DEF AsyncLock, Queue
  <2>2. waiters_' \in Seq(Clients) /\ shared_waiters_' \in Seq(Readers) /\ locked_shared_' \in Nat
    <3>1. Append(waiters_, c) \in Seq(Clients)
      BY JoinQueue
    <3> QED BY <1>1, <3>1 DEF AsyncLock, Enter, Queue
  <2>3. locked_' \in BOOLEAN /\ misgranted' \in BOOLEAN
    BY <1>1 DEF AsyncLock, Enter, Queue
  <2> QED BY <2>1, <2>2, <2>3
<1>2. ASSUME NEW c \in Clients, AsyncLockShared(c) PROVE TypeInv'
  <2>1. OpTypeOK'
    BY <1>2, DispatchType, StartWaitingType DEF AsyncLockShared, QueueShared
  <2>2. c \in Readers
    BY <1>2 DEF AsyncLockShared
  <2>3. Append(shared_waiters_, c) \in Seq(Readers) /\ locked_shared_ + 1 \in Nat
    BY <2>2, JoinQueue
  <2>4. waiters_' \in Seq(Clients) /\ shared_waiters_' \in Seq(Readers) /\ locked_shared_' \in Nat
    BY <1>2, <2>3 DEF AsyncLockShared, EnterShared, QueueShared
  <2>5. locked_' \in BOOLEAN /\ misgranted' \in BOOLEAN
    BY <1>2 DEF AsyncLockShared, EnterShared, QueueShared
  <2> QED BY <2>1, <2>4, <2>5
<1>3. ASSUME NEW c \in Clients, TryLock(c) \/ TryLockShared(c) PROVE TypeInv'
  <2>1. OpTypeOK'
    BY <1>0, <1>3, FinishType DEF TryLock, TryLockShared
  <2>2. UNCHANGED <<waiters_, shared_waiters_>> /\ locked_shared_' \in Nat
    BY <1>3 DEF TryLock, TryLockShared, Enter, EnterShared
  <2>3. locked_' \in BOOLEAN /\ misgranted' \in BOOLEAN
    BY <1>3 DEF TryLock, TryLockShared, Enter, EnterShared
  <2> QED BY <2>1, <2>2, <2>3
<1>4. ASSUME NEW c \in Clients, Lock(c) \/ LockShared(c) PROVE TypeInv'
  <2>1. OpTypeOK'
    BY <1>0, <1>4, FinishType, StartWaitingType DEF Lock, LockShared, Queue
  <2>0. Append(waiters_, c) \in Seq(Clients) /\ locked_shared_ + 1 \in Nat
    BY JoinQueue
  <2>2. waiters_' \in Seq(Clients) /\ shared_waiters_' \in Seq(Readers) /\ locked_shared_' \in Nat
    BY <1>4, <2>0 DEF Lock, LockShared, Enter, EnterShared, Queue
  <2>3. locked_' \in BOOLEAN /\ misgranted' \in BOOLEAN
    BY <1>4 DEF Lock, LockShared, Enter, EnterShared, Queue
  <2> QED BY <2>1, <2>2, <2>3
<1>5. ASSUME NEW c \in Clients, LockSingleThreaded(c) \/ LockSharedSingleThreaded(c)
      PROVE  TypeInv'
  <2>1. OpTypeOK'
    BY <1>0, <1>5, FinishType DEF LockSingleThreaded, LockSharedSingleThreaded
  <2>2. UNCHANGED <<waiters_, shared_waiters_>> /\ locked_shared_' \in Nat
    BY <1>5 DEF LockSingleThreaded, LockSharedSingleThreaded, Enter, EnterShared, locks
  <2>3. locked_' \in BOOLEAN /\ misgranted' \in BOOLEAN
    BY <1>5 DEF LockSingleThreaded, LockSharedSingleThreaded, Enter, EnterShared, locks
  <2> QED BY <2>1, <2>2, <2>3
<1>6. ASSUME NEW c \in Clients, Unlock(c) PROVE TypeInv'
  <2>1. OpTypeOK'
    BY <1>0, <1>6, CompleteAndGoType DEF Unlock, HandOver, HandOverNothing
  <2>2. waiters_ # << >> => Tail(waiters_) \in Seq(Clients)
    BY LeaveFront
  <2>3. waiters_' \in Seq(Clients) /\ shared_waiters_' \in Seq(Readers)
    BY <1>6, <2>2, EmptyQueue DEF Unlock, HandOver, HandOverNothing
  <2>4. locked_' \in BOOLEAN /\ misgranted' \in BOOLEAN
    BY <1>6 DEF Unlock, HandOver, HandOverNothing
  <2>5. locked_shared_' \in Nat
    BY <1>6 DEF Unlock
  <2> QED BY <2>1, <2>3, <2>4, <2>5
<1>7. ASSUME NEW c \in Clients, UnlockShared(c) PROVE TypeInv'
  <2>1. OpTypeOK'
    BY <1>0, <1>7, CompleteAndGoType DEF UnlockShared, HandOver, HandOverNothing
  <2>2. waiters_ # << >> => Tail(waiters_) \in Seq(Clients)
    BY LeaveFront
  <2>3. waiters_' \in Seq(Clients) /\ shared_waiters_' \in Seq(Readers)
    BY <1>7, <2>2 DEF UnlockShared, HandOver, HandOverNothing
  <2>4. locked_' \in BOOLEAN /\ misgranted' \in BOOLEAN
    BY <1>7 DEF UnlockShared, HandOver, HandOverNothing
  <2>5. locked_shared_' \in Nat
    BY <1>7 DEF UnlockShared
  <2> QED BY <2>1, <2>3, <2>4, <2>5
<1>8. ASSUME NEW c \in Clients, Cancel(c) PROVE TypeInv'
  <2>1. OpTypeOK'
    BY <1>0, <1>8, CompleteAndGoType DEF Cancel
  <2>2. waiters_' \in Seq(Clients) /\ shared_waiters_' \in Seq(Readers)
    BY <1>8, RemoveFirstProps DEF Cancel, QueueInv
  <2> QED BY <1>8, <2>1, <2>2 DEF Cancel
<1>9. ASSUME NEW c \in Clients, GuardLockShared(c) PROVE TypeInv'
  <2>1. OpTypeOK'
    BY <1>0, <1>9, FinishType, StartWaitingType DEF GuardLockShared, Queue
  <2>2. waiters_' \in Seq(Clients) /\ shared_waiters_' \in Seq(Readers) /\ locked_shared_' \in Nat
    BY <1>9, JoinQueue DEF GuardLockShared, Queue, locks
  <2>3. locked_' \in BOOLEAN /\ misgranted' \in BOOLEAN
    BY <1>9 DEF GuardLockShared, Queue, locks
  <2> QED BY <2>1, <2>2, <2>3
<1>10. ASSUME NEW c \in Clients, OpStep(c), UNCHANGED locks PROVE TypeInv'
  BY <1>10, OpStepType DEF locks
<1>11. CASE ShutdownStep /\ UNCHANGED locks
  BY <1>11, ShutdownStepType DEF locks
<1>12. CASE Shutdown
  <2>1. shared_waiters_ \in Seq(Clients)
    BY <1>0
  <2>2. PICK w \in Seq(Clients) : w = waiters_ \o shared_waiters_
    BY <2>1, ConcatQueues
  <2> QED BY <1>12, <2>2, ShutdownTakeType, EmptyQueue DEF Shutdown
<1>13. CASE Destroy
  BY <1>13, DestroyListsType, EmptyQueue DEF Destroy
<1>14. CASE UNCHANGED vars
  BY <1>14 DEF vars, OpTypeOK
<1> QED
  BY <1>1, <1>2, <1>3, <1>4, <1>5, <1>6, <1>7, <1>8, <1>9, <1>10, <1>11, <1>12, <1>13, <1>14
     DEF Step, Next, Call

-----------------------------------------------------------------------------
(* The inductive step, one kind of action at a time.  First what all of    *)
(* them need of the invariant.                                             *)
LEMMA InvFacts ==
  ASSUME IInv
  PROVE  /\ Readers \subseteq Clients /\ Queued \subseteq Clients /\ OpInv(Queued)
         /\ GrantedSet \subseteq Clients /\ Queued \cap GrantedSet = {}
         /\ \A c \in Clients : /\ pc[c] = "idle" => c \notin GrantedSet \cup Queued
                               /\ pc[c] = "acquired" => c \in GrantedSet /\ c \notin Queued
<1>1. Readers \subseteq Clients
  BY SharedMutexAssumption
<1>2. Queued \subseteq Clients
  BY <1>1, QueueElements DEF IInv, TypeInv, Queued
<1>3. OpInv(Queued)
  BY DEF IInv, TypeInv, QueueInv, OpInv
<1> QED BY <1>1, <1>2, <1>3, GrantedFacts DEF OpInv

(* With the queues as they were, or empty, the invariant is about the      *)
(* operations and the lock alone.                                          *)
LEMMA SameQueues ==
  ASSUME IInv, OpInv(Queued)', UNCHANGED <<waiters_, shared_waiters_>>,
         waiters_ # << >> => ~ CanLock', shared_waiters_ # << >> => ~ CanLockShared'
  PROVE  QueueInv' /\ RaceInv'
BY DEF IInv, QueueInv, OpInv

LEMMA NoQueues ==
  ASSUME OpInv({})', waiters_' = << >>, shared_waiters_' = << >>
  PROVE  QueueInv' /\ RaceInv'
<1>1. /\ Range(waiters_)' = {} /\ IsInjective(waiters_)'
      /\ Range(shared_waiters_)' = {} /\ IsInjective(shared_waiters_)'
  BY EmptyQueue
<1>2. Queued' = {}
  BY <1>1 DEF Queued
<1>3. LinkedInv(Queued)'
  BY <1>2 DEF OpInv, LinkedInv
<1> QED BY <1>1, <1>3 DEF OpInv, QueueInv

(* The lock is taken exclusively by c, who is then alone; a reader that    *)
(* gets it this way counts as misgranted.                                  *)
LEMMA TakeStep ==
  ASSUME IsFiniteSet(Clients), IInv, NEW c \in Clients, pc[c] = "idle", CanLock, locked_' = TRUE,
         misgranted' = (misgranted \/ c \in Readers),
         DispatchInSection(c) \/ (Finish(c, "ok", "acquired") /\ UNCHANGED mtx),
         UNCHANGED <<locked_shared_, waiters_, shared_waiters_, dying, life, spurious, mt>>
  PROVE  QueueInv' /\ OwnerInv' /\ RaceInv'
<1>1. OpInv(Queued) /\ Queued \subseteq Clients /\ GrantedSet \subseteq Clients
  BY InvFacts
<1>2. PICK Q \in SUBSET Clients : Q = Queued
  BY <1>1
<1>3. OpInv(Q)' /\ GrantedSet' = GrantedSet \cup {c}
  BY <1>1, <1>2, GrantStep
<1>4. Queued' = Q
  BY <1>2 DEF Queued
<1>5. OpInv(Queued)'
  BY <1>3, <1>4 DEF OpInv, LinkedInv
<1>6. QueueInv' /\ RaceInv'
  BY <1>5, SameQueues DEF CanLock, CanLockShared
<1>7. GrantedSet = {}
  <2>1. Cardinality(GrantedSet) <= 0
    BY DEF IInv, OwnerInv, CanLock
  <2> QED BY <1>1, <2>1, FS_Subset, FS_EmptySet, FS_CardinalityType
<1>8. GrantedSet' = {c}
  BY <1>3, <1>7
<1>9. locked_shared_' = 0
  BY DEF CanLock
<1>10. ~ misgranted' => c \in Writers
  BY DEF Writers
<1> QED BY <1>6, <1>8, <1>9, <1>10 DEF OwnerInv

(* One more reader is let in.                                              *)
LEMMA TakeSharedStep ==
  ASSUME IsFiniteSet(Clients), IInv, NEW c \in Readers, pc[c] = "idle", CanLockShared, EnterShared,
         DispatchInSection(c) \/ (Finish(c, "ok", "acquired") /\ UNCHANGED mtx),
         UNCHANGED <<dying, life, spurious, mt>>
  PROVE  QueueInv' /\ OwnerInv' /\ RaceInv'
<1>1. /\ OpInv(Queued) /\ Queued \subseteq Clients /\ GrantedSet \subseteq Clients
      /\ c \in Clients /\ c \notin GrantedSet
  BY InvFacts
<1>2. PICK Q \in SUBSET Clients : Q = Queued
  BY <1>1
<1>3. OpInv(Q)' /\ GrantedSet' = GrantedSet \cup {c}
  BY <1>1, <1>2, GrantStep
<1>4. Queued' = Q
  BY <1>2 DEF Queued, EnterShared
<1>5. OpInv(Queued)'
  BY <1>3, <1>4 DEF OpInv, LinkedInv
<1>6. ~ locked_ /\ ~ locked_' /\ locked_shared_' = locked_shared_ + 1 /\ locked_shared_ \in Nat
  BY DEF CanLockShared, EnterShared, IInv, TypeInv
<1>7. shared_waiters_ = << >>
  BY DEF IInv, QueueInv
<1>8. QueueInv' /\ RaceInv'
  BY <1>5, <1>6, <1>7, SameQueues DEF CanLock, EnterShared
<1>9. Cardinality(GrantedSet') = Cardinality(GrantedSet) + 1 /\ Cardinality(GrantedSet) \in Nat
  BY <1>1, <1>3, CardinalityFacts
<1>10. /\ GrantedSet \subseteq Readers /\ Cardinality(GrantedSet) <= locked_shared_
       /\ life # "down" => locked_shared_ = Cardinality(GrantedSet)
  BY <1>6 DEF IInv, OwnerInv
<1> QED BY <1>3, <1>6, <1>8, <1>9, <1>10 DEF OwnerInv

(* Nobody is let in or leaves: the owners stay who they are.               *)
LEMMA OwnersStay ==
  ASSUME IInv, GrantedSet' = GrantedSet, UNCHANGED <<locked_, locked_shared_, misgranted>>,
         life = "down" => life' = "down"
  PROVE  OwnerInv'
BY DEF IInv, OwnerInv

(* c joins the exclusive queue, or the shared one.                         *)
LEMMA WaitStep ==
  ASSUME IInv, NEW c \in Clients, pc[c] = "idle", ~ CanLock, Queue(c),
         UNCHANGED <<mtx, dying, life, spurious, mt>>
  PROVE  QueueInv' /\ OwnerInv' /\ RaceInv'
<1>1. OpInv(Queued) /\ Queued \subseteq Clients /\ c \notin Queued
  BY InvFacts
<1>2. PICK Q \in SUBSET Clients : Q = Queued
  BY <1>1
<1>3. OpInv(Q \cup {c})' /\ GrantedSet' = GrantedSet
  BY <1>1, <1>2, JoinStep DEF Queue
<1>4. /\ Range(waiters_)' = Range(waiters_) \cup {c} /\ IsInjective(waiters_)'
      /\ shared_waiters_' = shared_waiters_
  BY <1>1, JoinQueue DEF Queue, Queued, IInv, TypeInv, QueueInv
<1>5. Queued' = Q \cup {c}
  BY <1>2, <1>4 DEF Queued
<1>6. LinkedInv(Queued)' /\ RaceInv'
  BY <1>3, <1>5 DEF OpInv, LinkedInv
<1>7. (Range(waiters_) \cap Range(shared_waiters_))' = {} /\ IsInjective(shared_waiters_)'
  BY <1>1, <1>4 DEF Queued, IInv, QueueInv
<1>8. ~ CanLock' /\ (shared_waiters_' # << >> => ~ CanLockShared')
  BY <1>4 DEF Queue, CanLock, CanLockShared, IInv, QueueInv
<1>9. QueueInv'
  BY <1>4, <1>6, <1>7, <1>8 DEF QueueInv
<1> QED BY <1>3, <1>6, <1>9, OwnersStay DEF Queue

LEMMA WaitSharedStep ==
  ASSUME IInv, NEW c \in Readers, pc[c] = "idle", ~ CanLockShared, QueueShared(c),
         UNCHANGED <<mtx, dying, life, spurious, mt>>
  PROVE  QueueInv' /\ OwnerInv' /\ RaceInv'
<1>1. OpInv(Queued) /\ Queued \subseteq Clients /\ c \in Clients /\ c \notin Queued
  BY InvFacts
<1>2. PICK Q \in SUBSET Clients : Q = Queued
  BY <1>1
<1>3. OpInv(Q \cup {c})' /\ GrantedSet' = GrantedSet
  BY <1>1, <1>2, JoinStep DEF QueueShared
<1>4. /\ Range(shared_waiters_)' = Range(shared_waiters_) \cup {c} /\ IsInjective(shared_waiters_)'
      /\ waiters_' = waiters_
  BY <1>1, JoinQueue DEF QueueShared, Queued, IInv, TypeInv, QueueInv
<1>5. Queued' = Q \cup {c}
  BY <1>2, <1>4 DEF Queued
<1>6. LinkedInv(Queued)' /\ RaceInv'
  BY <1>3, <1>5 DEF OpInv, LinkedInv
<1>7. (Range(waiters_) \cap Range(shared_waiters_))' = {} /\ IsInjective(waiters_)'
  BY <1>1, <1>4 DEF Queued, IInv, QueueInv
<1>8. ~ CanLock' /\ ~ CanLockShared'
  BY DEF QueueShared, CanLock, CanLockShared
<1>9. QueueInv'
  BY <1>4, <1>6, <1>7, <1>8 DEF QueueInv
<1> QED BY <1>3, <1>6, <1>9, OwnersStay DEF QueueShared

(* A cancelled operation leaves the queue it is in.                        *)
LEMMA CancelStep ==
  ASSUME IInv, NEW c \in Clients, Cancel(c)
  PROVE  QueueInv' /\ OwnerInv' /\ RaceInv'
<1>1. OpInv(Queued) /\ Queued \subseteq Clients
  BY InvFacts
<1>2. PICK Q \in SUBSET Clients : Q = Queued
  BY <1>1
<1>3. OpInv(Q \ {c})' /\ GrantedSet' = GrantedSet
  BY <1>1, <1>2, CancelOpStep DEF Cancel, Queued
<1>4. /\ Range(waiters_)' = Range(waiters_) \ {c} /\ IsInjective(waiters_)'
      /\ Range(shared_waiters_)' = Range(shared_waiters_) \ {c} /\ IsInjective(shared_waiters_)'
  BY RemoveFirstProps DEF Cancel, IInv, TypeInv, QueueInv
<1>5. Queued' = Q \ {c}
  BY <1>2, <1>4 DEF Queued
<1>6. LinkedInv(Queued)' /\ RaceInv'
  BY <1>3, <1>5 DEF OpInv, LinkedInv
<1>7. (Range(waiters_) \cap Range(shared_waiters_))' = {}
  BY <1>4 DEF IInv, QueueInv
<1>8. (waiters_' # << >> => waiters_ # << >>) /\ (shared_waiters_' # << >> => shared_waiters_ # << >>)
  <2>1. waiters_ = << >> => waiters_' = << >>
    BY DEF Cancel, RemoveFirst
  <2>2. shared_waiters_ = << >> => shared_waiters_' = << >>
    BY DEF Cancel, RemoveFirst
  <2> QED BY <2>1, <2>2
<1>9. (waiters_' # << >> => ~ CanLock') /\ (shared_waiters_' # << >> => ~ CanLockShared')
  BY <1>8 DEF Cancel, CanLock, CanLockShared, IInv, QueueInv
<1>10. QueueInv'
  BY <1>4, <1>6, <1>7, <1>9 DEF QueueInv
<1> QED BY <1>3, <1>6, <1>10, OwnersStay DEF Cancel

(* c gives its lock to the front of the exclusive queue, who is then alone *)
(* with it.                                                                *)
LEMMA HandOverStep ==
  ASSUME IInv, NEW c \in Clients, pc[c] = "acquired", GrantedSet = {c}, waiters_ # << >>, HandOver(c),
         locked_', locked_shared_' = 0, UNCHANGED <<mtx, dying, life, spurious, mt>>
  PROVE  QueueInv' /\ OwnerInv' /\ RaceInv'
<1>1. OpInv(Queued) /\ Queued \subseteq Clients
  BY InvFacts
<1>2. PICK Q \in SUBSET Clients : Q = Queued
  BY <1>1
<1>3. PICK h \in Q : h = Head(waiters_)
  BY <1>2, LeaveFront DEF IInv, TypeInv, Queued
<1>4. CompleteAndGo({h}, "ok", c, "idle") /\ {h} \in SUBSET Q
  BY <1>3 DEF HandOver
<1>5. OpInv(Q \ {h})' /\ GrantedSet' = (GrantedSet \ {c}) \cup {h}
  BY <1>1, <1>2, <1>4, GrantOpsStep
<1>6. /\ Range(waiters_)' = Range(waiters_) \ {h} /\ IsInjective(waiters_)' /\ h \in Range(waiters_)
      /\ shared_waiters_' = shared_waiters_
  BY <1>3, LeaveFront DEF HandOver, IInv, TypeInv, QueueInv
<1>7. Queued' = Q \ {h}
  BY <1>2, <1>6 DEF Queued, IInv, QueueInv
<1>8. LinkedInv(Queued)' /\ RaceInv'
  BY <1>5, <1>7 DEF OpInv, LinkedInv
<1>9. (Range(waiters_) \cap Range(shared_waiters_))' = {} /\ IsInjective(shared_waiters_)'
  BY <1>6 DEF IInv, QueueInv
<1>10. ~ CanLock' /\ ~ CanLockShared'
  BY DEF CanLock, CanLockShared
<1>11. QueueInv'
  BY <1>6, <1>8, <1>9, <1>10 DEF QueueInv
<1>12. GrantedSet' = {h} /\ h \in Clients
  BY <1>3, <1>5
<1>13. ~ misgranted' => h \in Writers
  BY <1>3, <1>12 DEF HandOver, Writers
<1> QED BY <1>8, <1>11, <1>12, <1>13 DEF OwnerInv

(* c gives its lock back and nobody takes it over.                         *)
LEMMA GiveBack ==
  ASSUME IInv, NEW c \in Clients, pc[c] = "acquired", HandOverNothing(c),
         UNCHANGED <<mtx, dying, life, spurious, mt>>
  PROVE  OpInv(Queued)' /\ GrantedSet' = GrantedSet \ {c}
<1>1. OpInv(Queued) /\ Queued \subseteq Clients
  BY InvFacts
<1>2. PICK Q \in SUBSET Clients : Q = Queued
  BY <1>1
<1>3. CompleteAndGo({}, "ok", c, "idle") /\ {} \in SUBSET Q
  BY DEF HandOverNothing
<1>4. OpInv(Q \ {})' /\ GrantedSet' = (GrantedSet \ {c}) \cup {}
  BY <1>1, <1>2, <1>3, GrantOpsStep
<1>5. Queued' = Q \ {}
  BY <1>2 DEF Queued, HandOverNothing
<1> QED BY <1>4, <1>5 DEF OpInv, LinkedInv

(* unlock().  Only a writer calls it, so the lock is held exclusively.     *)
LEMMA UnlockStep ==
  ASSUME IsFiniteSet(Clients), IInv, NEW c \in Clients, Unlock(c)
  PROVE  QueueInv' /\ OwnerInv' /\ RaceInv'
<1>1. /\ OpInv(Queued) /\ Queued \subseteq Clients /\ c \in GrantedSet
      /\ pc[c] = "acquired" /\ c \in Writers
  BY InvFacts DEF Unlock
<1>2. locked_ /\ locked_shared_ = 0 /\ GrantedSet = {c}
  <2>1. locked_
    BY <1>1 DEF IInv, OwnerInv, Writers
  <2> QED BY <1>1, <2>1 DEF IInv, OwnerInv
<1>3. CASE shared_waiters_ # << >>
  <2>0. PICK Q \in SUBSET Clients : Q = Queued
    BY <1>1
  <2>1. PICK S \in SUBSET Q : S = Range(shared_waiters_) /\ Q = Queued
    BY <2>0 DEF Queued
  <2>2. /\ CompleteAndGo(S, "ok", c, "idle") /\ ~ locked_'
        /\ locked_shared_' = Len(shared_waiters_)
    <3>1. /\ locked_' = FALSE /\ CompleteAndGo(Range(shared_waiters_), "ok", c, "idle")
          /\ locked_shared_' = locked_shared_ + Len(shared_waiters_)
      BY <1>3 DEF Unlock
    <3>2. Len(shared_waiters_) \in Nat
      BY DEF IInv, TypeInv
    <3> QED BY <1>2, <2>1, <3>1, <3>2
  <2>3. waiters_' = waiters_ /\ shared_waiters_' = << >>
    BY <1>3 DEF Unlock
  <2>4. OpInv(Q \ S)' /\ GrantedSet' = (GrantedSet \ {c}) \cup S
    BY <1>1, <2>1, <2>2, GrantOpsStep DEF Unlock
  <2>5. GrantedSet' = S
    BY <1>2, <2>4
  <2>6. Len(shared_waiters_) \in Nat /\ Len(shared_waiters_) > 0 /\ Cardinality(S) = Len(shared_waiters_)
        /\ S \subseteq Readers
    BY <1>3, <2>1, QueueLength, QueueElements DEF IInv, TypeInv, QueueInv
  <2>7. Range(shared_waiters_)' = {} /\ IsInjective(shared_waiters_)'
    BY <2>3, EmptyQueue
  <2>8. Queued' = Q \ S
    BY <2>1, <2>3, <2>7 DEF Queued, IInv, QueueInv
  <2>9. LinkedInv(Queued)' /\ RaceInv'
    BY <2>4, <2>8 DEF OpInv, LinkedInv
  <2>10. ~ CanLock'
    BY <2>2, <2>6 DEF CanLock
  <2>11. QueueInv'
    BY <2>3, <2>7, <2>9, <2>10 DEF QueueInv, IInv
  <2>12. OwnerInv'
    BY <2>2, <2>5, <2>6 DEF OwnerInv
  <2> QED BY <2>9, <2>11, <2>12
<1>4. CASE shared_waiters_ = << >> /\ waiters_ = << >>
  <2>1. OpInv(Queued)' /\ GrantedSet' = GrantedSet \ {c}
    BY <1>1, <1>4, GiveBack DEF Unlock
  <2>2. UNCHANGED <<waiters_, shared_waiters_, locked_shared_>> /\ ~ locked_'
    BY <1>4 DEF Unlock, HandOverNothing
  <2>3. QueueInv' /\ RaceInv'
    BY <1>4, <2>1, <2>2, SameQueues
  <2>4. GrantedSet' = {} /\ locked_shared_' = 0
    BY <1>2, <2>1, <2>2
  <2>5. Cardinality(GrantedSet') = 0
    BY <2>4, FS_EmptySet
  <2> QED BY <2>2, <2>3, <2>4, <2>5 DEF OwnerInv
<1>5. CASE shared_waiters_ = << >> /\ waiters_ # << >>
  <2>1. HandOver(c) /\ UNCHANGED <<locked_, locked_shared_>>
    BY <1>5 DEF Unlock
  <2>2. locked_' /\ locked_shared_' = 0
    BY <1>2, <2>1
  <2> QED BY <1>1, <1>2, <1>5, <2>1, <2>2, HandOverStep DEF Unlock
<1> QED BY <1>3, <1>4, <1>5

(* unlock_shared().  A reader calls it that was counted, or one that was   *)
(* handed the exclusive lock.                                              *)
LEMMA UnlockSharedStep ==
  ASSUME IsFiniteSet(Clients), IInv, NEW c \in Clients, UnlockShared(c)
  PROVE  QueueInv' /\ OwnerInv' /\ RaceInv'
<1>1. /\ GrantedSet \subseteq Clients /\ c \in GrantedSet
      /\ pc[c] = "acquired" /\ c \in Readers /\ locked_shared_ \in Nat
  BY InvFacts DEF UnlockShared, IInv, TypeInv
<1>2. /\ IsFiniteSet(GrantedSet) /\ Cardinality(GrantedSet) \in Nat
      /\ Cardinality(GrantedSet \ {c}) = Cardinality(GrantedSet) - 1
      /\ Cardinality(GrantedSet \ {c}) \in Nat
  <2>1. GrantedSet \ {c} \in SUBSET Clients /\ GrantedSet \in SUBSET Clients
    BY <1>1
  <2> QED BY <1>1, <2>1, CardinalityFacts, FS_Subset
<1>3. ASSUME locked_shared_' = 0 PROVE GrantedSet = {c}
  <2>1. CASE locked_
    BY <1>1, <2>1 DEF IInv, OwnerInv
  <2>2. CASE ~ locked_
    <3>1. locked_shared_ <= 1 /\ Cardinality(GrantedSet) <= locked_shared_
      BY <1>1, <1>3, <2>2 DEF UnlockShared, IInv, OwnerInv
    <3>2. Cardinality(GrantedSet \ {c}) = 0
      BY <1>1, <1>2, <3>1
    <3>3. GrantedSet \ {c} = {}
      BY <1>2, <3>2, FS_EmptySet, FS_Subset
    <3> QED BY <1>1, <3>3
  <2> QED BY <2>1, <2>2
<1>4. CASE locked_shared_' = 0 /\ waiters_ # << >>
  <2>1. HandOver(c) /\ locked_' = TRUE
    BY <1>4 DEF UnlockShared
  <2> QED BY <1>1, <1>3, <1>4, <2>1, HandOverStep DEF UnlockShared
<1>5. CASE locked_shared_' # 0 \/ waiters_ = << >>
  <2>1. HandOverNothing(c) /\ UNCHANGED locked_
    BY <1>5 DEF UnlockShared
  <2>2. OpInv(Queued)' /\ GrantedSet' = GrantedSet \ {c}
    BY <1>1, <2>1, GiveBack DEF UnlockShared
  <2>3. UNCHANGED <<waiters_, shared_waiters_, misgranted, life>>
    BY <2>1 DEF HandOverNothing, UnlockShared
  <2>4. shared_waiters_ # << >> => ~ CanLockShared'
    BY <2>1 DEF CanLockShared, IInv, QueueInv
  <2>5. waiters_ # << >> => ~ CanLock'
    BY <1>5 DEF CanLock
  <2>6. QueueInv' /\ RaceInv'
    BY <2>2, <2>3, <2>4, <2>5, SameQueues
  <2>7. CASE locked_
    <3>1. locked_' /\ locked_shared_' = 0
      BY <2>1, <2>7 DEF IInv, OwnerInv, UnlockShared
    <3>2. GrantedSet' = {}
      BY <1>1, <2>2, <2>7 DEF IInv, OwnerInv
    <3>3. misgranted
      BY <1>1, <2>7 DEF IInv, OwnerInv, Writers
    <3>4. misgranted'
      BY <2>3, <3>3
    <3> QED BY <2>6, <3>1, <3>2, <3>4 DEF OwnerInv
  <2>8. CASE ~ locked_
    <3>1. ~ locked_'
      BY <2>1, <2>8
    <3>2. /\ GrantedSet \subseteq Readers /\ Cardinality(GrantedSet) <= locked_shared_
          /\ life # "down" => locked_shared_ = Cardinality(GrantedSet)
      BY <2>8 DEF IInv, OwnerInv
    <3>3. locked_shared_' = locked_shared_ - 1
      BY <1>1, <1>2, <3>2 DEF UnlockShared
    <3>4. Cardinality(GrantedSet') = Cardinality(GrantedSet) - 1
      BY <1>2, <2>2
    <3> QED BY <1>1, <1>2, <2>2, <2>3, <2>6, <3>1, <3>2, <3>3, <3>4 DEF OwnerInv
  <2> QED BY <2>7, <2>8
<1> QED BY <1>4, <1>5

(* Every step preserves the inductive invariant.                           *)
LEMMA InvStep ==
  ASSUME NoShutdownRace, IsFiniteSet(Clients), IInv, Step
  PROVE  IInv'
<1>1. TypeInv'
  BY TypeStep DEF IInv
<1>2. Queued \subseteq Clients /\ OpInv(Queued) /\ Readers \subseteq Clients
  BY InvFacts
<1>3. PICK Q \in SUBSET Clients : Q = Queued
  BY <1>2
<1>4. ASSUME UNCHANGED locks, OpInv(Q)' PROVE QueueInv' /\ RaceInv'
  <2>1. Queued' = Q
    BY <1>3, <1>4 DEF Queued, locks
  <2>2. OpInv(Queued)'
    BY <1>4, <2>1 DEF OpInv, LinkedInv
  <2>3. (waiters_ # << >> => ~ CanLock') /\ (shared_waiters_ # << >> => ~ CanLockShared')
    BY <1>4 DEF locks, CanLock, CanLockShared, IInv, QueueInv
  <2> QED BY <1>4, <2>2, <2>3, SameQueues DEF locks
<1>5. ASSUME NEW c \in Clients, AsyncLock(c) PROVE QueueInv' /\ OwnerInv' /\ RaceInv'
  <2>1. c \notin Readers /\ misgranted \in BOOLEAN
    BY <1>5 DEF AsyncLock, Writers, IInv, TypeInv
  <2>2. CASE CanLock
    <3>1. misgranted' = (misgranted \/ c \in Readers)
      BY <1>5, <2>1, <2>2 DEF AsyncLock, Enter
    <3> QED BY <1>5, <2>2, <3>1, TakeStep DEF AsyncLock, Enter
  <2>3. CASE ~ CanLock
    BY <1>5, <2>3, WaitStep DEF AsyncLock
  <2> QED BY <2>2, <2>3
<1>6. ASSUME NEW c \in Clients, AsyncLockShared(c) PROVE QueueInv' /\ OwnerInv' /\ RaceInv'
  BY <1>6, TakeSharedStep, WaitSharedStep DEF AsyncLockShared
<1>7. ASSUME NEW c \in Clients, TryLock(c) PROVE QueueInv' /\ OwnerInv' /\ RaceInv'
  <2>1. c \notin Readers /\ misgranted \in BOOLEAN
    BY <1>7 DEF TryLock, Writers, IInv, TypeInv
  <2>2. misgranted' = (misgranted \/ c \in Readers)
    BY <1>7, <2>1 DEF TryLock, Enter
  <2> QED BY <1>7, <2>2, TakeStep DEF TryLock, Enter
<1>8. ASSUME NEW c \in Clients, TryLockShared(c) PROVE QueueInv' /\ OwnerInv' /\ RaceInv'
  BY <1>8, TakeSharedStep DEF TryLockShared
<1>9. ASSUME NEW c \in Clients, Lock(c) PROVE QueueInv' /\ OwnerInv' /\ RaceInv'
  <2>1. c \notin Readers /\ misgranted \in BOOLEAN
    BY <1>9 DEF Lock, Writers, IInv, TypeInv
  <2>2. CASE CanLock
    <3>1. misgranted' = (misgranted \/ c \in Readers)
      BY <1>9, <2>1, <2>2 DEF Lock, Enter
    <3> QED BY <1>9, <2>2, <3>1, TakeStep DEF Lock, Enter
  <2>3. CASE ~ CanLock
    BY <1>9, <2>3, WaitStep DEF Lock
  <2> QED BY <2>2, <2>3
<1>10. ASSUME NEW c \in Clients, LockShared(c) PROVE QueueInv' /\ OwnerInv' /\ RaceInv'
  BY <1>10, TakeSharedStep, WaitStep DEF LockShared, CanLock, CanLockShared
<1>11. ASSUME NEW c \in Clients, pc[c] = "idle", Finish(c, "in_progress", "idle"), UNCHANGED locks,
              UNCHANGED <<mtx, dying, life, spurious, mt>>
       PROVE  QueueInv' /\ OwnerInv' /\ RaceInv'
  <2>1. OpInv(Q)' /\ GrantedSet' = GrantedSet
    BY <1>2, <1>3, <1>11, RefuseStep
  <2> QED BY <1>4, <1>11, <2>1, OwnersStay DEF locks
<1>12. ASSUME NEW c \in Clients, LockSingleThreaded(c) PROVE QueueInv' /\ OwnerInv' /\ RaceInv'
  <2>1. c \notin Readers /\ misgranted \in BOOLEAN
    BY <1>12 DEF LockSingleThreaded, Writers, IInv, TypeInv
  <2>2. CASE CanLock
    <3>1. misgranted' = (misgranted \/ c \in Readers)
      BY <1>12, <2>1, <2>2 DEF LockSingleThreaded, Enter
    <3> QED BY <1>12, <2>2, <3>1, TakeStep DEF LockSingleThreaded, Enter
  <2>3. CASE ~ CanLock
    BY <1>11, <1>12, <2>3 DEF LockSingleThreaded
  <2> QED BY <2>2, <2>3
<1>13. ASSUME NEW c \in Clients, LockSharedSingleThreaded(c)
       PROVE  QueueInv' /\ OwnerInv' /\ RaceInv'
  BY <1>11, <1>13, TakeSharedStep DEF LockSharedSingleThreaded
<1>14. ASSUME NEW c \in Clients, GuardLockShared(c) PROVE QueueInv' /\ OwnerInv' /\ RaceInv'
  <2>1. c \in Readers
    BY <1>14 DEF GuardLockShared
  <2>2. CASE CanLock
    <3>1. misgranted' = (misgranted \/ c \in Readers)
      BY <1>14, <2>1, <2>2 DEF GuardLockShared
    <3> QED BY <1>14, <2>2, <3>1, TakeStep DEF GuardLockShared
  <2>3. CASE ~ CanLock
    BY <1>11, <1>14, <2>3, WaitStep DEF GuardLockShared
  <2> QED BY <2>2, <2>3
<1>15. ASSUME NEW c \in Clients, OpStep(c), UNCHANGED locks PROVE QueueInv' /\ OwnerInv' /\ RaceInv'
  <2>1. OpInv(Q)'
    BY <1>2, <1>3, <1>15, OpStepInv
  <2>2. UNCHANGED life
    BY <1>15 DEF OpStep, InlineReturn, InlineReenter, RunHandler, DestroyHandler,
                 SpuriousWakeup, Recheck, SleepAgain
  <2>3. ASSUME GrantedSet' = GrantedSet PROVE OwnerInv'
    BY <1>15, <2>2, <2>3, OwnersStay DEF locks
  <2>4. ASSUME life = "down", c \in GrantedSet, GrantedSet' = GrantedSet \ {c} PROVE OwnerInv'
    <3>1. Cardinality(GrantedSet') = Cardinality(GrantedSet) - 1 /\ Cardinality(GrantedSet) \in Nat
      <4>1. GrantedSet \in SUBSET Clients
        BY DEF GrantedSet
      <4> QED BY <2>4, <4>1, CardinalityFacts
    <3>2. locked_shared_ \in Nat /\ UNCHANGED <<locked_, locked_shared_, misgranted>>
      BY <1>15 DEF locks, IInv, TypeInv
    <3> QED BY <2>2, <2>4, <3>1, <3>2 DEF IInv, OwnerInv
  <2>5. OwnerInv'
    BY <1>15, <2>3, <2>4, OpStepGrants DEF IInv, TypeInv
  <2> QED BY <1>4, <1>15, <2>1, <2>5
<1>16. CASE ShutdownStep /\ UNCHANGED locks
  <2>1. OpInv(Q)' /\ GrantedSet' = GrantedSet
    BY <1>2, <1>3, <1>16, ShutdownStepInv
  <2>2. UNCHANGED life
    BY <1>16 DEF ShutdownStep, ShutdownAsync, ShutdownDone, ShutdownError, ShutdownNotify
  <2> QED BY <1>1, <1>4, <1>16, <2>1, <2>2, OwnersStay DEF locks, IInv
<1>17. CASE Shutdown
  <2>1. waiters_ \in Seq(Clients) /\ shared_waiters_ \in Seq(Clients)
    BY <1>2 DEF IInv, TypeInv
  <2>2. PICK w \in Seq(Clients) : w = waiters_ \o shared_waiters_
    BY <2>1, ConcatQueues
  <2>3. Range(w) = Queued /\ IsInjective(w)
    BY <2>1, <2>2, ConcatQueues DEF Queued, IInv, QueueInv
  <2>4. OpInv(Range(w))
    BY <1>2, <2>3
  <2>5. OpInv({})' /\ GrantedSet' = GrantedSet
    BY <1>17, <2>2, <2>3, <2>4, ShutdownTakeInv DEF Shutdown
  <2> QED BY <1>1, <1>17, <2>5, NoQueues, OwnersStay DEF Shutdown, ShutdownTake, IInv
<1>18. CASE Destroy
  <2>1. OpInv({})' /\ GrantedSet' = GrantedSet
    BY <1>2, <1>3, <1>18, DestroyListsInv DEF Destroy, Queued
  <2> QED BY <1>1, <1>18, <2>1, NoQueues, OwnersStay DEF Destroy, DestroyLists, IInv
<1> QED
  BY <1>1, <1>5, <1>6, <1>7, <1>8, <1>9, <1>10, <1>12, <1>13, <1>14, <1>15, <1>16, <1>17, <1>18,
     UnlockStep, UnlockSharedStep, CancelStep DEF Step, Next, Call, IInv

(* A new shared mutex is free and nobody waits.                            *)
LEMMA InvInit == Init => IInv
<1> SUFFICES ASSUME Init PROVE IInv
  OBVIOUS
<1>1. TypeInv
  BY OpInitType, EmptyQueue DEF Init, TypeInv
<1>2. /\ Range(waiters_) = {} /\ IsInjective(waiters_) /\ OpInv({}) /\ GrantedSet = {}
      /\ Range(shared_waiters_) = {} /\ IsInjective(shared_waiters_)
  BY EmptyQueue, OpInitInv DEF Init
<1>3. Queued = {}
  BY <1>2 DEF Queued
<1>4. QueueInv /\ RaceInv
  BY <1>2, <1>3 DEF QueueInv, OpInv, Init
<1>5. OwnerInv
  BY <1>2, FS_EmptySet DEF OwnerInv, Init
<1> QED BY <1>1, <1>4, <1>5 DEF IInv

(* Every step with guards is a step of the shared mutex or moves a guard.  *)
LEMMA GuardStepIsStep == [LNext]_lvars => [Step]_vars
<1> SUFFICES ASSUME [LNext]_lvars PROVE [Step]_vars
  OBVIOUS
<1>0. GuardUsers \subseteq Clients
  BY LockGuardAssumption
<1>1. ASSUME NEW c \in GuardUsers, GuardLocking(c) PROVE [Step]_vars
  BY <1>0, <1>1 DEF GuardLocking, GuardLockAsync, GuardLockSharedAsync, GuardLockBlocking,
                    Step, Next, Call
<1>2. ASSUME NEW g \in Slots, NEW h \in Slots, GuardMove(g, h) \/ GuardAssign(g, h)
      PROVE  [Step]_vars
  BY <1>2 DEF GuardMove, GuardAssign
<1>3. ASSUME NEW g \in Slots, GuardUnlock(g) \/ GuardDestroyEmpty(g) PROVE [Step]_vars
  BY <1>3 DEF GuardUnlock, GuardDestroyEmpty, Step, Next, Call
<1>4. CASE Unguarded
  BY <1>0, <1>4 DEF Unguarded, Step, Next, Call
<1>5. CASE UNCHANGED lvars
  BY <1>5 DEF lvars, vars
<1> QED
  BY <1>1, <1>2, <1>3, <1>4, <1>5 DEF LNext

(* The inductive invariant holds in every state of every behaviour.        *)
LEMMA Invariance ==
  ASSUME NoShutdownRace, IsFiniteSet(Clients)
  PROVE  LSpec => []IInv
<1>1. LInit => IInv
  BY InvInit DEF LInit
<1>2. IInv /\ [LNext]_lvars => IInv'
  <2>1. IInv /\ UNCHANGED vars => IInv'
    BY DEF vars, IInv, TypeInv, OpTypeOK, QueueInv, Queued, LinkedInv, RaceInv, Pending, Blocked,
           OwnerInv, GrantedSet, Granted, CanLock, CanLockShared
  <2> QED BY <2>1, InvStep, GuardStepIsStep
<1> QED
  BY <1>1, <1>2, PTL DEF LSpec

-----------------------------------------------------------------------------
(* A writer with the lock is alone with it, even after a reader was handed *)
(* the exclusive lock, after a shutdown, and whoever unlocks through       *)
(* guards.                                                                 *)
THEOREM SharedMutexExcludes ==
  ASSUME NoShutdownRace, IsFiniteSet(Clients)
  PROVE  LSpec => []WritersExclude
<1>1. IInv => WritersExclude
  <2> SUFFICES ASSUME IInv, NEW w \in Writers, NEW c \in Clients, Granted(w), Granted(c)
               PROVE  w = c
    BY DEF WritersExclude
  <2>1. w \in GrantedSet /\ c \in GrantedSet /\ w \notin Readers
    BY DEF GrantedSet, Writers
  <2> QED BY <2>1 DEF IInv, OwnerInv
<1> QED
  BY <1>1, Invariance, PTL

(* locked_ and locked_shared_ say exactly who has the lock.                *)
THEOREM SharedMutexCountsOwners ==
  ASSUME NoShutdownRace, IsFiniteSet(Clients)
  PROVE  LSpec => []LocksHaveOwners
<1>1. IInv => LocksHaveOwners
  <2> SUFFICES ASSUME IInv, life # "down", ~ misgranted
               PROVE  /\ locked_ <=> \E w \in Writers : Granted(w)
                      /\ locked_shared_ = Cardinality({r \in Readers : Granted(r)})
    BY DEF LocksHaveOwners
  <2>0. Readers \subseteq Clients
    BY InvFacts
  <2>1. CASE locked_
    <3>1. GrantedSet \subseteq Writers /\ GrantedSet # {} /\ locked_shared_ = 0
      BY <2>1 DEF IInv, OwnerInv
    <3>2. \E w \in Writers : Granted(w)
      BY <3>1 DEF GrantedSet
    <3>3. {r \in Readers : Granted(r)} = {}
      BY <2>0, <3>1 DEF GrantedSet, Writers
    <3> QED BY <2>1, <3>1, <3>2, <3>3, FS_EmptySet
  <2>2. CASE ~ locked_
    <3>1. GrantedSet \subseteq Readers /\ locked_shared_ = Cardinality(GrantedSet)
      BY <2>2 DEF IInv, OwnerInv
    <3>2. ~ \E w \in Writers : Granted(w)
      BY <3>1 DEF GrantedSet, Writers
    <3>3. {r \in Readers : Granted(r)} = GrantedSet
      BY <2>0, <3>1 DEF GrantedSet
    <3> QED BY <2>2, <3>1, <3>2, <3>3
  <2> QED BY <2>1, <2>2
<1> QED
  BY <1>1, Invariance, PTL

(* Nobody waits for a lock that could be had, nobody is in the queues      *)
(* twice, and no waiter is lost.                                           *)
THEOREM SharedMutexQueuesWaiters ==
  ASSUME NoShutdownRace, IsFiniteSet(Clients)
  PROVE  LSpec => []WaitersAreQueued
<1>1. IInv => WaitersAreQueued
  <2> SUFFICES ASSUME IInv PROVE WaitersAreQueued
    OBVIOUS
  <2>1. waiters_ \in Seq(Clients) /\ shared_waiters_ \in Seq(Clients)
    BY InvFacts DEF IInv, TypeInv
  <2>2. Range(waiters_ \o shared_waiters_) = Queued /\ IsInjective(waiters_ \o shared_waiters_)
    BY <2>1, ConcatQueues DEF Queued, IInv, QueueInv
  <2> QED BY <2>2 DEF WaitersAreQueued, IInv, QueueInv, LinkedInv
<1> QED
  BY <1>1, Invariance, PTL

-----------------------------------------------------------------------------
(* Guards.  What GuardsOwnTheLocks says of them, with the one guard of a   *)
(* lock named instead of counted.                                          *)
GuardInv ==
  /\ guard \in [Slots -> Clients \cup {Dead, Empty}]
  /\ \A g, h \in Slots : guard[g] \in Clients /\ guard[g] = guard[h] => g = h
  /\ \A g \in Slots : guard[g] \in Clients =>
       guard[g] \in GuardUsers /\ pc[guard[g]] = "acquired" /\ g \in SlotsFor(guard[g])
  /\ \A c \in GuardUsers : pc[c] = "acquired" => \E g \in Slots : guard[g] = c

(* c has a lock after the step if it had one before.                       *)
SameHold(c) == pc'[c] = "acquired" <=> pc[c] = "acquired"

(* A call takes a lock only for its caller, whatever it completes.         *)
LEMMA CallHolds ==
  ASSUME OpTypeOK, NEW d \in Clients, NEW c \in Clients,
         \/ c # d /\ \/ DispatchInSection(d) \/ StartWaiting(d)
                     \/ \E e \in Results, p \in Pcs : Finish(d, e, p)
                     \/ \E S, e : CompleteAndGo(S, e, d, "idle")
         \/ \E S, e : Complete(S, e)
  PROVE  SameHold(c)
<1>1. \/ pc'[c] = pc[c]
      \/ pc'[c] = CompletedPc(c)
  BY DEF OpTypeOK, DispatchInSection, StartWaiting, Finish, CompleteAndGo, Complete
<1> QED BY <1>1 DEF SameHold, CompletedPc

LEMMA StepHolds ==
  ASSUME IInv, NEW d \in Clients, NEW c \in Clients, c # d,
         Call(d) \/ GuardLockShared(d) \/ OpStep(d)
  PROVE  SameHold(c)
<1>0. /\ {"idle", "acquired", "posted"} \subseteq Pcs /\ {"ok", "in_progress"} \subseteq Results
      /\ OpTypeOK
  BY DEF Pcs, Results, IInv, TypeInv
<1>1. CASE AsyncLock(d) \/ AsyncLockShared(d)
  BY <1>0, <1>1, CallHolds DEF AsyncLock, AsyncLockShared, Queue, QueueShared
<1>2. CASE TryLock(d) \/ TryLockShared(d) \/ LockSingleThreaded(d) \/ LockSharedSingleThreaded(d)
  BY <1>0, <1>2, CallHolds DEF TryLock, TryLockShared, LockSingleThreaded, LockSharedSingleThreaded
<1>3. CASE Lock(d) \/ LockShared(d) \/ GuardLockShared(d)
  BY <1>0, <1>3, CallHolds DEF Lock, LockShared, GuardLockShared, Queue
<1>4. CASE Unlock(d) \/ UnlockShared(d)
  BY <1>0, <1>4, CallHolds DEF Unlock, UnlockShared, HandOver, HandOverNothing
<1>5. CASE Cancel(d)
  BY <1>0, <1>5, CallHolds DEF Cancel
<1>6. CASE OpStep(d)
  BY <1>0, <1>6 DEF OpTypeOK, SameHold, OpStep, InlineReturn, InlineReenter, RunHandler,
                    DestroyHandler, SpuriousWakeup, Recheck, SleepAgain
<1> QED
  BY <1>1, <1>2, <1>3, <1>4, <1>5, <1>6 DEF Call

(* Nor does the end of the mutex.                                          *)
LEMMA EndHolds ==
  ASSUME IInv, NEW c \in Clients, ShutdownStep \/ Shutdown \/ Destroy
  PROVE  SameHold(c)
<1>0. OpTypeOK
  BY DEF IInv, TypeInv
<1>1. CASE ShutdownStep
  <2>1. dying # << >>
    BY <1>1 DEF ShutdownStep, ShutdownAsync, ShutdownDone, ShutdownError, ShutdownNotify
  <2>2. PICK h \in Clients : h = Head(dying)
    BY <1>0, <2>1, LeaveFront DEF OpTypeOK
  <2>3. CASE ShutdownAsync
    BY <1>0, <2>2, <2>3 DEF ShutdownAsync, Finish, SameHold, OpTypeOK
  <2>4. CASE ShutdownDone \/ ShutdownError
    BY <2>4 DEF ShutdownDone, ShutdownError, SameHold
  <2>5. CASE ShutdownNotify
    <3>1. pc' = [pc EXCEPT ![h] = CompletedPc(h)]
      BY <2>2, <2>5 DEF ShutdownNotify
    <3>2. pc'[c] = pc[c] \/ pc'[c] = CompletedPc(c)
      BY <1>0, <3>1 DEF OpTypeOK
    <3> QED BY <3>2 DEF SameHold, CompletedPc
  <2> QED BY <1>1, <2>3, <2>4, <2>5 DEF ShutdownStep
<1>2. CASE Shutdown
  BY <1>2 DEF Shutdown, ShutdownTake, SameHold
<1>3. CASE Destroy
  BY <1>0, <1>3, CallHolds DEF Destroy, DestroyLists
<1> QED BY <1>1, <1>2, <1>3

(* Who locks through a guard has no lock before, and who unlocks has none  *)
(* after.                                                                  *)
LEMMA LockingIsFree ==
  ASSUME NEW c, GuardLocking(c)
  PROVE  pc[c] # "acquired"
BY DEF GuardLocking, GuardLockAsync, GuardLockSharedAsync, GuardLockBlocking, GuardLockShared,
       AsyncLock, AsyncLockShared, Lock, LockShared, LockSingleThreaded, LockSharedSingleThreaded,
       TryLock, TryLockShared, OpStep, InlineReturn, InlineReenter, RunHandler, DestroyHandler,
       SpuriousWakeup, Recheck, SleepAgain

LEMMA UnlockingFrees ==
  ASSUME IInv, NEW c \in Clients, Unlock(c) \/ UnlockShared(c)
  PROVE  pc[c] = "acquired" /\ pc'[c] = "idle"
<1>1. pc[c] = "acquired" /\ c \notin Queued
  BY InvFacts DEF Unlock, UnlockShared
<1>2. PICK S \in SUBSET Queued : CompleteAndGo(S, "ok", c, "idle")
  <2>1. waiters_ # << >> => {Head(waiters_)} \in SUBSET Queued
    BY LeaveFront DEF Queued, IInv, TypeInv
  <2>2. {} \in SUBSET Queued /\ Range(shared_waiters_) \in SUBSET Queued
    BY DEF Queued
  <2>3. CASE Unlock(c)
    BY <2>1, <2>2, <2>3 DEF Unlock, HandOver, HandOverNothing
  <2>4. CASE UnlockShared(c)
    BY <2>1, <2>2, <2>4 DEF UnlockShared, HandOver, HandOverNothing
  <2> QED BY <2>3, <2>4
<1> QED BY <1>1, <1>2 DEF CompleteAndGo

(* If everybody holds what they held and the guards stay, so does the      *)
(* invariant.                                                              *)
LEMMA GuardsStay ==
  ASSUME GuardInv, UNCHANGED guard, \A c \in GuardUsers : SameHold(c)
  PROVE  GuardInv'
BY DEF GuardInv, SameHold, SlotsFor

LEMMA GuardStep ==
  ASSUME IInv, GuardInv, [LNext]_lvars
  PROVE  GuardInv'
<1>0. /\ GuardUsers \subseteq Clients /\ Dead \notin Clients /\ Empty \notin Clients /\ Dead # Empty
      /\ guard \in [Slots -> Clients \cup {Dead, Empty}]
  BY LockGuardAssumption DEF GuardInv
<1>1. ASSUME NEW c \in GuardUsers, GuardLocking(c) PROVE GuardInv'
  <2>1. \A d \in GuardUsers \ {c} : SameHold(d)
    BY <1>0, <1>1, StepHolds
       DEF GuardLocking, GuardLockAsync, GuardLockSharedAsync, GuardLockBlocking, Call
  <2>2. pc[c] # "acquired" /\ \A h \in Slots : guard[h] # c
    BY <1>0, <1>1, LockingIsFree DEF GuardInv
  <2>3. CASE pc'[c] = "acquired"
    <3>1. PICK g \in SlotsFor(c) : guard[g] = Dead /\ guard' = [guard EXCEPT ![g] = c]
      BY <1>1, <2>2, <2>3 DEF GuardLocking, ReturnGuard
    <3>2. g \in Slots /\ guard'[g] = c /\ \A h \in Slots \ {g} : guard'[h] = guard[h]
      BY <1>0, <3>1 DEF SlotsFor
    <3>3. guard' \in [Slots -> Clients \cup {Dead, Empty}]
      BY <1>0, <3>1
    <3>4. \A h, k \in Slots : guard'[h] \in Clients /\ guard'[h] = guard'[k] => h = k
      BY <2>2, <3>2 DEF GuardInv
    <3>5. \A h \in Slots : guard'[h] \in Clients =>
            guard'[h] \in GuardUsers /\ pc'[guard'[h]] = "acquired" /\ h \in SlotsFor(guard'[h])
      BY <2>1, <2>2, <2>3, <3>1, <3>2 DEF GuardInv, SameHold
    <3>6. ASSUME NEW d \in GuardUsers, pc'[d] = "acquired" PROVE \E h \in Slots : guard'[h] = d
      <4>1. CASE d = c
        BY <3>2, <4>1
      <4>2. CASE d # c
        <5>1. PICK h \in Slots : guard[h] = d
          BY <2>1, <3>6, <4>2 DEF GuardInv, SameHold
        <5>2. h # g
          BY <1>0, <3>1, <5>1
        <5> QED BY <3>2, <5>1, <5>2
      <4> QED BY <4>1, <4>2
    <3> QED BY <3>3, <3>4, <3>5, <3>6 DEF GuardInv, SlotsFor
  <2>4. CASE pc'[c] # "acquired"
    <3>1. UNCHANGED guard
      BY <1>1, <2>4 DEF GuardLocking, ReturnGuard
    <3>2. SameHold(c)
      BY <2>2, <2>4 DEF SameHold
    <3> QED BY <2>1, <3>1, <3>2, GuardsStay
  <2> QED BY <2>3, <2>4
<1>2. ASSUME NEW to \in Slots, NEW from \in Slots, GuardMove(to, from) PROVE GuardInv'
  <2>1. /\ to # from /\ guard[to] = Dead /\ SameType(to, from) /\ pc' = pc
        /\ guard' = [guard EXCEPT ![to] = guard[from], ![from] = Empty]
    BY <1>2 DEF GuardMove, vars
  <2>2. /\ guard'[to] = guard[from] /\ guard'[from] = Empty
        /\ \A h \in Slots \ {to, from} : guard'[h] = guard[h]
        /\ guard' \in [Slots -> Clients \cup {Dead, Empty}]
    BY <1>0, <2>1
  <2>3. \A h, k \in Slots : guard'[h] \in Clients /\ guard'[h] = guard'[k] => h = k
    BY <1>0, <2>1, <2>2 DEF GuardInv
  <2>4. \A c : from \in SlotsFor(c) => to \in SlotsFor(c)
    BY <2>1 DEF SlotsFor, SameType
  <2>5. \A h \in Slots : guard'[h] \in Clients =>
          guard'[h] \in GuardUsers /\ pc'[guard'[h]] = "acquired" /\ h \in SlotsFor(guard'[h])
    BY <1>0, <2>1, <2>2, <2>4 DEF GuardInv
  <2>6. ASSUME NEW c \in GuardUsers, pc'[c] = "acquired" PROVE \E h \in Slots : guard'[h] = c
    <3>1. PICK h \in Slots : guard[h] = c
      BY <2>1, <2>6 DEF GuardInv
    <3> QED BY <1>0, <2>1, <2>2, <3>1
  <2> QED BY <2>2, <2>3, <2>5, <2>6 DEF GuardInv, SlotsFor
<1>3. ASSUME NEW to \in Slots, NEW from \in Slots, GuardAssign(to, from) PROVE GuardInv'
  <2>1. /\ SameType(to, from) /\ pc' = pc
        /\ guard' = [guard EXCEPT ![to] = guard[from], ![from] = guard[to]]
    BY <1>3 DEF GuardAssign, vars
  <2>2. /\ guard'[to] = guard[from] /\ guard'[from] = guard[to]
        /\ \A h \in Slots \ {to, from} : guard'[h] = guard[h]
        /\ guard' \in [Slots -> Clients \cup {Dead, Empty}]
    BY <1>0, <2>1
  <2>3. \A h, k \in Slots : guard'[h] \in Clients /\ guard'[h] = guard'[k] => h = k
    BY <1>0, <2>2 DEF GuardInv
  <2>4. \A c : from \in SlotsFor(c) <=> to \in SlotsFor(c)
    BY <2>1 DEF SlotsFor, SameType
  <2>5. \A h \in Slots : guard'[h] \in Clients =>
          guard'[h] \in GuardUsers /\ pc'[guard'[h]] = "acquired" /\ h \in SlotsFor(guard'[h])
    BY <1>0, <2>1, <2>2, <2>4 DEF GuardInv
  <2>6. ASSUME NEW c \in GuardUsers, pc'[c] = "acquired" PROVE \E h \in Slots : guard'[h] = c
    <3>1. PICK h \in Slots : guard[h] = c
      BY <2>1, <2>6 DEF GuardInv
    <3> QED BY <2>2, <3>1
  <2> QED BY <2>2, <2>3, <2>5, <2>6 DEF GuardInv, SlotsFor
<1>4. ASSUME NEW g \in Slots, GuardUnlock(g) PROVE GuardInv'
  <2>1. PICK c \in Clients : c = guard[g] /\ (Unlock(c) \/ UnlockShared(c))
    BY <1>4 DEF GuardUnlock
  <2>2. pc'[c] = "idle" /\ \A d \in GuardUsers \ {c} : SameHold(d)
    BY <1>0, <2>1, UnlockingFrees, StepHolds DEF Call
  <2>3. /\ guard'[g] = Dead /\ \A h \in Slots \ {g} : guard'[h] = guard[h]
        /\ guard' \in [Slots -> Clients \cup {Dead, Empty}]
    BY <1>0, <1>4 DEF GuardUnlock
  <2>4. \A h \in Slots \ {g} : guard[h] # c
    BY <2>1 DEF GuardInv
  <2>5. \A h, k \in Slots : guard'[h] \in Clients /\ guard'[h] = guard'[k] => h = k
    BY <1>0, <2>3 DEF GuardInv
  <2>6. \A h \in Slots : guard'[h] \in Clients =>
          guard'[h] \in GuardUsers /\ pc'[guard'[h]] = "acquired" /\ h \in SlotsFor(guard'[h])
    BY <1>0, <2>2, <2>3, <2>4 DEF GuardInv, SameHold
  <2>7. ASSUME NEW d \in GuardUsers, pc'[d] = "acquired" PROVE \E h \in Slots : guard'[h] = d
    <3>1. d # c
      BY <2>2, <2>7
    <3>2. PICK h \in Slots : guard[h] = d
      BY <2>2, <2>7, <3>1 DEF GuardInv, SameHold
    <3> QED BY <2>1, <2>3, <3>1, <3>2
  <2> QED BY <2>3, <2>5, <2>6, <2>7 DEF GuardInv, SlotsFor
<1>5. ASSUME NEW g \in Slots, GuardDestroyEmpty(g) PROVE GuardInv'
  <2>1. /\ guard[g] = Empty /\ pc' = pc /\ guard' = [guard EXCEPT ![g] = Dead]
    BY <1>5 DEF GuardDestroyEmpty, vars
  <2>2. /\ guard'[g] = Dead /\ \A h \in Slots \ {g} : guard'[h] = guard[h]
        /\ guard' \in [Slots -> Clients \cup {Dead, Empty}]
    BY <1>0, <2>1
  <2>3. \A h \in Slots, c \in Clients : guard'[h] = c <=> guard[h] = c
    BY <1>0, <2>1, <2>2
  <2>4. \A h \in Slots : guard'[h] \in Clients <=> guard[h] \in Clients
    BY <2>3
  <2> QED BY <1>0, <2>1, <2>2, <2>3, <2>4 DEF GuardInv, SlotsFor
<1>6. CASE Unguarded
  <2>1. \A c \in GuardUsers : SameHold(c)
    <3>1. ASSUME NEW c \in GuardUsers PROVE SameHold(c)
      <4>1. ASSUME NEW d \in GuardUsers, Cancel(d) PROVE SameHold(c)
        BY <1>0, <4>1, CallHolds DEF Cancel, IInv, TypeInv
      <4> QED BY <1>0, <1>6, <4>1, StepHolds, EndHolds DEF Unguarded
    <3> QED BY <3>1
  <2> QED BY <1>6, <2>1, GuardsStay DEF Unguarded
<1>7. CASE UNCHANGED lvars
  BY <1>7, GuardsStay DEF lvars, SameHold
<1> QED
  BY <1>1, <1>2, <1>3, <1>4, <1>5, <1>6, <1>7 DEF LNext

(* Every lock taken through a guard will be unlocked once: it is in one    *)
(* guard object, no guard has a lock that was given back, and the guard    *)
(* unlocks the mutex in the way it is locked, unless a reader was given    *)
(* the exclusive lock; for any number of guard objects.                    *)
THEOREM GuardsUnlockOnce ==
  ASSUME NoShutdownRace, IsFiniteSet(Clients)
  PROVE  LSpec => []GuardsOwnTheLocks
<1>1. LInit => GuardInv
  BY LockGuardAssumption DEF LInit, Init, OpInit, GuardInv
<1>2. IInv /\ GuardInv => GuardsOwnTheLocks
  <2> SUFFICES ASSUME IInv, GuardInv PROVE GuardsOwnTheLocks
    OBVIOUS
  <2>0. GuardUsers \subseteq Clients
    BY LockGuardAssumption
  <2>1. ASSUME NEW c \in GuardUsers
        PROVE  pc[c] = "acquired" <=> Cardinality({g \in Slots : guard[g] = c}) = 1
    <3> DEFINE G == {g \in Slots : guard[g] = c}
    <3>1. CASE pc[c] = "acquired"
      <4>1. PICK g \in Slots : guard[g] = c
        BY <3>1 DEF GuardInv
      <4>2. G = {g}
        BY <2>0, <4>1 DEF GuardInv
      <4>3. Cardinality(G) = 1
        BY <4>2, FS_Singleton
      <4> QED BY <3>1, <4>3
    <3>2. CASE pc[c] # "acquired"
      <4>1. G = {}
        BY <2>0, <3>2 DEF GuardInv
      <4>2. Cardinality(G) = 0
        BY <4>1, FS_EmptySet
      <4> QED BY <3>2, <4>2
    <3> QED BY <3>1, <3>2
  <2>2. ASSUME NEW g \in Slots, guard[g] \in Clients, ~ misgranted
        PROVE  g \in SharedSlots <=> ~ locked_
    <3>1. guard[g] \in GrantedSet /\ (g \in SharedSlots <=> guard[g] \in Readers)
      BY <2>2 DEF GuardInv, SlotsFor, GrantedSet, Granted
    <3>2. IF locked_ THEN guard[g] \notin Readers ELSE guard[g] \in Readers
      BY <2>2, <3>1 DEF IInv, OwnerInv, Writers
    <3> QED BY <3>1, <3>2 DEF IInv, TypeInv
  <2> QED BY <2>1, <2>2 DEF GuardsOwnTheLocks, GuardInv
<1> QED
  BY <1>1, <1>2, Invariance, GuardStep, PTL DEF LSpec
=============================================================================
