---------------------------- MODULE MutexProofs -----------------------------
(***************************************************************************)
(* Proofs about the mutex and guarded operations on it, for any number of  *)
(* strands and threads.                                                    *)
(***************************************************************************)
EXTENDS GuardedMutex, WaitOpsProofs

(* The inductive invariant: the linked operations are those in waiters_,   *)
(* each once, and nobody waits for a free mutex.                           *)
QueueInv ==
  /\ IsInjective(waiters_)
  /\ LinkedInv(Range(waiters_))
  /\ waiters_ # << >> => locked_

(* Ownership.  MutualExclusion alone is not inductive: that a free mutex   *)
(* has no owner is what makes try_lock safe.                               *)
OwnerInv ==
  /\ \A c, d \in GrantedSet : c = d
  /\ GrantedSet # {} => locked_
  /\ life # "down" /\ locked_ => GrantedSet # {}

IInv == TypeOK /\ QueueInv /\ OwnerInv /\ RaceInv

-----------------------------------------------------------------------------
(* Type correctness, which needs no other invariant.                       *)
LEMMA TypeStep == TypeOK /\ [Next]_vars => TypeOK'
<1> SUFFICES ASSUME TypeOK, [Next]_vars PROVE TypeOK'
  OBVIOUS
<1> USE DEF TypeOK
<1>0. /\ {"idle", "acquired", "posted"} \subseteq Pcs
      /\ {"ok", "in_progress", "operation_aborted"} \subseteq Results
      /\ mtx \in Clients \cup {Free}
  BY DEF Pcs, Results, OpTypeOK
<1>1. ASSUME NEW c \in Clients, AsyncLock(c) PROVE TypeOK'
  <2>0. Append(waiters_, c) \in Seq(Clients)
    OBVIOUS
  <2>1. waiters_' \in Seq(Clients) /\ locked_' \in BOOLEAN
    BY <1>1, <2>0 DEF AsyncLock
  <2>2. OpTypeOK'
    BY <1>1, DispatchType, StartWaitingType DEF AsyncLock
  <2> QED BY <2>1, <2>2
<1>2. ASSUME NEW c \in Clients, TryLock(c) PROVE TypeOK'
  <2>1. OpTypeOK'
    BY <1>0, <1>2, FinishType DEF TryLock
  <2> QED BY <1>2, <2>1 DEF TryLock
<1>3. ASSUME NEW c \in Clients, Lock(c) PROVE TypeOK'
  <2>0. Append(waiters_, c) \in Seq(Clients)
    OBVIOUS
  <2>1. waiters_' \in Seq(Clients) /\ locked_' \in BOOLEAN
    BY <1>3, <2>0 DEF Lock
  <2>2. OpTypeOK'
    BY <1>0, <1>3, FinishType, StartWaitingType DEF Lock
  <2> QED BY <2>1, <2>2
<1>4. ASSUME NEW c \in Clients, LockSingleThreaded(c) PROVE TypeOK'
  <2>1. OpTypeOK'
    BY <1>0, <1>4, FinishType DEF LockSingleThreaded
  <2> QED BY <1>4, <2>1 DEF LockSingleThreaded
<1>5. ASSUME NEW c \in Clients, Unlock(c) PROVE TypeOK'
  <2>0. waiters_ # << >> => Tail(waiters_) \in Seq(Clients)
    OBVIOUS
  <2>1. waiters_' \in Seq(Clients) /\ locked_' \in BOOLEAN
    BY <1>5, <2>0 DEF Unlock
  <2>2. OpTypeOK'
    BY <1>0, <1>5, CompleteAndGoType DEF Unlock
  <2> QED BY <2>1, <2>2
<1>6. ASSUME NEW c \in Clients, Cancel(c) PROVE TypeOK'
  <2>1. OpTypeOK'
    BY <1>0, <1>6, CompleteAndGoType DEF Cancel
  <2>2. waiters_' \in Seq(Clients)
    BY <1>6, LeaveQueue DEF Cancel
  <2> QED BY <1>6, <2>1, <2>2 DEF Cancel
<1>7. ASSUME NEW c \in Clients, OpStep(c), UNCHANGED <<locked_, waiters_>> PROVE TypeOK'
  BY <1>7, OpStepType
<1>8. CASE ShutdownStep /\ UNCHANGED <<locked_, waiters_>>
  BY <1>8, ShutdownStepType
<1>9. CASE Shutdown
  BY <1>9, ShutdownTakeType DEF Shutdown
<1>10. CASE Destroy
  BY <1>10, DestroyListsType DEF Destroy
<1>11. CASE UNCHANGED vars
  BY <1>11 DEF vars, OpTypeOK
<1> QED
  BY <1>1, <1>2, <1>3, <1>4, <1>5, <1>6, <1>7, <1>8, <1>9, <1>10, <1>11 DEF Next, Call

(* Every variable of the mutex keeps its type, whatever clients, modes and *)
(* ways to end there are.                                                  *)
THEOREM TypeCorrect == Spec => []TypeOK
<1>1. Init => TypeOK
  BY OpInitType, EmptyQueue DEF Init, TypeOK
<1> QED
  BY <1>1, TypeStep, PTL DEF Spec

-----------------------------------------------------------------------------
(* What a step does to the lock and to the queue.                          *)

(* The lock stays where it is; at most, somebody joins or leaves the       *)
(* queue.                                                                  *)
LockStays ==
  /\ UNCHANGED locked_ /\ GrantedSet' = GrantedSet
  /\ \/ UNCHANGED waiters_
     \/ \E c \in Clients \ (GrantedSet \cup Range(waiters_)) :
          locked_ /\ waiters_' = Append(waiters_, c)
     \/ \E i \in DOMAIN waiters_ : waiters_' = RemoveAt(waiters_, i)
     \/ waiters_' = << >>

(* c takes the free lock.                                                  *)
LockTaken(c) ==
  /\ ~ locked_ /\ locked_' /\ waiters_ = << >>
  /\ GrantedSet' = GrantedSet \cup {c}
  /\ UNCHANGED waiters_

(* c gives the lock up or hands it over.                                   *)
LockReleased(c) ==
  /\ c \in GrantedSet
  /\ \/ /\ waiters_ = << >> /\ UNCHANGED waiters_
        /\ ~ locked_' /\ GrantedSet' = GrantedSet \ {c}
     \/ /\ waiters_ # << >> /\ waiters_' = Tail(waiters_)
        /\ UNCHANGED locked_
        /\ GrantedSet' = (GrantedSet \ {c}) \cup {Head(waiters_)}

(* The lock of c is destroyed with its handler.                            *)
LockLost(c) ==
  /\ c \in GrantedSet /\ GrantedSet' = GrantedSet \ {c}
  /\ life = "down"
  /\ UNCHANGED <<locked_, waiters_>>

Effect ==
  /\ life = "down" => life' = "down"
  /\ \/ LockStays
     \/ \E c \in Clients : LockTaken(c) \/ LockReleased(c) \/ LockLost(c)

-----------------------------------------------------------------------------
(* The inductive step, one action at a time.                               *)
LEMMA TakeStep ==
  ASSUME IInv, NEW c \in Clients, pc[c] = "idle", ~ locked_, locked_' = TRUE,
         DispatchInSection(c) \/ (Finish(c, "ok", "acquired") /\ UNCHANGED mtx),
         UNCHANGED <<waiters_, dying, life, spurious, mt>>
  PROVE  QueueInv' /\ RaceInv' /\ Effect
<1>1. PICK Q \in SUBSET Clients : Q = Range(waiters_)
  BY QueueElements DEF IInv, TypeOK
<1>2. OpInv(Q)
  BY <1>1 DEF IInv, QueueInv, OpInv, TypeOK
<1>3. waiters_ = << >>
  BY DEF IInv, QueueInv
<1>4. OpInv(Q)' /\ GrantedSet' = GrantedSet \cup {c}
  BY <1>2, GrantStep
<1>5. Range(waiters_)' = Q
  BY <1>1
<1>6. LinkedInv(Range(waiters_))' /\ RaceInv'
  BY <1>4, <1>5 DEF OpInv, LinkedInv
<1>7. QueueInv'
  BY <1>3, <1>6 DEF QueueInv, IInv
<1> QED
  BY <1>3, <1>4, <1>6, <1>7 DEF Effect, LockTaken

LEMMA WaitStep ==
  ASSUME IInv, NEW c \in Clients, pc[c] = "idle", locked_, StartWaiting(c),
         waiters_' = Append(waiters_, c),
         UNCHANGED <<locked_, mtx, dying, life, spurious, mt>>
  PROVE  QueueInv' /\ RaceInv' /\ Effect
<1>1. PICK Q \in SUBSET Clients : Q = Range(waiters_)
  BY QueueElements DEF IInv, TypeOK
<1>2. OpInv(Q)
  BY <1>1 DEF IInv, QueueInv, OpInv, TypeOK
<1>3. c \notin Q /\ OpInv(Q \cup {c})' /\ GrantedSet' = GrantedSet
  BY <1>2, JoinStep
<1>4. c \notin GrantedSet
  BY <1>2, GrantedFacts DEF OpInv
<1>5. Range(waiters_)' = Q \cup {c} /\ IsInjective(waiters_)'
  BY <1>1, <1>3, JoinQueue DEF IInv, TypeOK, QueueInv
<1>6. LinkedInv(Range(waiters_))' /\ RaceInv'
  BY <1>3, <1>5 DEF OpInv, LinkedInv
<1>7. QueueInv'
  BY <1>5, <1>6 DEF QueueInv
<1> QED
  BY <1>1, <1>3, <1>4, <1>6, <1>7 DEF Effect, LockStays

(* unlock(): the lock goes to the front of the queue, if there is one.     *)
LEMMA UnlockStep ==
  ASSUME IInv, NEW c \in Clients, Unlock(c)
  PROVE  QueueInv' /\ RaceInv' /\ Effect
<1>1. PICK Q \in SUBSET Clients : Q = Range(waiters_)
  BY QueueElements DEF IInv, TypeOK
<1>2. OpInv(Q) /\ pc[c] = "acquired"
  BY <1>1 DEF IInv, QueueInv, OpInv, TypeOK, Unlock
<1>3. c \in GrantedSet
  BY <1>2 DEF GrantedSet, Granted
<1>4. CASE waiters_ = << >>
  <2>1. CompleteAndGo({}, "ok", c, "idle") /\ {} \in SUBSET Q /\ Q = {}
    BY <1>1, <1>4, EmptyQueue DEF Unlock
  <2>2. OpInv(Q \ {})' /\ GrantedSet' = (GrantedSet \ {c}) \cup {}
    BY <1>2, <2>1, GrantOpsStep DEF Unlock
  <2>3. waiters_' = waiters_ /\ locked_' = FALSE /\ Range(waiters_)' = Q /\ UNCHANGED life
    BY <1>1, <1>4 DEF Unlock
  <2>4. LinkedInv(Range(waiters_))' /\ RaceInv'
    BY <2>1, <2>2, <2>3 DEF OpInv, LinkedInv
  <2>5. QueueInv'
    BY <1>4, <2>3, <2>4 DEF QueueInv, IInv
  <2> QED
    BY <1>3, <1>4, <2>2, <2>3, <2>4, <2>5 DEF Effect, LockReleased
<1>5. CASE waiters_ # << >>
  <2>1. PICK h \in Q : h = Head(waiters_)
    BY <1>1, <1>5, LeaveFront DEF IInv, TypeOK
  <2>2. CompleteAndGo({h}, "ok", c, "idle") /\ {h} \in SUBSET Q
    BY <1>5, <2>1 DEF Unlock
  <2>3. OpInv(Q \ {h})' /\ GrantedSet' = (GrantedSet \ {c}) \cup {h}
    BY <1>2, <2>2, GrantOpsStep DEF Unlock
  <2>4. waiters_' = Tail(waiters_) /\ locked_' = locked_ /\ locked_ /\ UNCHANGED life
    BY <1>5 DEF Unlock, IInv, QueueInv
  <2>5. Range(waiters_)' = Q \ {h} /\ IsInjective(waiters_)'
    BY <1>1, <1>5, <2>1, <2>4, LeaveFront DEF IInv, TypeOK, QueueInv
  <2>6. LinkedInv(Range(waiters_))' /\ RaceInv'
    BY <2>3, <2>5 DEF OpInv, LinkedInv
  <2>7. QueueInv'
    BY <2>4, <2>5, <2>6 DEF QueueInv
  <2> QED
    BY <1>3, <1>5, <2>1, <2>3, <2>4, <2>6, <2>7 DEF Effect, LockReleased
<1> QED BY <1>4, <1>5

(* Every step keeps the queue in order, and its effect on the lock is one  *)
(* of the above.                                                           *)
LEMMA QueueStep ==
  ASSUME NoShutdownRace, IInv, Next
  PROVE  QueueInv' /\ RaceInv' /\ Effect
<1>2. PICK Q \in SUBSET Clients : Q = Range(waiters_)
  BY QueueElements DEF IInv, TypeOK
<1>3. OpInv(Q)
  BY <1>2 DEF IInv, QueueInv, OpInv, TypeOK
<1>4. ASSUME OpInv(Q)', UNCHANGED <<waiters_, locked_>> PROVE QueueInv' /\ RaceInv'
  <2>1. Range(waiters_)' = Q
    BY <1>2, <1>4
  <2> QED BY <1>4, <2>1 DEF OpInv, LinkedInv, QueueInv, IInv
<1>5. ASSUME OpInv({})', waiters_' = << >> PROVE QueueInv' /\ RaceInv'
  <2>1. Range(waiters_)' = {} /\ IsInjective(waiters_)'
    BY <1>5, EmptyQueue
  <2> QED BY <1>5, <2>1 DEF OpInv, LinkedInv, QueueInv
<1>6. ASSUME NEW c \in Clients, AsyncLock(c) PROVE QueueInv' /\ RaceInv' /\ Effect
  BY <1>6, TakeStep, WaitStep DEF AsyncLock
<1>7. ASSUME NEW c \in Clients, TryLock(c) PROVE QueueInv' /\ RaceInv' /\ Effect
  BY <1>7, TakeStep DEF TryLock
<1>8. ASSUME NEW c \in Clients, Lock(c) PROVE QueueInv' /\ RaceInv' /\ Effect
  BY <1>8, TakeStep, WaitStep DEF Lock
<1>9. ASSUME NEW c \in Clients, LockSingleThreaded(c) PROVE QueueInv' /\ RaceInv' /\ Effect
  <2>1. CASE ~ locked_
    BY <1>9, <2>1, TakeStep DEF LockSingleThreaded
  <2>2. CASE locked_
    <3>1. OpInv(Q)' /\ GrantedSet' = GrantedSet
      BY <1>3, <1>9, <2>2, RefuseStep DEF LockSingleThreaded
    <3>2. locked_' = locked_
      BY <1>9, <2>2 DEF LockSingleThreaded, IInv, TypeOK
    <3> QED
      BY <1>4, <1>9, <3>1, <3>2 DEF LockSingleThreaded, Effect, LockStays
  <2> QED BY <2>1, <2>2
<1>10. ASSUME NEW c \in Clients, Unlock(c) PROVE QueueInv' /\ RaceInv' /\ Effect
  BY <1>10, UnlockStep
<1>11. ASSUME NEW c \in Clients, Cancel(c) PROVE QueueInv' /\ RaceInv' /\ Effect
  <2>1. PICK k \in DOMAIN waiters_ : waiters_[k] = c /\ waiters_' = RemoveAt(waiters_, k)
    BY <1>11 DEF Cancel
  <2>2. c \in Q /\ waiters_ # << >>
    BY <1>2, <2>1 DEF Range
  <2>3. OpInv(Q \ {c})' /\ GrantedSet' = GrantedSet
    BY <1>3, <1>11, <2>2, CancelOpStep DEF Cancel
  <2>4. Range(waiters_)' = Q \ {c} /\ IsInjective(waiters_)'
    BY <1>2, <2>1, LeaveQueue DEF IInv, TypeOK, QueueInv
  <2>5. QueueInv' /\ RaceInv'
    BY <1>11, <2>2, <2>3, <2>4 DEF OpInv, LinkedInv, QueueInv, IInv, Cancel
  <2> QED BY <1>11, <2>1, <2>3, <2>5 DEF Cancel, Effect, LockStays
<1>12. ASSUME NEW c \in Clients, OpStep(c), UNCHANGED <<locked_, waiters_>>
       PROVE  QueueInv' /\ RaceInv' /\ Effect
  <2>1. OpInv(Q)'
    BY <1>3, <1>12, OpStepInv
  <2>2. UNCHANGED life
    BY <1>12 DEF OpStep, InlineReturn, InlineReenter, RunHandler, DestroyHandler,
                 SpuriousWakeup, Recheck, SleepAgain
  <2>3. Effect
    BY <1>12, <2>2, OpStepGrants DEF IInv, TypeOK, Effect, LockStays, LockLost
  <2> QED BY <1>4, <1>12, <2>1, <2>3
<1>13. CASE ShutdownStep /\ UNCHANGED <<locked_, waiters_>>
  <2>1. OpInv(Q)' /\ GrantedSet' = GrantedSet
    BY <1>3, <1>13, ShutdownStepInv
  <2>2. UNCHANGED life
    BY <1>13 DEF ShutdownStep, ShutdownAsync, ShutdownDone, ShutdownError, ShutdownNotify
  <2> QED BY <1>4, <1>13, <2>1, <2>2 DEF Effect, LockStays
<1>14. CASE Shutdown
  <2>1. PICK w \in Seq(Clients) : w = waiters_
    BY DEF IInv, TypeOK
  <2>2. OpInv({})' /\ GrantedSet' = GrantedSet
    BY <1>2, <1>3, <1>14, <2>1, ShutdownTakeInv DEF Shutdown, IInv, QueueInv
  <2> QED BY <1>5, <1>14, <2>2 DEF Shutdown, ShutdownTake, Effect, LockStays
<1>15. CASE Destroy
  <2>1. OpInv({})' /\ GrantedSet' = GrantedSet
    BY <1>2, <1>3, <1>15, DestroyListsInv DEF Destroy
  <2> QED BY <1>5, <1>15, <2>1 DEF Destroy, DestroyLists, Effect, LockStays
<1> QED
  BY <1>6, <1>7, <1>8, <1>9, <1>10, <1>11, <1>12, <1>13, <1>14, <1>15 DEF Next, Call

(* The effects keep ownership.                                             *)
LEMMA OwnerStep ==
  ASSUME IInv, Effect
  PROVE  OwnerInv'
<1> USE DEF IInv, OwnerInv
<1>1. CASE LockStays
  BY <1>1 DEF LockStays, Effect
<1>2. ASSUME NEW c \in Clients, LockTaken(c) PROVE OwnerInv'
  BY <1>2 DEF LockTaken
<1>3. ASSUME NEW c \in Clients, LockReleased(c) PROVE OwnerInv'
  <2>1. GrantedSet = {c}
    BY <1>3 DEF LockReleased
  <2>2. CASE waiters_ = << >>
    <3>1. GrantedSet' = {}
      BY <1>3, <2>1, <2>2 DEF LockReleased
    <3>2. ~ locked_'
      BY <1>3, <2>2, Zenon DEF LockReleased
    <3> QED BY <3>1, <3>2
  <2>3. CASE waiters_ # << >>
    <3>1. GrantedSet' = {Head(waiters_)}
      BY <1>3, <2>1, <2>3 DEF LockReleased
    <3>2. locked_
      BY <2>3 DEF QueueInv
    <3>3. locked_'
      BY <1>3, <2>3, <3>2, Zenon DEF LockReleased
    <3> QED BY <3>1, <3>3
  <2> QED BY <2>2, <2>3
<1>4. ASSUME NEW c \in Clients, LockLost(c) PROVE OwnerInv'
  BY <1>4 DEF LockLost, Effect
<1> QED BY <1>1, <1>2, <1>3, <1>4 DEF Effect

(* Every step preserves the inductive invariant.                           *)
LEMMA InvStep ==
  ASSUME NoShutdownRace, IInv, Next
  PROVE  IInv' /\ Effect
BY TypeStep, QueueStep, OwnerStep DEF IInv

(* A new mutex is free and nobody waits.                                   *)
LEMMA InvInit == Init => IInv
<1> SUFFICES ASSUME Init PROVE IInv
  OBVIOUS
<1>1. TypeOK
  BY OpInitType, EmptyQueue DEF Init, TypeOK
<1>2. Range(waiters_) = {} /\ IsInjective(waiters_) /\ OpInv({}) /\ GrantedSet = {}
  BY EmptyQueue, OpInitInv DEF Init
<1> QED BY <1>1, <1>2 DEF IInv, QueueInv, OwnerInv, OpInv, Init

(* The inductive invariant holds in every state of every behaviour.        *)
LEMMA Invariance ==
  ASSUME NoShutdownRace
  PROVE  Spec => []IInv
<1>1. IInv /\ [Next]_vars => IInv'
  <2>1. IInv /\ UNCHANGED vars => IInv'
    BY DEF vars, IInv, TypeOK, OpTypeOK, QueueInv, OwnerInv, GrantedSet, Granted,
           LinkedInv, RaceInv, Pending, Blocked
  <2> QED BY <2>1, InvStep
<1> QED
  BY <1>1, InvInit, PTL DEF Spec

-----------------------------------------------------------------------------
(* Mutual exclusion, for any number of clients, with cancellation,         *)
(* shutdown, destruction, inline dispatch and, unless the context is       *)
(* destroyed meanwhile, spurious wakeups.                                  *)
THEOREM MutexExcludes ==
  ASSUME NoShutdownRace
  PROVE  Spec => []MutualExclusion
<1>1. IInv => MutualExclusion
  BY DEF IInv, OwnerInv, GrantedSet, MutualExclusion
<1> QED
  BY <1>1, Invariance, PTL

(* Ownership is never lost while the context lives.                        *)
THEOREM MutexKeepsOwner ==
  ASSUME NoShutdownRace
  PROVE  Spec => []LockedHasOwner
<1>1. IInv => LockedHasOwner
  BY DEF IInv, OwnerInv, GrantedSet, LockedHasOwner, TypeOK
<1> QED
  BY <1>1, Invariance, PTL

(* No waiter is lost, granted twice or left behind on a free mutex.        *)
THEOREM MutexQueuesWaiters ==
  ASSUME NoShutdownRace
  PROVE  Spec => []WaitersAreQueued
<1>1. IInv => WaitersAreQueued
  BY DEF IInv, QueueInv, LinkedInv, WaitersAreQueued
<1> QED
  BY <1>1, Invariance, PTL

(* The operations a shutdown() has not come to yet.  NoShutdownRace is not *)
(* assumed, so what LinkedInv says of the queue and of dying does not hold *)
(* here: the first of dying may have returned and be in waiters_ again.    *)
(* The others wait, and nobody but shutdown() can end that, because what   *)
(* it took was taken out of waiters_.                                      *)
AliveInv ==
  life = "alive" =>
    /\ dying = << >>
    /\ IsInjective(waiters_)
    /\ \A c \in Range(waiters_) : Pending(c)

AheadInv ==
  /\ IsInjective(dying)
  /\ \A i \in 2 .. Len(dying) : Pending(dying[i]) /\ dying[i] \notin Range(waiters_)

(* What clients do on their own does not end an operation that nobody has  *)
(* completed.                                                              *)
LEMMA StillPending ==
  ASSUME NEW c \in Clients, NEW d \in Clients, Pending(d), OpStep(c), TypeOK
  PROVE  Pending(d)'
BY DEF Pending, Blocked, TypeOK, OpTypeOK, OpStep, InlineReturn, InlineReenter, RunHandler,
       DestroyHandler, SpuriousWakeup, Recheck, SleepAgain

(* The tail of a queue has no other elements.                              *)
LEMMA TailElements ==
  ASSUME NEW S, NEW s \in Seq(S), s # << >>
  PROVE  Range(Tail(s)) \subseteq Range(s)
<1>1. /\ DOMAIN s = 1 .. Len(s) /\ DOMAIN Tail(s) = 1 .. Len(s) - 1 /\ Len(s) \in Nat
      /\ \A i \in 1 .. Len(s) - 1 : i + 1 \in 1 .. Len(s) /\ Tail(s)[i] = s[i + 1]
  OBVIOUS
<1> QED BY <1>1 DEF Range

(* While the context lives everyone in the queue waits, once.              *)
LEMMA AliveStep == TypeOK /\ AliveInv /\ Next => AliveInv'
<1> SUFFICES ASSUME TypeOK, AliveInv, Next, life' = "alive"
             PROVE  /\ dying' = << >> /\ IsInjective(waiters_)'
                    /\ \A c \in Range(waiters_)' : Pending(c)'
  BY DEF AliveInv
<1> DEFINE Goal == /\ dying' = << >> /\ IsInjective(waiters_)'
                   /\ \A c \in Range(waiters_)' : Pending(c)'
<1>0. /\ pc \in [Clients -> Pcs] /\ ec \in [Clients -> Results] /\ waiters_ \in Seq(Clients)
      /\ Range(waiters_) \subseteq Clients
  BY QueueElements DEF TypeOK, OpTypeOK
<1>1. life = "alive" => /\ dying = << >> /\ IsInjective(waiters_)
                        /\ \A c \in Range(waiters_) : Pending(c)
  BY DEF AliveInv
<1>2. ASSUME NEW c \in Clients, AsyncLock(c) \/ Lock(c) PROVE Goal
  <2>1. /\ life = "alive" /\ pc[c] = "idle" /\ UNCHANGED dying
        /\ \A d \in Clients \ {c} : pc'[d] = pc[d] /\ ec'[d] = ec[d]
    BY <1>0, <1>2 DEF AsyncLock, Lock, DispatchInSection, StartWaiting, Finish
  <2>2. c \notin Range(waiters_)
    BY <1>1, <2>1 DEF Pending, Blocked
  <2>3. CASE UNCHANGED waiters_
    BY <1>0, <1>1, <2>1, <2>2, <2>3 DEF Pending, Blocked
  <2>4. CASE StartWaiting(c) /\ waiters_' = Append(waiters_, c)
    <3>1. IsInjective(waiters_)' /\ Range(waiters_)' = Range(waiters_) \cup {c}
      BY <1>0, <1>1, <2>1, <2>2, <2>4, JoinQueue
    <3>2. Pending(c)'
      BY <1>0, <2>4 DEF StartWaiting, Pending, Blocked
    <3> QED BY <1>0, <1>1, <2>1, <2>2, <3>1, <3>2 DEF Pending, Blocked
  <2> QED BY <1>2, <2>3, <2>4 DEF AsyncLock, Lock
<1>3. ASSUME NEW c \in Clients, TryLock(c) \/ LockSingleThreaded(c) PROVE Goal
  <2>1. /\ life = "alive" /\ pc[c] = "idle" /\ UNCHANGED <<dying, waiters_>>
        /\ \A d \in Clients \ {c} : pc'[d] = pc[d] /\ ec'[d] = ec[d]
    BY <1>0, <1>3 DEF TryLock, LockSingleThreaded, Finish
  <2> QED BY <1>0, <1>1, <2>1 DEF Pending, Blocked
<1>4. ASSUME NEW c \in Clients, Unlock(c) PROVE Goal
  <2>1. life = "alive" /\ pc[c] = "acquired" /\ UNCHANGED dying
    BY <1>4 DEF Unlock
  <2>2. CASE waiters_ = << >> /\ UNCHANGED waiters_
    <3>1. Range(waiters_)' = {}
      BY <2>2, EmptyQueue
    <3> QED BY <1>1, <2>1, <2>2, <3>1
  <2>3. CASE /\ waiters_ # << >> /\ waiters_' = Tail(waiters_)
             /\ CompleteAndGo({Head(waiters_)}, "ok", c, "idle")
    <3>1. IsInjective(waiters_)' /\ Range(waiters_)' = Range(waiters_) \ {Head(waiters_)}
      BY <1>0, <1>1, <2>1, <2>3, LeaveFront
    <3>2. \A d \in Range(waiters_)' : pc'[d] = pc[d] /\ ec'[d] = ec[d]
      BY <1>0, <1>1, <2>1, <2>3, <3>1 DEF CompleteAndGo, Pending, Blocked
    <3> QED BY <1>1, <2>1, <3>1, <3>2 DEF Pending, Blocked
  <2> QED BY <1>4, <2>2, <2>3 DEF Unlock
<1>5. ASSUME NEW c \in Clients, Cancel(c) PROVE Goal
  <2>1. PICK i \in DOMAIN waiters_ : waiters_[i] = c /\ waiters_' = RemoveAt(waiters_, i)
    BY <1>5 DEF Cancel
  <2>2. life = "alive" /\ UNCHANGED dying
    BY <1>5 DEF Cancel
  <2>3. IsInjective(waiters_)' /\ Range(waiters_)' = Range(waiters_) \ {c}
    BY <1>0, <1>1, <2>1, <2>2, LeaveQueue
  <2>4. \A d \in Range(waiters_)' : pc'[d] = pc[d] /\ ec'[d] = ec[d]
    BY <1>0, <1>5, <2>3 DEF Cancel, Complete
  <2> QED BY <1>1, <2>2, <2>3, <2>4 DEF Pending, Blocked
<1>6. ASSUME NEW c \in Clients, OpStep(c), UNCHANGED <<locked_, waiters_>> PROVE Goal
  <2>1. UNCHANGED <<life, dying>>
    BY <1>6 DEF OpStep, InlineReturn, InlineReenter, RunHandler, DestroyHandler,
                SpuriousWakeup, Recheck, SleepAgain
  <2>2. \A d \in Range(waiters_) : Pending(d)'
    BY <1>0, <1>1, <1>6, <2>1, StillPending
  <2> QED BY <1>1, <1>6, <2>1, <2>2
<1>7. ~ ShutdownStep /\ ~ Shutdown /\ ~ Destroy
  BY <1>1 DEF ShutdownStep, ShutdownAsync, ShutdownDone, ShutdownError, ShutdownNotify,
              Shutdown, ShutdownTake, Destroy, DestroyLists
<1> QED
  BY <1>2, <1>3, <1>4, <1>5, <1>6, <1>7 DEF Next, Call

(* Nothing but shutdown() touches the operations it has not come to.       *)
LEMMA AheadStep == TypeOK /\ AliveInv /\ AheadInv /\ Next => AheadInv'
<1> SUFFICES ASSUME TypeOK, AliveInv, AheadInv, Next PROVE AheadInv'
  OBVIOUS
<1>0. /\ pc \in [Clients -> Pcs] /\ ec \in [Clients -> Results]
      /\ waiters_ \in Seq(Clients) /\ Range(waiters_) \subseteq Clients
      /\ dying \in Seq(Clients) /\ Len(dying) \in Nat /\ DOMAIN dying = 1 .. Len(dying)
  BY QueueElements DEF TypeOK, OpTypeOK
<1>1. CASE Shutdown
  <2>1. dying' = waiters_ /\ waiters_' = << >> /\ life = "alive" /\ UNCHANGED <<pc, ec>>
    BY <1>1 DEF Shutdown, ShutdownTake
  <2>2. Range(waiters_)' = {}
    BY <2>1, EmptyQueue
  <2>3. \A i \in 2 .. Len(waiters_) : waiters_[i] \in Range(waiters_)
    BY <1>0 DEF Range
  <2> QED BY <2>1, <2>2, <2>3 DEF AliveInv, AheadInv, Pending, Blocked
<1>2. CASE ShutdownStep /\ UNCHANGED <<locked_, waiters_>>
  <2>1. /\ dying # << >> /\ dying' \in {dying, Tail(dying)}
        /\ \A d \in Clients \ {Head(dying)} : pc'[d] = pc[d] /\ ec'[d] = ec[d]
    BY <1>0, <1>2 DEF ShutdownStep, ShutdownAsync, ShutdownDone, ShutdownError, ShutdownNotify, Finish
  <2>2. /\ Head(dying) = dying[1] /\ 1 \in DOMAIN dying
        /\ \A i \in 2 .. Len(dying) : dying[i] \in Clients \ {Head(dying)}
    BY <1>0, <2>1 DEF AheadInv, IsInjective
  <2>3. ASSUME NEW i \in 2 .. Len(dying), NEW d, d = dying[i]
        PROVE  Pending(d)' /\ d \notin Range(waiters_)'
    <3>1. Pending(d) /\ d \notin Range(waiters_)
      BY <2>3 DEF AheadInv
    <3>2. pc'[d] = pc[d] /\ ec'[d] = ec[d]
      BY <2>1, <2>2, <2>3
    <3> QED BY <1>2, <3>1, <3>2 DEF Pending, Blocked
  <2>4. CASE dying' = Tail(dying)
    <3>1. /\ IsInjective(dying)' /\ Len(dying') = Len(dying) - 1
          /\ \A i \in 1 .. Len(dying) - 1 : dying'[i] = dying[i + 1]
      BY <1>0, <2>1, <2>4, LeaveFront DEF AheadInv
    <3>2. ASSUME NEW i \in 2 .. Len(dying')
          PROVE  Pending(dying[i])' /\ dying'[i] \notin Range(waiters_)'
      <4>1. i + 1 \in 2 .. Len(dying) /\ dying'[i] = dying[i + 1]
        BY <1>0, <3>1
      <4>2. \A e : e = dying[i + 1] => (Pending(e)' /\ e \notin Range(waiters_)')
        BY <2>3, <4>1
      <4> QED BY <4>1, <4>2 DEF Pending, Blocked
    <3> QED BY <3>1, <3>2 DEF AheadInv
  <2>5. CASE dying' = dying
    <3>1. ASSUME NEW i \in 2 .. Len(dying)
          PROVE  Pending(dying[i])' /\ dying'[i] \notin Range(waiters_)'
      <4>1. \A e : e = dying[i] => (Pending(e)' /\ e \notin Range(waiters_)')
        BY <2>3
      <4> QED BY <2>5, <4>1 DEF Pending, Blocked
    <3> QED BY <2>5, <3>1 DEF AheadInv
  <2> QED BY <2>1, <2>4, <2>5
<1>3. ASSUME UNCHANGED dying,
             \A d \in Clients : Pending(d) /\ d \notin Range(waiters_) /\ dying # << >>
                               => Pending(d)' /\ d \notin Range(waiters_)'
      PROVE  AheadInv'
  <2>1. ASSUME NEW i \in 2 .. Len(dying)
        PROVE  Pending(dying[i])' /\ dying[i] \notin Range(waiters_)'
    <3>1. dying[i] \in Clients /\ dying # << >>
      BY <1>0
    <3> QED BY <1>3, <3>1 DEF AheadInv
  <2> QED BY <1>3, <2>1 DEF AheadInv, Pending, Blocked
<1>4. ASSUME NEW c \in Clients, AsyncLock(c) \/ Lock(c) \/ TryLock(c) \/ LockSingleThreaded(c)
      PROVE  AheadInv'
  <2>1. /\ pc[c] = "idle" /\ UNCHANGED dying /\ waiters_' \in {waiters_, Append(waiters_, c)}
        /\ \A d \in Clients \ {c} : pc'[d] = pc[d] /\ ec'[d] = ec[d]
    BY <1>0, <1>4 DEF AsyncLock, Lock, TryLock, LockSingleThreaded, DispatchInSection, StartWaiting, Finish
  <2>2. Range(waiters_)' \subseteq Range(waiters_) \cup {c}
    <3>1. Range(Append(waiters_, c)) = Range(waiters_) \cup {c}
      BY <1>0, JoinQueue
    <3> QED BY <2>1, <3>1
  <2> QED BY <1>3, <2>1, <2>2 DEF Pending, Blocked
<1>5. ASSUME NEW c \in Clients, Unlock(c) PROVE AheadInv'
  <2>1. pc[c] = "acquired" /\ UNCHANGED dying
    BY <1>5 DEF Unlock
  <2>2. PICK S \in SUBSET Range(waiters_) :
          CompleteAndGo(S, "ok", c, "idle") /\ Range(waiters_)' \subseteq Range(waiters_)
    <3>1. waiters_ # << >> => /\ Head(waiters_) \in Range(waiters_)
                              /\ Range(Tail(waiters_)) \subseteq Range(waiters_)
      <4> SUFFICES ASSUME waiters_ # << >>
                   PROVE  /\ Head(waiters_) \in Range(waiters_)
                          /\ Range(Tail(waiters_)) \subseteq Range(waiters_)
        OBVIOUS
      <4> QED BY <1>0, LeaveFront, TailElements
    <3>2. CASE waiters_ = << >> /\ CompleteAndGo({}, "ok", c, "idle") /\ UNCHANGED waiters_
      BY <3>2
    <3>3. CASE /\ waiters_ # << >> /\ CompleteAndGo({Head(waiters_)}, "ok", c, "idle")
               /\ waiters_' = Tail(waiters_)
      <4>1. {Head(waiters_)} \in SUBSET Range(waiters_) /\ Range(waiters_)' \subseteq Range(waiters_)
        BY <3>1, <3>3
      <4> QED BY <3>3, <4>1
    <3> QED BY <1>5, <3>2, <3>3 DEF Unlock
  <2>3. \A d \in Clients \ (S \cup {c}) : pc'[d] = pc[d] /\ ec'[d] = ec[d]
    BY <2>2 DEF CompleteAndGo
  <2> QED BY <1>3, <2>1, <2>2, <2>3 DEF Pending, Blocked
<1>6. ASSUME NEW c \in Clients, Cancel(c) PROVE AheadInv'
  BY <1>3, <1>6 DEF Cancel, AliveInv
<1>7. ASSUME NEW c \in Clients, OpStep(c), UNCHANGED <<locked_, waiters_>> PROVE AheadInv'
  <2>1. UNCHANGED dying
    BY <1>7 DEF OpStep, InlineReturn, InlineReenter, RunHandler, DestroyHandler,
                SpuriousWakeup, Recheck, SleepAgain
  <2> QED BY <1>3, <1>7, <2>1, StillPending
<1>8. CASE Destroy
  BY <1>3, <1>8 DEF Destroy, DestroyLists, AliveInv
<1> QED
  BY <1>1, <1>2, <1>4, <1>5, <1>6, <1>7, <1>8 DEF Next, Call

(* shutdown() never comes to an operation whose thread has returned,       *)
(* although it works without mtx_, condition variables wake up spuriously  *)
(* and late calls use the mutex meanwhile.                                 *)
THEOREM MutexShutdownSafe == Spec => []OpsOutliveShutdown
<1>1. Init => AliveInv /\ AheadInv
  <2>1. Range(<< >>) = {} /\ IsInjective(<< >>) /\ Len(<< >>) = 0
    BY EmptyQueue
  <2> QED BY <2>1 DEF Init, OpInit, AliveInv, AheadInv
<1>2. TypeOK /\ AliveInv /\ AheadInv /\ [Next]_vars => (AliveInv /\ AheadInv)'
  <2>1. AliveInv /\ AheadInv /\ UNCHANGED vars => (AliveInv /\ AheadInv)'
    BY DEF vars, AliveInv, AheadInv, Pending, Blocked
  <2> QED BY <2>1, AliveStep, AheadStep
<1>3. AheadInv => OpsOutliveShutdown
  BY DEF AheadInv, OpsOutliveShutdown, Pending
<1> QED
  BY <1>1, <1>2, <1>3, TypeCorrect, PTL DEF Spec

-----------------------------------------------------------------------------
(* A completed operation stays where it is or leaves the queue; it is not  *)
(* the completion itself that lets a blocked thread return.                *)
LEMMA CompletedPcBlocked ==
  ASSUME NEW c \in Clients
  PROVE  CompletedPc(c) = "acquired" => pc[c] = "acquired"
BY DEF CompletedPc

(* The operations that shutdown() is in the middle of: done is set, the    *)
(* error_code is not, and the thread has not returned.  It is one, the     *)
(* first of dying, with or without NoShutdownRace.                         *)
HalfDown(c) == Blocked(c) /\ ec[c] = "unset"

HalfInv == \A c \in Clients : HalfDown(c) => dying # << >> /\ c = Head(dying)

LEMMA HalfStep == TypeOK /\ AliveInv /\ HalfInv /\ Next => HalfInv'
<1> SUFFICES ASSUME TypeOK, AliveInv, HalfInv, Next PROVE HalfInv'
  OBVIOUS
<1>0. /\ pc \in [Clients -> Pcs] /\ ec \in [Clients -> Results]
      /\ waiters_ \in Seq(Clients) /\ dying \in Seq(Clients)
  BY DEF TypeOK, OpTypeOK
<1>1. ASSUME UNCHANGED dying, \A d \in Clients : HalfDown(d)' => HalfDown(d)
      PROVE  HalfInv'
  BY <1>1 DEF HalfInv
<1>2. ASSUME NEW c \in Clients, AsyncLock(c) \/ TryLock(c) \/ Lock(c) \/ LockSingleThreaded(c)
      PROVE  HalfInv'
  <2>1. /\ UNCHANGED dying /\ ec'[c] # "unset"
        /\ \A d \in Clients \ {c} : pc'[d] = pc[d] /\ ec'[d] = ec[d]
    BY <1>0, <1>2 DEF AsyncLock, TryLock, Lock, LockSingleThreaded, DispatchInSection,
                      StartWaiting, Finish
  <2> QED BY <1>1, <2>1 DEF HalfDown, Blocked
<1>3. ASSUME NEW c \in Clients, Unlock(c) PROVE HalfInv'
  <2>1. UNCHANGED dying /\ \E S : CompleteAndGo(S, "ok", c, "idle")
    BY <1>3 DEF Unlock
  <2>2. \A d \in Clients : HalfDown(d)' => HalfDown(d)
    BY <2>1 DEF CompleteAndGo, HalfDown, Blocked
  <2> QED BY <1>1, <2>1, <2>2
<1>4. ASSUME NEW c \in Clients, Cancel(c) PROVE HalfInv'
  <2>1. UNCHANGED dying /\ Complete({c}, "operation_aborted")
    BY <1>4 DEF Cancel
  <2>2. \A d \in Clients : HalfDown(d)' => HalfDown(d)
    BY <2>1 DEF Complete, HalfDown, Blocked
  <2> QED BY <1>1, <2>1, <2>2
<1>5. ASSUME NEW c \in Clients, OpStep(c) PROVE HalfInv'
  <2>1. UNCHANGED <<ec, dying>>
    BY <1>5 DEF OpStep, InlineReturn, InlineReenter, RunHandler, DestroyHandler,
                SpuriousWakeup, Recheck, SleepAgain
  <2>2. \A d \in Clients : Blocked(d)' => Blocked(d)
    BY <1>0, <1>5 DEF Blocked, OpStep, InlineReturn, InlineReenter, RunHandler, DestroyHandler,
                      SpuriousWakeup, Recheck, SleepAgain
  <2> QED BY <1>1, <2>1, <2>2 DEF HalfDown
<1>6. CASE ShutdownStep
  <2>1. /\ dying # << >> /\ Head(dying) \in Clients
        /\ \A d \in Clients \ {Head(dying)} : pc'[d] = pc[d] /\ ec'[d] = ec[d]
    BY <1>0, <1>6 DEF ShutdownStep, ShutdownAsync, ShutdownDone, ShutdownError, ShutdownNotify, Finish
  <2>2. \A d \in Clients \ {Head(dying)} : ~ HalfDown(d)'
    BY <2>1 DEF HalfInv, HalfDown, Blocked
  <2>3. ASSUME NEW h \in Clients, h = Head(dying) PROVE dying' = dying \/ ~ HalfDown(h)'
    <3>1. ASSUME ShutdownAsync PROVE pc'[h] = "gone"
      BY <1>0, <2>1, <2>3, <3>1 DEF ShutdownAsync, Finish
    <3>2. ASSUME ShutdownNotify
          PROVE  ec'[h] = "shut_down" \/ (pc'[h] = pc[h] /\ ~ Blocked(h))
      BY <1>0, <2>1, <2>3, <3>2 DEF ShutdownNotify, CompletedPc, Blocked
    <3>3. UNCHANGED dying \/ ShutdownAsync \/ ShutdownNotify
      BY <1>6 DEF ShutdownStep, ShutdownDone, ShutdownError
    <3> QED BY <3>1, <3>2, <3>3 DEF HalfDown, Blocked
  <2>4. CASE UNCHANGED dying
    BY <2>1, <2>2, <2>4 DEF HalfInv
  <2>5. CASE dying' # dying
    BY <2>1, <2>2, <2>3, <2>5 DEF HalfInv
  <2> QED BY <2>4, <2>5
<1>7. CASE Shutdown
  <2>1. /\ life = "alive" /\ UNCHANGED <<pc, ec>>
    BY <1>7 DEF Shutdown, ShutdownTake
  <2>2. \A d \in Clients : ~ HalfDown(d)
    BY <2>1 DEF AliveInv, HalfInv
  <2> QED BY <2>1, <2>2 DEF HalfInv, HalfDown, Blocked
<1>8. CASE Destroy
  <2>1. UNCHANGED dying /\ Complete(Range(waiters_), "operation_aborted")
    BY <1>8 DEF Destroy, DestroyLists
  <2>2. \A d \in Clients : ~ Blocked(d)
    BY <1>8 DEF Destroy, DestroyLists
  <2>3. \A d \in Clients : HalfDown(d)' => HalfDown(d)
    BY <2>1, <2>2 DEF Complete, CompletedPc, HalfDown, Blocked
  <2> QED BY <1>1, <2>1, <2>3
<1> QED
  BY <1>2, <1>3, <1>4, <1>5, <1>6, <1>7, <1>8 DEF Next, Call

(* A step that lets a blocked lock() return with success finds success in  *)
(* its operation, or no result yet.                                        *)
LEMMA BlocksStep ==
  ASSUME TypeOK, Next, NEW t \in Threads, Blocked(t), pc'[t] = "acquired"
  PROVE  ec[t] = "ok" \/ HalfDown(t)
<1> USE DEF TypeOK, OpTypeOK, Blocked
<1>0. t \in Clients /\ pc[t] \notin {"idle", "acquired", "posted", "inline", "queued"}
  BY DEF Clients
<1>1. ASSUME NEW c \in Clients, Call(c) PROVE FALSE
  BY <1>0, <1>1, CompletedPcBlocked
     DEF Call, AsyncLock, TryLock, Lock, LockSingleThreaded, Unlock, Cancel,
         DispatchInSection, StartWaiting, Finish, Complete, CompleteAndGo
<1>2. ASSUME NEW c \in Clients, OpStep(c) PROVE ec[t] \in {"ok", "unset"}
  <2>1. Recheck(c) /\ c = t
    BY <1>0, <1>2 DEF OpStep, InlineReturn, InlineReenter, RunHandler, DestroyHandler,
                      SpuriousWakeup, Recheck, SleepAgain
  <2> QED
    BY <1>0, <2>1 DEF Recheck
<1>3. CASE ShutdownStep
  <2>1. dying # << >> => Head(dying) \in Clients
    BY LeaveFront
  <2> QED
    BY <1>0, <1>3, <2>1, CompletedPcBlocked
       DEF ShutdownStep, ShutdownAsync, ShutdownDone, ShutdownError, ShutdownNotify, Finish
<1>4. CASE Shutdown \/ Destroy
  BY <1>0, <1>4, CompletedPcBlocked DEF Shutdown, ShutdownTake, Destroy, DestroyLists, Complete
<1> QED
  BY <1>1, <1>2, <1>3, <1>4 DEF Next, HalfDown

(* Whatever wakes a thread, it leaves lock() with success only after an    *)
(* unlock() handed it the mutex, or in the window that MutexShutdownRace   *)
(* is about.                                                               *)
THEOREM MutexBlocks == Spec => OnlyShutdownInterrupts
<1> DEFINE Inv == TypeOK /\ AliveInv /\ HalfInv
<1>1. Init => AliveInv /\ HalfInv
  <2>1. Range(<< >>) = {} /\ IsInjective(<< >>)
    BY EmptyQueue
  <2> QED BY <2>1 DEF Init, OpInit, AliveInv, HalfInv, HalfDown
<1>2. Inv /\ [Next]_vars => (AliveInv /\ HalfInv)'
  <2>1. AliveInv /\ HalfInv /\ UNCHANGED vars => (AliveInv /\ HalfInv)'
    BY DEF vars, AliveInv, HalfInv, HalfDown, Pending, Blocked
  <2> QED BY <2>1, AliveStep, HalfStep
<1>3. Inv /\ [Next]_vars =>
        [\A c \in Threads : Blocked(c) /\ pc'[c] = "acquired" =>
           ec[c] = "ok" \/ (ec[c] = "unset" /\ dying # << >> /\ c = Head(dying))]_vars
  <2> SUFFICES ASSUME Inv, Next, NEW c \in Threads, Blocked(c), pc'[c] = "acquired"
               PROVE  ec[c] = "ok" \/ (ec[c] = "unset" /\ dying # << >> /\ c = Head(dying))
    OBVIOUS
  <2> QED BY BlocksStep DEF HalfInv, HalfDown, Clients
<1> QED
  BY <1>1, <1>2, <1>3, TypeCorrect, PTL DEF Spec, OnlyShutdownInterrupts

(* Completing an operation a second time is the only way to change a       *)
(* result: a step that changes ec[c] finds it pending, half shut down, or  *)
(* c between two operations.                                               *)
LEMMA FinalStep ==
  ASSUME NoShutdownRace, IInv, Next, NEW d \in Clients,
         ec[d] \in {"ok", "operation_aborted", "shut_down"},
         pc[d] = "posted" \/ Blocked(d)
  PROVE  ec'[d] = ec[d]
<1> USE DEF IInv, TypeOK, OpTypeOK, Blocked
<1>0. d \notin Range(waiters_)
  BY DEF QueueInv, LinkedInv, Pending
<1>1. ASSUME NEW c \in Clients, Call(c) PROVE ec'[d] = ec[d]
  <2>1. CASE Unlock(c)
    <3>1. waiters_ # << >> => Head(waiters_) \in Range(waiters_)
      BY LeaveFront
    <3> QED BY <1>0, <2>1, <3>1 DEF Unlock, CompleteAndGo
  <2>2. CASE ~ Unlock(c)
    BY <1>1, <2>2 DEF Call, AsyncLock, TryLock, Lock, LockSingleThreaded, Cancel,
                      DispatchInSection, StartWaiting, Finish, Complete
  <2> QED BY <2>1, <2>2
<1>2. ASSUME NEW c \in Clients, OpStep(c) PROVE ec'[d] = ec[d]
  BY <1>2 DEF OpStep, InlineReturn, InlineReenter, RunHandler, DestroyHandler,
              SpuriousWakeup, Recheck, SleepAgain
<1>3. CASE ShutdownStep
  <2>1. dying # << >> => Head(dying) \in Clients
    BY LeaveFront
  <2> QED
    BY <1>3, <2>1
       DEF ShutdownStep, ShutdownAsync, ShutdownDone, ShutdownError, ShutdownNotify, Finish
<1>4. CASE Shutdown \/ Destroy
  BY <1>0, <1>4 DEF Shutdown, ShutdownTake, Destroy, DestroyLists, Complete
<1> QED
  BY <1>1, <1>2, <1>3, <1>4 DEF Next

(* The result an operation was given is the one its client gets.           *)
THEOREM MutexResultIsFinal ==
  ASSUME NoShutdownRace
  PROVE  Spec => ResultIsFinal
<1>1. IInv /\ [Next]_vars =>
        [\A c \in Clients :
           /\ ec[c] \in {"ok", "operation_aborted", "shut_down"}
           /\ pc[c] = "posted" \/ Blocked(c)
           => ec'[c] = ec[c]]_vars
  BY FinalStep
<1> QED
  BY <1>1, Invariance, PTL DEF Spec, ResultIsFinal

-----------------------------------------------------------------------------
(* Refinement.  The owner of FifoLock is the one client that is granted    *)
(* the lock.                                                               *)
LEMMA OwnerFacts ==
  /\ OwnerInv => /\ \A c \in GrantedSet : LockOwner = c
                 /\ GrantedSet = {} => LockOwner = IF locked_ THEN Lost ELSE None
  /\ OwnerInv' => /\ \A c \in GrantedSet' : LockOwner' = c
                  /\ GrantedSet' = {} => LockOwner' = IF locked_' THEN Lost ELSE None
BY DEF OwnerInv, GrantedSet, LockOwner

(* The effects are the steps of FifoLock.                                  *)
LEMMA EffectIsFifo ==
  ASSUME IInv, Effect, OwnerInv'
  PROVE  [Abstract!Next]_<<LockOwner, waiters_>>
<1>0. OwnerInv /\ TypeOK /\ GrantedSet \subseteq Clients
  BY DEF IInv, GrantedSet
<1>1. CASE LockStays
  <2>1. LockOwner' = LockOwner
    <3>1. CASE GrantedSet = {}
      BY <1>0, <1>1, <3>1, OwnerFacts DEF LockStays
    <3>2. CASE GrantedSet # {}
      BY <1>0, <1>1, <3>2, OwnerFacts DEF LockStays
    <3> QED BY <3>1, <3>2
  <2>2. ASSUME NEW c \in Clients \ (GrantedSet \cup Range(waiters_)), locked_,
               waiters_' = Append(waiters_, c)
        PROVE  Abstract!Wait(c)
    <3>1. LockOwner \notin {None, c}
      BY <1>0, <2>2, OwnerFacts, MutexAssumption
    <3>2. ~ Contains(waiters_, c)
      BY <1>0, <2>2, QueueElements DEF TypeOK
    <3> QED BY <2>1, <2>2, <3>1, <3>2 DEF Abstract!Wait, Abstract!Contains, Contains
  <2>3. ASSUME NEW i \in DOMAIN waiters_, waiters_' = RemoveAt(waiters_, i)
        PROVE  Abstract!Leave(i)
    BY <2>1, <2>3 DEF Abstract!Leave, Abstract!RemoveAt, RemoveAt
  <2>4. ASSUME waiters_' = << >> PROVE Abstract!TurnAway
    BY <2>1, <2>4 DEF Abstract!TurnAway
  <2> QED BY <1>1, <2>1, <2>2, <2>3, <2>4 DEF LockStays, Abstract!Next
<1>2. ASSUME NEW c \in Clients, LockTaken(c) PROVE Abstract!Take(c)
  <2>1. GrantedSet = {} /\ GrantedSet' = {c}
    BY <1>0, <1>2 DEF LockTaken, OwnerInv
  <2>2. LockOwner = None /\ LockOwner' = c
    BY <1>0, <1>2, <2>1, OwnerFacts DEF LockTaken
  <2> QED BY <1>2, <2>2 DEF LockTaken, Abstract!Take
<1>3. ASSUME NEW c \in Clients, LockReleased(c) PROVE Abstract!Release
  <2>1. LockOwner = c
    BY <1>0, <1>3, OwnerFacts DEF LockReleased
  <2>2. CASE waiters_ = << >>
    <3>1. GrantedSet' = {} /\ ~ locked_'
      BY <1>0, <1>3, <2>2 DEF LockReleased, OwnerInv
    <3>2. LockOwner' = None
      BY <3>1, OwnerFacts
    <3> QED BY <1>3, <2>1, <2>2, <3>2 DEF LockReleased, Abstract!Release
  <2>3. CASE waiters_ # << >>
    <3>1. LockOwner' = Head(waiters_)
      BY <1>3, <2>3, OwnerFacts DEF LockReleased
    <3> QED BY <1>3, <2>1, <2>3, <3>1 DEF LockReleased, Abstract!Release
  <2> QED BY <2>2, <2>3
<1>4. ASSUME NEW c \in Clients, LockLost(c) PROVE Abstract!Lose
  <2>1. LockOwner = c /\ GrantedSet' = {} /\ locked_'
    BY <1>0, <1>4, OwnerFacts DEF LockLost, OwnerInv
  <2>2. LockOwner' = Lost
    BY <2>1, OwnerFacts
  <2> QED BY <1>4, <2>1, <2>2 DEF LockLost, Abstract!Lose
<1> QED
  BY <1>1, <1>2, <1>3, <1>4 DEF Effect, Abstract!Next

(* The lock goes to the clients in the order in which they came, whatever  *)
(* mixture of strands and threads waits, tries, is cancelled or shut down. *)
THEOREM MutexIsFifo ==
  ASSUME NoShutdownRace
  PROVE  Spec => ImplementsFifoLock
<1>1. Init => Abstract!Init
  <2> SUFFICES ASSUME Init PROVE Abstract!Init
    OBVIOUS
  <2>1. GrantedSet = {} /\ OwnerInv /\ locked_ = FALSE
    BY OpInitInv, InvInit DEF Init, IInv
  <2> QED BY <2>1, OwnerFacts DEF Init, Abstract!Init
<1>2. IInv /\ [Next]_vars => [Abstract!Next]_<<LockOwner, waiters_>>
  <2>1. UNCHANGED vars => UNCHANGED <<LockOwner, waiters_>>
    BY DEF vars, LockOwner, Granted, Blocked
  <2>2. ASSUME IInv, Next PROVE [Abstract!Next]_<<LockOwner, waiters_>>
    BY <2>2, InvStep, EffectIsFifo DEF IInv
  <2> QED BY <2>1, <2>2
<1> QED
  BY <1>1, <1>2, Invariance, PTL DEF Spec, ImplementsFifoLock, Abstract!Spec

-----------------------------------------------------------------------------
(* guarded() with a mutex.  Every step of the composition is a step of     *)
(* the mutex or changes only a phase.                                      *)
LEMMA GuardedStepIsMutexStep == [GNext]_gvars => [Next]_vars
<1> SUFFICES ASSUME [GNext]_gvars PROVE [Next]_vars
  OBVIOUS
<1>0. GuardedStrands \subseteq Clients
  BY GuardedAssumption DEF Clients
<1>1. ASSUME NEW c \in GuardedStrands, GuardedLock(c) PROVE [Next]_vars
  BY <1>0, <1>1 DEF GuardedLock, Next, Call
<1>2. ASSUME NEW c \in GuardedStrands, GuardedStart(c) PROVE [Next]_vars
  BY <1>0, <1>2 DEF GuardedStart, Next, Call
<1>3. ASSUME NEW c \in GuardedStrands, GuardedResume(c) PROVE [Next]_vars
  BY <1>0, <1>3 DEF GuardedResume, Resume, Next, OpStep
<1>4. ASSUME NEW c \in GuardedStrands, GuardedDone(c) PROVE [Next]_vars
  BY <1>0, <1>4 DEF GuardedDone, Next, Call
<1>5. CASE Unguarded
  BY <1>0, <1>5 DEF Unguarded, Next, Call, OpStep
<1>6. CASE UNCHANGED gvars
  BY <1>6 DEF gvars, vars
<1> QED
  BY <1>1, <1>2, <1>3, <1>4, <1>5, <1>6 DEF GNext

(* guarded() uses the mutex the way any client may: whatever is proved of  *)
(* the mutex holds with guarded operations among its clients.              *)
THEOREM GuardedMutexIsMutex == GSpec => Spec
<1>1. GInit => Init
  BY DEF GInit
<1> QED
  BY <1>1, GuardedStepIsMutexStep, PTL DEF GSpec, Spec

(* Where the operation of a strand is in each phase of its guarded().      *)
PhaseAt(p, q) ==
  /\ p \in {"none", "trying"} => q = "idle"
  /\ p = "waiting" => q \in {"queued", "posted", "gone"}
  /\ p \in {"running", "leaked"} => q = "acquired"

PhaseInv ==
  /\ phase \in [GuardedStrands -> Phases]
  /\ \A c \in GuardedStrands : PhaseAt(phase[c], pc[c])

(* Calls of others keep the operation of g.                                *)
LEMMA MutexCallKeeps ==
  ASSUME TypeOK, NEW d \in Clients, NEW g \in Clients, g # d, Call(d)
  PROVE  Keeps(g)
<1>0. /\ "idle" \in Pcs /\ "acquired" \in Pcs /\ "ok" \in Results /\ "in_progress" \in Results
      /\ OpTypeOK
  BY DEF Pcs, Results, TypeOK
<1>1. CASE AsyncLock(d)
  BY <1>0, <1>1, CallKeeps DEF AsyncLock
<1>2. CASE TryLock(d) \/ LockSingleThreaded(d)
  BY <1>0, <1>2, CallKeeps DEF TryLock, LockSingleThreaded
<1>3. CASE Lock(d)
  BY <1>0, <1>3, CallKeeps DEF Lock
<1>4. CASE Unlock(d)
  <2>1. waiters_ # << >> => {Head(waiters_)} \in SUBSET Clients
    BY LeaveFront DEF TypeOK
  <2>2. \E S \in SUBSET Clients : CompleteAndGo(S, "ok", d, "idle")
    BY <1>4, <2>1 DEF Unlock
  <2> QED BY <1>0, <2>2, CallKeeps
<1>5. CASE Cancel(d)
  BY <1>0, <1>5, CompleteKeeps DEF Cancel
<1> QED
  BY <1>1, <1>2, <1>3, <1>4, <1>5 DEF Call

LEMMA UnguardedKeeps ==
  ASSUME IInv, NEW g \in GuardedStrands, Unguarded
  PROVE  Keeps(g)
<1>0. GuardedStrands \subseteq Clients /\ TypeOK /\ OpTypeOK
  BY GuardedAssumption DEF Clients, IInv, TypeOK
<1>1. ASSUME NEW d \in Clients \ GuardedStrands, Call(d) \/ OpStep(d) PROVE Keeps(g)
  BY <1>0, <1>1, MutexCallKeeps, OpStepKeeps
<1>2. ASSUME NEW d \in GuardedStrands, Cancel(d) PROVE Keeps(g)
  BY <1>0, <1>2, CompleteKeeps DEF Cancel
<1>3. ASSUME NEW d \in GuardedStrands, DestroyHandler(d) PROVE Keeps(g)
  BY <1>0, <1>3, OpStepKeeps
<1>4. CASE ShutdownStep
  <2>1. PICK Q : Q = Range(waiters_)
    OBVIOUS
  <2>2. LinkedInv(Q)
    BY <2>1 DEF IInv, QueueInv
  <2> QED BY <1>0, <1>4, <2>2, ShutdownKeeps
<1>5. CASE Shutdown
  BY <1>5 DEF Shutdown, ShutdownTake, Keeps
<1>6. CASE Destroy
  BY <1>0, <1>6, CompleteKeeps DEF Destroy, DestroyLists
<1> QED
  BY <1>1, <1>2, <1>3, <1>4, <1>5, <1>6 DEF Unguarded

(* PhaseInv is inductive given the invariant of the mutex.                 *)
LEMMA PhaseStep == IInv /\ PhaseInv /\ [GNext]_gvars => PhaseInv'
<1> SUFFICES ASSUME IInv, PhaseInv, [GNext]_gvars PROVE PhaseInv'
  OBVIOUS
<1>0. /\ GuardedStrands \subseteq Clients /\ GuardedStrands \subseteq Strands
      /\ TypeOK /\ OpTypeOK
  BY GuardedAssumption DEF Clients, IInv, TypeOK
<1>1. ASSUME NEW g \in GuardedStrands, Keeps(g), phase'[g] = phase[g]
      PROVE  PhaseAt(phase'[g], pc'[g])
  BY <1>1 DEF Keeps, PhaseInv, PhaseAt
<1>2. ASSUME NEW c \in GuardedStrands, NEW p, NEW q \in Phases, MoveOn(c, p, q),
             Call(c) \/ OpStep(c) \/ UNCHANGED vars, PhaseAt(q, pc'[c])
      PROVE  PhaseInv'
  <2>1. phase' \in [GuardedStrands -> Phases] /\ phase'[c] = q
    BY <1>2 DEF MoveOn, PhaseInv
  <2>2. ASSUME NEW g \in GuardedStrands, g # c PROVE PhaseAt(phase'[g], pc'[g])
    <3>1. phase'[g] = phase[g]
      BY <1>2, <2>2 DEF MoveOn, PhaseInv
    <3>2. Keeps(g)
      <4>1. CASE UNCHANGED vars
        BY <4>1 DEF vars, Keeps
      <4> QED BY <1>0, <1>2, <2>2, <4>1, MutexCallKeeps, OpStepKeeps
    <3> QED
      BY <1>1, <3>1, <3>2
  <2> QED
    BY <1>2, <2>1, <2>2 DEF PhaseInv
<1>3. ASSUME NEW c \in GuardedStrands, GuardedStart(c) PROVE PhaseInv'
  <2>0. "running" \in Phases /\ "leaked" \in Phases /\ "trying" \in Phases
    BY DEF Phases
  <2>1. CASE TryLock(c) /\ StartOp(c, "none")
    <3>1. pc'[c] = "acquired" /\ Call(c)
      BY <1>0, <2>1 DEF TryLock, Finish, OpTypeOK, Call
    <3> QED
      BY <1>2, <2>0, <2>1, <3>1 DEF StartOp, PhaseAt
  <2>2. CASE pc[c] = "idle" /\ MoveOn(c, "none", "trying") /\ UNCHANGED vars
    BY <1>2, <2>0, <2>2 DEF vars, PhaseAt
  <2> QED
    BY <1>3, <2>1, <2>2 DEF GuardedStart
<1>4. ASSUME NEW c \in GuardedStrands, GuardedLock(c) PROVE PhaseInv'
  <2>1. c \notin InlineStrands
    BY GuardedAssumption
  <2>2. pc'[c] \in {"queued", "posted"}
    BY <1>0, <1>4, <2>1 DEF GuardedLock, AsyncLock, DispatchInSection, StartWaiting,
                             Finish, OpTypeOK
  <2> QED
    BY <1>2, <1>4, <2>2 DEF GuardedLock, Phases, PhaseAt, Call
<1>5. ASSUME NEW c \in GuardedStrands, GuardedResume(c) PROVE PhaseInv'
  <2>1. /\ OpStep(c)
        /\ \/ ec[c] = "ok" /\ StartOp(c, "waiting") /\ pc'[c] = "acquired"
           \/ ec[c] # "ok" /\ MoveOn(c, "waiting", "none") /\ pc'[c] = "idle"
    BY <1>0, <1>5 DEF GuardedResume, Resume, RunHandler, OpTypeOK, OpStep
  <2> QED
    BY <1>2, <2>1 DEF StartOp, Phases, PhaseAt
<1>6. ASSUME NEW c \in GuardedStrands, GuardedDone(c) PROVE PhaseInv'
  <2>1. pc[c] = "acquired" /\ Unlock(c) /\ Call(c) /\ MoveOn(c, "running", "none")
    BY <1>6 DEF GuardedDone, Unlock, Call
  <2>2. waiters_ # << >> => Head(waiters_) # c
    <3>1. \A d \in Range(waiters_) : pc[d] # "acquired"
      BY DEF IInv, QueueInv, LinkedInv, Pending, Blocked
    <3> QED BY <1>0, <2>1, <3>1, LeaveFront DEF TypeOK
  <2>3. pc'[c] = "idle"
    BY <1>0, <2>1, <2>2 DEF Unlock, CompleteAndGo
  <2> QED
    BY <1>2, <2>1, <2>3 DEF Phases, PhaseAt
<1>7. CASE Unguarded
  <2>1. phase' = phase
    BY <1>7 DEF Unguarded
  <2> QED
    BY <1>1, <1>7, <2>1, UnguardedKeeps DEF PhaseInv
<1>8. CASE UNCHANGED gvars
  BY <1>8 DEF gvars, PhaseInv
<1> QED
  BY <1>3, <1>4, <1>5, <1>6, <1>7, <1>8 DEF GNext

(* guarded() runs the operation of the user under the lock and alone: its  *)
(* continuation finds the lock that try_lock took or unlock handed over,   *)
(* no other client is granted it before the operation is done, and a       *)
(* composed operation that ended with an error has kept no lock.           *)
THEOREM GuardedMutexRunsAlone ==
  ASSUME NoShutdownRace
  PROVE  GSpec => []GuardedOpsRunAlone
<1>1. GInit => PhaseInv
  BY GuardedAssumption DEF GInit, PhaseInit, PhaseInv, PhaseAt, Phases, Init, OpInit, Clients
<1>2. IInv /\ PhaseInv => GuardedOpsRunAlone
  <2> SUFFICES ASSUME IInv, PhaseInv, NEW c \in GuardedStrands
               PROVE  /\ phase[c] \in {"running", "leaked"} =>
                           locked_ /\ \A d \in Clients \ {c} : ~ Granted(d)
                      /\ phase[c] \in {"none", "trying"} => ~ Granted(c)
    BY DEF GuardedOpsRunAlone
  <2>0. c \in Clients
    BY GuardedAssumption DEF Clients
  <2>1. phase[c] \in {"running", "leaked"} => Granted(c)
    BY DEF PhaseInv, PhaseAt, Granted
  <2>2. phase[c] \in {"none", "trying"} => ~ Granted(c)
    BY DEF PhaseInv, PhaseAt, Granted, Blocked
  <2> QED
    BY <2>0, <2>1, <2>2 DEF IInv, OwnerInv, GrantedSet
<1>3. Spec => []IInv
  BY Invariance
<1> QED
  BY <1>1, <1>2, <1>3, GuardedMutexIsMutex, PhaseStep, PTL DEF GSpec
=============================================================================
