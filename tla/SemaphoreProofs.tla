--------------------------- MODULE SemaphoreProofs ---------------------------
(***************************************************************************)
(* Proofs about the semaphore and guarded operations on it, for any number *)
(* of strands, threads, permits and signals.                               *)
(***************************************************************************)
EXTENDS GuardedSemaphore, WaitOpsProofs

(* The inductive invariant: the linked operations are those in waiters_,   *)
(* each once, and nobody waits while there is a permit.                    *)
QueueInv ==
  /\ IsInjective(waiters_)
  /\ LinkedInv(Range(waiters_))
  /\ waiters_ # << >> => count_ = 0

IInv == TypeOK /\ QueueInv /\ RaceInv

-----------------------------------------------------------------------------
(* Type correctness, which needs no other invariant: acquire decrements    *)
(* only a positive counter.                                                *)
LEMMA TypeStep == TypeOK /\ [Next]_vars => TypeOK'
<1> SUFFICES ASSUME TypeOK, [Next]_vars PROVE TypeOK'
  OBVIOUS
<1> USE SemaphoreAssumption DEF TypeOK
<1>0. /\ {"idle", "acquired", "posted"} \subseteq Pcs
      /\ {"ok", "in_progress", "operation_aborted"} \subseteq Results
      /\ mtx \in Clients \cup {Free}
  BY DEF Pcs, Results, OpTypeOK
<1>1. ASSUME NEW c \in Clients, AsyncAcquire(c) PROVE TypeOK'
  <2>1. waiters_' \in Seq(Clients) /\ count_' \in Nat /\ signals' = signals
    BY <1>1 DEF AsyncAcquire
  <2>2. OpTypeOK'
    BY <1>1, DispatchType, StartWaitingType DEF AsyncAcquire
  <2> QED BY <2>1, <2>2
<1>2. ASSUME NEW c \in Clients, TryAcquire(c) PROVE TypeOK'
  <2>1. OpTypeOK'
    BY <1>0, <1>2, FinishType DEF TryAcquire
  <2> QED BY <1>2, <2>1 DEF TryAcquire
<1>3. ASSUME NEW c \in Clients, Acquire(c) PROVE TypeOK'
  <2>1. OpTypeOK'
    BY <1>0, <1>3, FinishType, StartWaitingType DEF Acquire
  <2> QED BY <1>3, <2>1 DEF Acquire
<1>4. ASSUME NEW c \in Clients, AcquireSingleThreaded(c) PROVE TypeOK'
  <2>1. OpTypeOK'
    BY <1>0, <1>4, FinishType DEF AcquireSingleThreaded
  <2> QED BY <1>4, <2>1 DEF AcquireSingleThreaded
<1>5. ASSUME NEW c \in Clients, ReleaseOne(c)
      PROVE  OpTypeOK' /\ waiters_' \in Seq(Clients) /\ count_' \in Nat
  <2>1. OpTypeOK'
    BY <1>0, <1>5, CompleteAndGoType DEF ReleaseOne
  <2> QED BY <1>5, <2>1 DEF ReleaseOne
<1>6. ASSUME NEW c \in Clients, Release(c) \/ Signal(c) PROVE TypeOK'
  BY <1>5, <1>6 DEF Release, Signal
<1>7. ASSUME NEW c \in Clients, Cancel(c) PROVE TypeOK'
  <2>1. OpTypeOK'
    BY <1>0, <1>7, CompleteAndGoType DEF Cancel
  <2>2. waiters_' \in Seq(Clients)
    BY <1>7, LeaveQueue DEF Cancel
  <2> QED BY <1>7, <2>1, <2>2 DEF Cancel
<1>8. ASSUME NEW c \in Clients, OpStep(c), UNCHANGED <<count_, waiters_, signals>> PROVE TypeOK'
  BY <1>8, OpStepType
<1>9. CASE ShutdownStep /\ UNCHANGED <<count_, waiters_, signals>>
  BY <1>9, ShutdownStepType
<1>10. CASE Shutdown
  BY <1>10, ShutdownTakeType DEF Shutdown
<1>11. CASE Destroy
  BY <1>11, DestroyListsType DEF Destroy
<1>12. CASE UNCHANGED vars
  BY <1>12 DEF vars, OpTypeOK
<1> QED
  BY <1>1, <1>2, <1>3, <1>4, <1>6, <1>7, <1>8, <1>9, <1>10, <1>11, <1>12 DEF Next, Call

(* The counter never goes below zero and every variable keeps its type.    *)
THEOREM SemaphoreTypeCorrect == Spec => []TypeOK
<1>1. Init => TypeOK
  BY OpInitType, SemaphoreAssumption DEF Init, TypeOK
<1> QED
  BY <1>1, TypeStep, PTL DEF Spec

-----------------------------------------------------------------------------
(* What a step does to the permits and to the queue.                       *)

(* The permits stay where they are; at most, somebody joins or leaves the  *)
(* queue.                                                                  *)
PermitsStay ==
  /\ UNCHANGED <<count_, signals>> /\ GrantedSet' = GrantedSet /\ LostSet' = LostSet
  /\ \/ UNCHANGED waiters_
     \/ \E c \in Clients \ (GrantedSet \cup Range(waiters_)) :
          count_ = 0 /\ waiters_' = Append(waiters_, c)
     \/ \E i \in DOMAIN waiters_ : waiters_' = RemoveAt(waiters_, i)
     \/ waiters_' = << >>

(* c takes a permit.                                                       *)
PermitTaken(c) ==
  /\ count_ > 0 /\ waiters_ = << >> /\ c \notin GrantedSet
  /\ count_' = count_ - 1 /\ GrantedSet' = GrantedSet \cup {c}
  /\ UNCHANGED <<waiters_, signals>> /\ LostSet' = LostSet

(* A permit is released while the clients H have one.                      *)
PermitReleased(H) ==
  /\ LostSet' = LostSet
  /\ \/ /\ waiters_ = << >> /\ UNCHANGED waiters_
        /\ count_' = count_ + 1 /\ GrantedSet' = H
     \/ /\ waiters_ # << >> /\ waiters_' = Tail(waiters_)
        /\ UNCHANGED count_
        /\ Head(waiters_) \notin H /\ GrantedSet' = H \cup {Head(waiters_)}

(* The permit of c is destroyed with its handler.                          *)
PermitLost(c) ==
  /\ GrantedSet' = GrantedSet \ {c}
  /\ LostSet' = LostSet \cup {c} /\ c \notin LostSet
  /\ UNCHANGED <<count_, waiters_, signals>>

Effect ==
  \/ PermitsStay
  \/ \E c \in Clients : PermitTaken(c)
  \/ \E c \in GrantedSet : PermitReleased(GrantedSet \ {c}) /\ UNCHANGED signals
  \/ PermitReleased(GrantedSet) /\ signals' = signals + 1
  \/ \E c \in GrantedSet : PermitLost(c)

-----------------------------------------------------------------------------
(* The inductive step, one action at a time: initiations that take a       *)
(* permit, initiations that wait, releases, and the rest.                  *)
LEMMA TakeStep ==
  ASSUME IInv, NEW c \in Clients, pc[c] = "idle", count_ > 0, count_' = count_ - 1,
         DispatchInSection(c) \/ (Finish(c, "ok", "acquired") /\ UNCHANGED mtx),
         UNCHANGED <<waiters_, signals, dying, life, spurious, mt>>
  PROVE  QueueInv' /\ RaceInv' /\ PermitTaken(c)
<1>1. PICK Q \in SUBSET Clients : Q = Range(waiters_)
  BY QueueElements DEF IInv, TypeOK
<1>2. OpInv(Q)
  BY <1>1 DEF IInv, QueueInv, OpInv, TypeOK
<1>3. waiters_ = << >>
  BY DEF IInv, QueueInv
<1>4. OpInv(Q)' /\ LostSet' = LostSet /\ GrantedSet' = GrantedSet \cup {c}
  BY <1>2, GrantStep
<1>5. c \notin GrantedSet
  BY <1>2, GrantedFacts DEF OpInv
<1>6. Range(waiters_)' = Q
  BY <1>1
<1>7. LinkedInv(Range(waiters_))' /\ RaceInv'
  BY <1>4, <1>6 DEF OpInv, LinkedInv
<1>8. QueueInv'
  BY <1>3, <1>7 DEF QueueInv, IInv
<1> QED
  BY <1>3, <1>4, <1>5, <1>7, <1>8 DEF PermitTaken

LEMMA WaitStep ==
  ASSUME IInv, NEW c \in Clients, pc[c] = "idle", count_ <= 0, StartWaiting(c),
         waiters_' = Append(waiters_, c),
         UNCHANGED <<count_, signals, mtx, dying, life, spurious, mt>>
  PROVE  QueueInv' /\ RaceInv' /\ PermitsStay
<1>1. PICK Q \in SUBSET Clients : Q = Range(waiters_)
  BY QueueElements DEF IInv, TypeOK
<1>2. OpInv(Q)
  BY <1>1 DEF IInv, QueueInv, OpInv, TypeOK
<1>3. count_ = 0
  BY DEF IInv, TypeOK
<1>4. c \notin Q /\ OpInv(Q \cup {c})' /\ LostSet' = LostSet /\ GrantedSet' = GrantedSet
  BY <1>2, JoinStep
<1>5. c \notin GrantedSet
  BY <1>2, GrantedFacts DEF OpInv
<1>6. Range(waiters_)' = Q \cup {c} /\ IsInjective(waiters_)'
  BY <1>1, <1>4, JoinQueue DEF IInv, TypeOK, QueueInv
<1>7. LinkedInv(Range(waiters_))' /\ RaceInv'
  BY <1>4, <1>6 DEF OpInv, LinkedInv
<1>8. QueueInv'
  BY <1>3, <1>6, <1>7 DEF QueueInv
<1> QED
  BY <1>1, <1>3, <1>4, <1>5, <1>7, <1>8 DEF PermitsStay

LEMMA ReleaseStep ==
  ASSUME IInv, NEW c \in Clients, pc[c] \in {"idle", "acquired"}, ReleaseOne(c)
  PROVE  /\ QueueInv' /\ RaceInv'
         /\ PermitReleased(GrantedSet \ {c})
<1>1. PICK Q \in SUBSET Clients : Q = Range(waiters_)
  BY QueueElements DEF IInv, TypeOK
<1>2. OpInv(Q)
  BY <1>1 DEF IInv, QueueInv, OpInv, TypeOK
<1>3. Q \cap GrantedSet = {}
  BY <1>2, GrantedFacts DEF OpInv
<1>4. CASE waiters_ = << >>
  <2>1. CompleteAndGo({}, "ok", c, "idle") /\ {} \in SUBSET Q /\ Q = {}
    BY <1>1, <1>4, EmptyQueue DEF ReleaseOne
  <2>2. OpInv(Q \ {})' /\ LostSet' = LostSet /\ GrantedSet' = (GrantedSet \ {c}) \cup {}
    BY <1>2, <2>1, GrantOpsStep DEF ReleaseOne
  <2>3. waiters_' = waiters_ /\ count_' = count_ + 1 /\ Range(waiters_)' = Q
    BY <1>1, <1>4 DEF ReleaseOne
  <2>4. LinkedInv(Range(waiters_))' /\ RaceInv'
    BY <2>1, <2>2, <2>3 DEF OpInv, LinkedInv
  <2>5. QueueInv'
    BY <1>4, <2>3, <2>4 DEF QueueInv, IInv
  <2> QED
    BY <1>4, <2>2, <2>3, <2>4, <2>5 DEF PermitReleased
<1>5. CASE waiters_ # << >>
  <2>1. PICK h \in Q : h = Head(waiters_)
    BY <1>1, <1>5, LeaveFront DEF IInv, TypeOK
  <2>2. CompleteAndGo({h}, "ok", c, "idle") /\ {h} \in SUBSET Q
    BY <1>5, <2>1 DEF ReleaseOne
  <2>3. OpInv(Q \ {h})' /\ LostSet' = LostSet /\ GrantedSet' = (GrantedSet \ {c}) \cup {h}
    BY <1>2, <2>2, GrantOpsStep DEF ReleaseOne
  <2>4. waiters_' = Tail(waiters_) /\ count_' = count_ /\ count_ = 0
    BY <1>5 DEF ReleaseOne, IInv, QueueInv
  <2>5. Range(waiters_)' = Q \ {h} /\ IsInjective(waiters_)'
    BY <1>1, <1>5, <2>1, <2>4, LeaveFront DEF IInv, TypeOK, QueueInv
  <2>6. LinkedInv(Range(waiters_))' /\ RaceInv'
    BY <2>3, <2>5 DEF OpInv, LinkedInv
  <2>7. QueueInv'
    BY <2>4, <2>5, <2>6 DEF QueueInv
  <2> QED
    BY <1>3, <1>5, <2>1, <2>3, <2>4, <2>6, <2>7 DEF PermitReleased
<1> QED BY <1>4, <1>5


(* Every step preserves the invariant, and its effect on the permits is    *)
(* one of the above.                                                       *)
LEMMA InvStep ==
  ASSUME NoShutdownRace, IInv, Next
  PROVE  IInv' /\ Effect
<1>1. TypeOK'
  BY TypeStep DEF IInv
<1>2. PICK Q \in SUBSET Clients : Q = Range(waiters_)
  BY QueueElements DEF IInv, TypeOK
<1>3. OpInv(Q)
  BY <1>2 DEF IInv, QueueInv, OpInv, TypeOK
<1>4. ASSUME OpInv(Q)', UNCHANGED <<waiters_, count_>> PROVE QueueInv' /\ RaceInv'
  <2>1. Range(waiters_)' = Q
    BY <1>2, <1>4
  <2> QED BY <1>4, <2>1 DEF OpInv, LinkedInv, QueueInv, IInv
<1>5. ASSUME OpInv({})', waiters_' = << >> PROVE QueueInv' /\ RaceInv'
  <2>1. Range(waiters_)' = {} /\ IsInjective(waiters_)'
    BY <1>5, EmptyQueue
  <2> QED BY <1>5, <2>1 DEF OpInv, LinkedInv, QueueInv
<1>6. ASSUME NEW c \in Clients, AsyncAcquire(c) PROVE QueueInv' /\ RaceInv' /\ Effect
  <2>1. CASE count_ > 0
    BY <1>6, <2>1, TakeStep DEF AsyncAcquire, Effect, IInv, TypeOK
  <2>2. CASE count_ <= 0
    BY <1>6, <2>2, WaitStep DEF AsyncAcquire, Effect, IInv, TypeOK
  <2> QED BY <1>6, <2>1, <2>2 DEF AsyncAcquire
<1>7. ASSUME NEW c \in Clients, TryAcquire(c) PROVE QueueInv' /\ RaceInv' /\ Effect
  BY <1>7, TakeStep DEF TryAcquire, Effect
<1>8. ASSUME NEW c \in Clients, Acquire(c) PROVE QueueInv' /\ RaceInv' /\ Effect
  <2>1. CASE count_ > 0
    BY <1>8, <2>1, TakeStep DEF Acquire, Effect, IInv, TypeOK
  <2>2. CASE count_ <= 0
    BY <1>8, <2>2, WaitStep DEF Acquire, Effect, IInv, TypeOK
  <2> QED BY <1>8, <2>1, <2>2 DEF Acquire
<1>9. ASSUME NEW c \in Clients, AcquireSingleThreaded(c) PROVE QueueInv' /\ RaceInv' /\ Effect
  <2>1. CASE count_ > 0
    BY <1>9, <2>1, TakeStep DEF AcquireSingleThreaded, Effect, IInv, TypeOK
  <2>2. CASE count_ <= 0
    <3>1. OpInv(Q)' /\ LostSet' = LostSet /\ GrantedSet' = GrantedSet
      BY <1>3, <1>9, <2>2, RefuseStep DEF AcquireSingleThreaded, IInv, TypeOK
    <3> QED
      BY <1>4, <1>9, <2>2, <3>1 DEF AcquireSingleThreaded, Effect, PermitsStay, IInv, TypeOK
  <2> QED BY <1>9, <2>1, <2>2 DEF AcquireSingleThreaded
<1>10. ASSUME NEW c \in Clients, Release(c) PROVE QueueInv' /\ RaceInv' /\ Effect
  <2>1. c \in GrantedSet
    BY <1>10 DEF Release, GrantedSet, Granted
  <2> QED BY <1>10, <2>1, ReleaseStep DEF Release, Effect
<1>11. ASSUME NEW c \in Clients, Signal(c) PROVE QueueInv' /\ RaceInv' /\ Effect
  <2>1. c \notin GrantedSet
    BY <1>11 DEF Signal, GrantedSet, Granted, Blocked
  <2>2. GrantedSet \ {c} = GrantedSet
    BY <2>1
  <2> QED BY <1>11, <2>2, ReleaseStep DEF Signal, Effect
<1>12. ASSUME NEW c \in Clients, Cancel(c) PROVE QueueInv' /\ RaceInv' /\ Effect
  <2>1. PICK k \in DOMAIN waiters_ : waiters_[k] = c /\ waiters_' = RemoveAt(waiters_, k)
    BY <1>12 DEF Cancel
  <2>2. c \in Q /\ waiters_ # << >>
    BY <1>2, <2>1 DEF Range
  <2>3. OpInv(Q \ {c})' /\ LostSet' = LostSet /\ GrantedSet' = GrantedSet
    BY <1>3, <1>12, <2>2, CancelOpStep DEF Cancel
  <2>4. Range(waiters_)' = Q \ {c} /\ IsInjective(waiters_)'
    BY <1>2, <2>1, LeaveQueue DEF IInv, TypeOK, QueueInv
  <2>5. QueueInv' /\ RaceInv'
    BY <1>12, <2>2, <2>3, <2>4 DEF OpInv, LinkedInv, QueueInv, IInv, Cancel
  <2> QED BY <1>12, <2>1, <2>3, <2>5 DEF Cancel, Effect, PermitsStay
<1>13. ASSUME NEW c \in Clients, OpStep(c), UNCHANGED <<count_, waiters_, signals>>
       PROVE  QueueInv' /\ RaceInv' /\ Effect
  <2>1. OpInv(Q)'
    BY <1>3, <1>13, OpStepInv
  <2>2. Effect
    BY <1>13, OpStepGrants DEF IInv, TypeOK, Effect, PermitsStay, PermitLost
  <2> QED BY <1>4, <1>13, <2>1, <2>2
<1>14. CASE ShutdownStep /\ UNCHANGED <<count_, waiters_, signals>>
  <2>1. OpInv(Q)' /\ LostSet' = LostSet /\ GrantedSet' = GrantedSet
    BY <1>3, <1>14, ShutdownStepInv
  <2> QED BY <1>1, <1>4, <1>14, <2>1 DEF Effect, PermitsStay, IInv
<1>15. CASE Shutdown
  <2>1. PICK w \in Seq(Clients) : w = waiters_
    BY DEF IInv, TypeOK
  <2>2. OpInv({})' /\ LostSet' = LostSet /\ GrantedSet' = GrantedSet
    BY <1>2, <1>3, <1>15, <2>1, ShutdownTakeInv DEF Shutdown, IInv, QueueInv
  <2> QED BY <1>1, <1>5, <1>15, <2>2 DEF Shutdown, Effect, PermitsStay, IInv
<1>16. CASE Destroy
  <2>1. OpInv({})' /\ LostSet' = LostSet /\ GrantedSet' = GrantedSet
    BY <1>2, <1>3, <1>16, DestroyListsInv DEF Destroy
  <2> QED BY <1>1, <1>5, <1>16, <2>1 DEF Destroy, Effect, PermitsStay, IInv
<1> QED
  BY <1>1, <1>6, <1>7, <1>8, <1>9, <1>10, <1>11, <1>12, <1>13, <1>14, <1>15, <1>16
     DEF Next, Call, IInv

(* A new semaphore has its permits, and nobody waits.                      *)
LEMMA InvInit == Init => IInv
<1> SUFFICES ASSUME Init PROVE IInv
  OBVIOUS
<1>1. TypeOK
  BY OpInitType, SemaphoreAssumption DEF Init, TypeOK
<1>2. Range(waiters_) = {} /\ IsInjective(waiters_) /\ OpInv({})
  BY EmptyQueue, OpInitInv DEF Init
<1> QED BY <1>1, <1>2 DEF IInv, QueueInv, OpInv, Init

(* The inductive invariant holds in every state of every behaviour.        *)
LEMMA Invariance ==
  ASSUME NoShutdownRace
  PROVE  Spec => []IInv
<1>1. IInv /\ [Next]_vars => IInv'
  <2>1. IInv /\ UNCHANGED vars => IInv'
    BY DEF vars, IInv, TypeOK, OpTypeOK, QueueInv, LinkedInv, RaceInv, Pending, Blocked
  <2> QED BY <2>1, InvStep
<1> QED
  BY <1>1, InvInit, PTL DEF Spec

-----------------------------------------------------------------------------
(* No permit is left while somebody waits, nobody is queued twice, and no  *)
(* waiter is lost or granted twice.                                        *)
THEOREM SemaphoreQueuesWaiters ==
  ASSUME NoShutdownRace
  PROVE  Spec => []WaitersAreQueued
<1>1. IInv => WaitersAreQueued
  BY DEF IInv, QueueInv, LinkedInv, WaitersAreQueued
<1> QED
  BY <1>1, Invariance, PTL

-----------------------------------------------------------------------------
(* Conservation of permits.  The waiters cancel out of PermitsConserved.   *)
Conserved ==
  count_ + Cardinality(GrantedSet) + Cardinality(LostSet) = InitialCount + signals

LEMMA ConservedMeans ==
  ASSUME IsFiniteSet(Clients), TypeOK
  PROVE  Conserved <=> PermitsConserved
<1>1. Len(waiters_) \in Nat /\ count_ \in Nat
  BY DEF TypeOK
<1>2. GrantedSet = {c \in Clients : Granted(c)} /\ LostSet = Lost
  BY DEF GrantedSet, LostSet, Lost
<1>3. \A g, l \in Int : count_ - Len(waiters_) + g + Len(waiters_) + l = count_ + g + l
  BY <1>1
<1>4. PermitsConserved <=>
        count_ - Len(waiters_) + Cardinality(GrantedSet) + Len(waiters_) + Cardinality(LostSet)
          = InitialCount + signals
  BY <1>2 DEF PermitsConserved, value
<1>5. Cardinality(GrantedSet) \in Nat /\ Cardinality(LostSet) \in Nat
  BY CardinalityFacts DEF GrantedSet, LostSet
<1> QED BY <1>3, <1>4, <1>5 DEF Conserved

LEMMA ConservedStep ==
  ASSUME IsFiniteSet(Clients), TypeOK, Conserved, Effect
  PROVE  Conserved'
<1> DEFINE g == Cardinality(GrantedSet)
           l == Cardinality(LostSet)
<1> USE SemaphoreAssumption DEF TypeOK
<1>1. GrantedSet \in SUBSET Clients /\ LostSet \in SUBSET Clients
  BY DEF GrantedSet, LostSet
<1>2. g \in Nat /\ l \in Nat /\ count_ \in Nat /\ signals \in Nat
  BY <1>1, CardinalityFacts
<1>3. count_ + g + l = InitialCount + signals
  BY DEF Conserved
<1>4. CASE PermitsStay
  BY <1>4 DEF PermitsStay, Conserved
<1>5. ASSUME NEW c \in Clients, PermitTaken(c) PROVE Conserved'
  <2>1. Cardinality(GrantedSet)' = g + 1 /\ Cardinality(LostSet)' = l
    BY <1>1, <1>5, CardinalityFacts DEF PermitTaken
  <2>2. count_' = count_ - 1 /\ signals' = signals
    BY <1>5 DEF PermitTaken
  <2> QED BY <1>2, <1>3, <2>1, <2>2 DEF Conserved
<1>6. ASSUME NEW H \in SUBSET Clients, PermitReleased(H)
      PROVE  count_' + Cardinality(GrantedSet)' = count_ + Cardinality(H) + 1
             /\ Cardinality(LostSet)' = l
  <2>0. Cardinality(H) \in Nat
    BY CardinalityFacts
  <2>1. CASE waiters_ = << >>
    BY <1>2, <1>6, <2>0, <2>1 DEF PermitReleased
  <2>2. CASE waiters_ # << >>
    <3>1. Head(waiters_) \in Clients \ H
      BY <1>6, <2>2 DEF PermitReleased
    <3>2. Cardinality(H \cup {Head(waiters_)}) = Cardinality(H) + 1
      BY <3>1, CardinalityFacts
    <3>3. GrantedSet' = H \cup {Head(waiters_)} /\ count_' = count_ /\ LostSet' = LostSet
      BY <1>6, <2>2 DEF PermitReleased
    <3>4. Cardinality(GrantedSet)' = Cardinality(H) + 1 /\ Cardinality(LostSet)' = l
      BY <3>2, <3>3
    <3> QED BY <1>2, <2>0, <3>3, <3>4
  <2> QED BY <2>1, <2>2
<1>7. ASSUME NEW c \in GrantedSet, PermitReleased(GrantedSet \ {c}), signals' = signals
      PROVE  Conserved'
  <2>1. Cardinality(GrantedSet \ {c}) = g - 1 /\ GrantedSet \ {c} \in SUBSET Clients
    BY <1>1, CardinalityFacts
  <2>2. count_' + Cardinality(GrantedSet)' = count_ + (g - 1) + 1 /\ Cardinality(LostSet)' = l
    BY <1>6, <1>7, <2>1
  <2> QED BY <1>2, <1>3, <1>7, <2>2 DEF Conserved
<1>8. CASE PermitReleased(GrantedSet) /\ signals' = signals + 1
  <2>1. count_' + Cardinality(GrantedSet)' = count_ + g + 1 /\ Cardinality(LostSet)' = l
    BY <1>1, <1>6, <1>8
  <2> QED BY <1>2, <1>3, <1>8, <2>1 DEF Conserved
<1>9. ASSUME NEW c \in GrantedSet, PermitLost(c) PROVE Conserved'
  <2>1. Cardinality(GrantedSet)' = g - 1 /\ Cardinality(LostSet)' = l + 1
    BY <1>1, <1>9, CardinalityFacts DEF PermitLost
  <2>2. count_' = count_ /\ signals' = signals
    BY <1>9 DEF PermitLost
  <2> QED BY <1>2, <1>3, <2>1, <2>2 DEF Conserved
<1> QED
  BY <1>4, <1>5, <1>7, <1>8, <1>9 DEF Effect

(* value(), the clients with a permit and the lost permits always add up   *)
(* to the permits put into circulation: release() hands over, cancel,      *)
(* shutdown and destruction neither duplicate nor drop any.                *)
THEOREM SemaphoreConservesPermits ==
  ASSUME NoShutdownRace, IsFiniteSet(Clients)
  PROVE  Spec => []PermitsConserved
<1>1. Init => Conserved
  <2> SUFFICES ASSUME Init PROVE Conserved
    OBVIOUS
  <2>1. LostSet = {} /\ GrantedSet = {} /\ count_ = InitialCount /\ signals = 0
    BY OpInitInv DEF Init
  <2>2. Cardinality({}) = 0
    BY FS_EmptySet
  <2> QED BY <2>1, <2>2, SemaphoreAssumption DEF Conserved
<1>2. IInv /\ Conserved /\ [Next]_vars => Conserved'
  <2>1. Conserved /\ UNCHANGED vars => Conserved'
    BY DEF vars, Conserved, GrantedSet, LostSet, Granted, Blocked
  <2>2. ASSUME IInv, Conserved, Next PROVE Conserved'
    BY <2>2, InvStep, ConservedStep DEF IInv
  <2> QED BY <2>1, <2>2
<1>3. IInv /\ Conserved => PermitsConserved
  BY ConservedMeans DEF IInv
<1> QED
  BY <1>1, <1>2, <1>3, Invariance, PTL DEF Spec

-----------------------------------------------------------------------------
(* The effects are the steps of FifoSemaphore.                             *)
LEMMA EffectIsFifo ==
  ASSUME IInv, Effect
  PROVE  [Abstract!Next]_<<count_, {c \in Clients : Granted(c)}, waiters_>>
<1>0. GrantedSet = {c \in Clients : Granted(c)} /\ GrantedSet' = {c \in Clients : Granted(c)'}
  BY DEF GrantedSet
<1>1. CASE PermitsStay
  <2>1. \A c : Contains(waiters_, c) <=> c \in Range(waiters_)
    BY QueueElements DEF IInv, TypeOK
  <2>2. ASSUME NEW c \in Clients \ (GrantedSet \cup Range(waiters_)),
               count_ = 0, waiters_' = Append(waiters_, c)
        PROVE  Abstract!Wait(c)
    <3>1. ~ Abstract!Contains(waiters_, c)
      BY <2>1, <2>2 DEF Contains, Abstract!Contains
    <3> QED BY <1>0, <1>1, <2>2, <3>1 DEF PermitsStay, Abstract!Wait
  <2>3. ASSUME NEW i \in DOMAIN waiters_, waiters_' = RemoveAt(waiters_, i)
        PROVE  Abstract!Leave(i)
    <3>1. RemoveAt(waiters_, i) = Abstract!RemoveAt(waiters_, i)
      BY DEF RemoveAt, Abstract!RemoveAt
    <3> QED BY <1>0, <1>1, <2>3, <3>1 DEF PermitsStay, Abstract!Leave
  <2>4. CASE waiters_' = << >>
    BY <1>0, <1>1, <2>4 DEF PermitsStay, Abstract!Next, Abstract!TurnAway
  <2>5. CASE UNCHANGED waiters_
    BY <1>0, <1>1, <2>5 DEF PermitsStay
  <2> QED
    BY <1>1, <2>2, <2>3, <2>4, <2>5 DEF PermitsStay, Abstract!Next
<1>2. ASSUME NEW c \in Clients, PermitTaken(c) PROVE Abstract!Take(c)
  BY <1>0, <1>2 DEF PermitTaken, Abstract!Take
<1>3. ASSUME NEW H, PermitReleased(H) PROVE Abstract!GiveBack(H)
  BY <1>0, <1>3 DEF PermitReleased, Abstract!GiveBack
<1>4. ASSUME NEW c \in Clients, PermitLost(c) PROVE Abstract!Lose(c)
  BY <1>0, <1>4 DEF PermitLost, Abstract!Lose
<1> QED
  BY <1>0, <1>1, <1>2, <1>3, <1>4 DEF Effect, Abstract!Next

(* Permits go to the clients in the order in which they came, whatever     *)
(* mixture of strands and threads waits, is cancelled or shut down.        *)
THEOREM SemaphoreIsFifo ==
  ASSUME NoShutdownRace
  PROVE  Spec => ImplementsFifoSemaphore
<1>1. Init => Abstract!Init
  BY OpInitInv DEF Init, Abstract!Init, GrantedSet
<1>2. IInv /\ [Next]_vars => [Abstract!Next]_<<count_, {c \in Clients : Granted(c)}, waiters_>>
  <2>1. UNCHANGED vars => UNCHANGED <<count_, {c \in Clients : Granted(c)}, waiters_>>
    BY DEF vars, Granted, Blocked
  <2> QED BY <2>1, InvStep, EffectIsFifo
<1> QED
  BY <1>1, <1>2, Invariance, PTL DEF Spec, ImplementsFifoSemaphore, Abstract!Spec

-----------------------------------------------------------------------------
(* guarded() with a semaphore.  Every step of the composition is a step of *)
(* the semaphore or changes only a phase.                                  *)
LEMMA GuardedStepIsSemaphoreStep == [GNext]_gvars => [Next]_vars
<1> SUFFICES ASSUME [GNext]_gvars PROVE [Next]_vars
  OBVIOUS
<1>0. GuardedStrands \subseteq Clients
  BY GuardedAssumption DEF Clients
<1>1. ASSUME NEW c \in GuardedStrands, GuardedAcquire(c) PROVE [Next]_vars
  BY <1>0, <1>1 DEF GuardedAcquire, Next, Call
<1>2. ASSUME NEW c \in GuardedStrands, GuardedStart(c) PROVE [Next]_vars
  BY <1>0, <1>2 DEF GuardedStart, Next, Call
<1>3. ASSUME NEW c \in GuardedStrands, GuardedResume(c) PROVE [Next]_vars
  BY <1>0, <1>3 DEF GuardedResume, Resume, Next, OpStep
<1>4. ASSUME NEW c \in GuardedStrands, GuardedDone(c) PROVE [Next]_vars
  BY <1>0, <1>4 DEF GuardedDone, Next, Call
<1>5. CASE Unguarded
  BY <1>0, <1>5 DEF Unguarded, Next, Call, OpStep
<1>6. CASE UNCHANGED gvars
  BY <1>6 DEF gvars, vars
<1> QED
  BY <1>1, <1>2, <1>3, <1>4, <1>5, <1>6 DEF GNext

(* guarded() uses the semaphore the way any client may: whatever is proved *)
(* of the semaphore holds with guarded operations among its clients.       *)
THEOREM GuardedSemaphoreIsSemaphore == GSpec => Spec
<1>1. GInit => Init
  BY DEF GInit
<1> QED
  BY <1>1, GuardedStepIsSemaphoreStep, PTL DEF GSpec, Spec

(* Where the operation of a strand is in each phase of its guarded().      *)
PhaseAt(p, q) ==
  /\ p \in {"none", "trying"} => q = "idle"
  /\ p = "waiting" => q \in {"queued", "posted", "gone"}
  /\ p \in {"running", "leaked"} => q = "acquired"

PhaseInv ==
  /\ phase \in [GuardedStrands -> Phases]
  /\ \A c \in GuardedStrands : PhaseAt(phase[c], pc[c])

(* Calls of others keep the operation of g.                                *)
LEMMA SemaphoreCallKeeps ==
  ASSUME TypeOK, NEW d \in Clients, NEW g \in Clients, g # d, Call(d)
  PROVE  Keeps(g)
<1>0. /\ "idle" \in Pcs /\ "acquired" \in Pcs /\ "ok" \in Results /\ "in_progress" \in Results
      /\ OpTypeOK
  BY DEF Pcs, Results, TypeOK
<1>1. CASE AsyncAcquire(d)
  BY <1>0, <1>1, CallKeeps DEF AsyncAcquire
<1>2. CASE TryAcquire(d) \/ AcquireSingleThreaded(d)
  BY <1>0, <1>2, CallKeeps DEF TryAcquire, AcquireSingleThreaded
<1>3. CASE Acquire(d)
  BY <1>0, <1>3, CallKeeps DEF Acquire
<1>4. CASE ReleaseOne(d)
  <2>1. waiters_ # << >> => {Head(waiters_)} \in SUBSET Clients
    BY LeaveFront DEF TypeOK
  <2>2. \E S \in SUBSET Clients : CompleteAndGo(S, "ok", d, "idle")
    BY <1>4, <2>1 DEF ReleaseOne
  <2> QED BY <1>0, <2>2, CallKeeps
<1>5. CASE Cancel(d)
  BY <1>0, <1>5, CompleteKeeps DEF Cancel
<1> QED
  BY <1>1, <1>2, <1>3, <1>4, <1>5 DEF Call, Release, Signal

LEMMA UnguardedKeeps ==
  ASSUME IInv, NEW g \in GuardedStrands, Unguarded
  PROVE  Keeps(g)
<1>0. GuardedStrands \subseteq Clients /\ TypeOK /\ OpTypeOK
  BY GuardedAssumption DEF Clients, IInv, TypeOK
<1>1. ASSUME NEW d \in Clients \ GuardedStrands, Call(d) \/ OpStep(d) PROVE Keeps(g)
  BY <1>0, <1>1, SemaphoreCallKeeps, OpStepKeeps
<1>2. ASSUME NEW d \in GuardedStrands, Cancel(d) PROVE Keeps(g)
  BY <1>0, <1>2, CompleteKeeps DEF Cancel
<1>3. ASSUME NEW d \in GuardedStrands, DestroyHandler(d) PROVE Keeps(g)
  BY <1>0, <1>3, OpStepKeeps
<1>4. CASE ShutdownStep
  <2>1. PICK Q : Q = Range(waiters_)
    OBVIOUS
  <2>2. LinkedInv(Q)
    BY <2>1 DEF IInv, QueueInv
  <2> QED BY <1>0, <1>4, <2>2, ShutdownKeeps
<1>5. CASE Shutdown
  BY <1>5 DEF Shutdown, ShutdownTake, Keeps
<1>6. CASE Destroy
  BY <1>0, <1>6, CompleteKeeps DEF Destroy, DestroyLists
<1> QED
  BY <1>1, <1>2, <1>3, <1>4, <1>5, <1>6 DEF Unguarded

(* PhaseInv is inductive given the invariant of the semaphore.             *)
LEMMA PhaseStep == IInv /\ PhaseInv /\ [GNext]_gvars => PhaseInv'
<1> SUFFICES ASSUME IInv, PhaseInv, [GNext]_gvars PROVE PhaseInv'
  OBVIOUS
<1>0. /\ GuardedStrands \subseteq Clients /\ GuardedStrands \subseteq Strands
      /\ TypeOK /\ OpTypeOK
  BY GuardedAssumption DEF Clients, IInv, TypeOK
<1>1. ASSUME NEW g \in GuardedStrands, Keeps(g), phase'[g] = phase[g]
      PROVE  PhaseAt(phase'[g], pc'[g])
  BY <1>1 DEF Keeps, PhaseInv, PhaseAt
<1>2. ASSUME NEW c \in GuardedStrands, NEW p, NEW q \in Phases, MoveOn(c, p, q),
             Call(c) \/ OpStep(c) \/ UNCHANGED vars, PhaseAt(q, pc'[c])
      PROVE  PhaseInv'
  <2>1. phase' \in [GuardedStrands -> Phases] /\ phase'[c] = q
    BY <1>2 DEF MoveOn, PhaseInv
  <2>2. ASSUME NEW g \in GuardedStrands, g # c PROVE PhaseAt(phase'[g], pc'[g])
    <3>1. phase'[g] = phase[g]
      BY <1>2, <2>2 DEF MoveOn, PhaseInv
    <3>2. Keeps(g)
      <4>1. CASE UNCHANGED vars
        BY <4>1 DEF vars, Keeps
      <4> QED BY <1>0, <1>2, <2>2, <4>1, SemaphoreCallKeeps, OpStepKeeps
    <3> QED
      BY <1>1, <3>1, <3>2
  <2> QED
    BY <1>2, <2>1, <2>2 DEF PhaseInv
<1>3. ASSUME NEW c \in GuardedStrands, GuardedStart(c) PROVE PhaseInv'
  <2>0. "running" \in Phases /\ "leaked" \in Phases /\ "trying" \in Phases
    BY DEF Phases
  <2>1. CASE TryAcquire(c) /\ StartOp(c, "none")
    <3>1. pc'[c] = "acquired" /\ Call(c)
      BY <1>0, <2>1 DEF TryAcquire, Finish, OpTypeOK, Call
    <3> QED
      BY <1>2, <2>0, <2>1, <3>1 DEF StartOp, PhaseAt
  <2>2. CASE pc[c] = "idle" /\ MoveOn(c, "none", "trying") /\ UNCHANGED vars
    BY <1>2, <2>0, <2>2 DEF vars, PhaseAt
  <2> QED
    BY <1>3, <2>1, <2>2 DEF GuardedStart
<1>4. ASSUME NEW c \in GuardedStrands, GuardedAcquire(c) PROVE PhaseInv'
  <2>1. c \notin InlineStrands
    BY GuardedAssumption
  <2>2. pc'[c] \in {"queued", "posted"}
    BY <1>0, <1>4, <2>1 DEF GuardedAcquire, AsyncAcquire, DispatchInSection, StartWaiting,
                             Finish, OpTypeOK
  <2> QED
    BY <1>2, <1>4, <2>2 DEF GuardedAcquire, Phases, PhaseAt, Call
<1>5. ASSUME NEW c \in GuardedStrands, GuardedResume(c) PROVE PhaseInv'
  <2>1. /\ OpStep(c)
        /\ \/ ec[c] = "ok" /\ StartOp(c, "waiting") /\ pc'[c] = "acquired"
           \/ ec[c] # "ok" /\ MoveOn(c, "waiting", "none") /\ pc'[c] = "idle"
    BY <1>0, <1>5 DEF GuardedResume, Resume, RunHandler, OpTypeOK, OpStep
  <2> QED
    BY <1>2, <2>1 DEF StartOp, Phases, PhaseAt
<1>6. ASSUME NEW c \in GuardedStrands, GuardedDone(c) PROVE PhaseInv'
  <2>1. pc[c] = "acquired" /\ ReleaseOne(c) /\ Call(c) /\ MoveOn(c, "running", "none")
    BY <1>6 DEF GuardedDone, Release, Call
  <2>2. waiters_ # << >> => Head(waiters_) # c
    <3>1. \A d \in Range(waiters_) : pc[d] # "acquired"
      BY DEF IInv, QueueInv, LinkedInv, Pending, Blocked
    <3> QED BY <1>0, <2>1, <3>1, LeaveFront DEF TypeOK
  <2>3. pc'[c] = "idle"
    BY <1>0, <2>1, <2>2 DEF ReleaseOne, CompleteAndGo
  <2> QED
    BY <1>2, <2>1, <2>3 DEF Phases, PhaseAt
<1>7. CASE Unguarded
  <2>1. phase' = phase
    BY <1>7 DEF Unguarded
  <2> QED
    BY <1>1, <1>7, <2>1, UnguardedKeeps DEF PhaseInv
<1>8. CASE UNCHANGED gvars
  BY <1>8 DEF gvars, PhaseInv
<1> QED
  BY <1>3, <1>4, <1>5, <1>6, <1>7, <1>8 DEF GNext

(* The number of guarded operations that run at a time, together with the  *)
(* other owners and the free permits, is bounded by the permits in         *)
(* circulation: the continuation of guarded() always has the permit that   *)
(* it will release, and no other client has it as well.                    *)
THEOREM GuardedSemaphoreBoundsParallelism ==
  ASSUME NoShutdownRace, IsFiniteSet(Clients)
  PROVE  GSpec => []ParallelismIsBounded
<1>1. GInit => PhaseInv
  BY GuardedAssumption
     DEF GInit, PhaseInit, PhaseInv, PhaseAt, Phases, Init, OpInit, Clients
<1>2. IInv /\ PermitsConserved /\ PhaseInv => ParallelismIsBounded
  <2> SUFFICES ASSUME IInv, PermitsConserved, PhaseInv PROVE ParallelismIsBounded
    OBVIOUS
  <2> DEFINE others == {c \in Clients \ GuardedStrands : Granted(c)}
             all == In("running") \cup In("leaked") \cup others \cup Lost
  <2>1. TypeOK /\ Conserved /\ GuardedStrands \subseteq Clients
    BY ConservedMeans, GuardedAssumption DEF IInv, Clients
  <2>2. \A c \in In("running") \cup In("leaked") : pc[c] = "acquired" /\ c \in Clients
    BY <2>1 DEF In, PhaseInv, PhaseAt
  <2>3. In("running") \cup In("leaked") \subseteq GrantedSet
    BY <2>2 DEF GrantedSet, Granted
  <2>4. others \subseteq GrantedSet /\ Lost = LostSet
    BY DEF GrantedSet, Lost, LostSet
  <2>5. all \subseteq GrantedSet \cup LostSet
    BY <2>3, <2>4
  <2> HIDE DEF all
  <2>6. IsFiniteSet(GrantedSet) /\ IsFiniteSet(LostSet)
    BY FS_Subset DEF GrantedSet, LostSet
  <2>7. /\ IsFiniteSet(GrantedSet \cup LostSet)
        /\ Cardinality(GrantedSet \cup LostSet)
             = Cardinality(GrantedSet) + Cardinality(LostSet) - Cardinality(GrantedSet \cap LostSet)
    BY <2>6, FS_Union
  <2>8. /\ Cardinality(GrantedSet) \in Nat /\ Cardinality(LostSet) \in Nat
        /\ Cardinality(GrantedSet \cap LostSet) \in Nat
    BY CardinalityFacts DEF GrantedSet, LostSet
  <2>9. IsFiniteSet(all) /\ Cardinality(all) <= Cardinality(GrantedSet \cup LostSet)
    BY <2>5, <2>7, FS_Subset
  <2>10. Cardinality(all) \in Nat /\ count_ \in Nat /\ signals \in Nat /\ InitialCount \in Nat
    BY <2>1, <2>9, FS_CardinalityType, SemaphoreAssumption DEF TypeOK
  <2>11. Cardinality(all) + count_ <= InitialCount + signals
    BY <2>1, <2>7, <2>8, <2>9, <2>10 DEF Conserved
  <2> QED
    BY <2>11 DEF ParallelismIsBounded, all
<1>3. Spec => []IInv /\ []PermitsConserved
  BY Invariance, SemaphoreConservesPermits
<1> QED
  BY <1>1, <1>2, <1>3, GuardedSemaphoreIsSemaphore, PhaseStep, PTL DEF GSpec
=============================================================================
