---------------------------- MODULE BarrierProofs ----------------------------
(***************************************************************************)
(* Proofs about the barrier, for any number of strands and threads and any *)
(* InitCount.                                                              *)
(***************************************************************************)
EXTENDS Barrier, WaitOpsProofs

(* Types, which need no other invariant.                                   *)
TypeInv ==
  /\ OpTypeOK
  /\ counter_ \in Int
  /\ waiters_ \in Seq(Clients)
  /\ arriving \in SUBSET Strands
  /\ rounds \in [Clients -> Nat]

(* The linked operations are those in waiters_, each once; a strand        *)
(* between the two sections of async_arrive has no operation yet.          *)
QueueInv ==
  /\ IsInjective(waiters_)
  /\ LinkedInv(Range(waiters_))
  /\ \A c \in arriving : pc[c] = "idle"

(* The counter is what is missing of the phase, until a last arrival was   *)
(* queued; from then on it stays below one and no phase ends.              *)
CountInv ==
  IF "missed" \in mishaps THEN counter_ <= 0
  ELSE counter_ > 0 /\ Len(waiters_) <= InitCount - counter_

IInv == TypeInv /\ QueueInv /\ RaceInv /\ CountInv

(* For PartiesStayInStep: as long as nobody left the queue early, everyone *)
(* who arrived in this phase is in it.                                     *)
StepInv ==
  "cancelled" \notin mishaps =>
    /\ life = "alive" /\ "missed" \notin mishaps => Len(waiters_) = InitCount - counter_
    /\ life # "down" => \A c, d \in Clients : rounds[c] = rounds[d]

-----------------------------------------------------------------------------
LEMMA LastArrivalType ==
  ASSUME TypeInv, NEW c \in Clients, NEW p \in Pcs, LastArrival(c, p),
         UNCHANGED <<arriving, mtx, dying, life, spurious, mt>>
  PROVE  TypeInv'
<1>1. pc' \in [Clients -> Pcs] /\ ec' \in [Clients -> Results] /\ rounds' \in [Clients -> Nat]
  BY CompletedPcType DEF TypeInv, OpTypeOK, LastArrival, Results
<1> QED BY <1>1, BarrierAssumption DEF TypeInv, OpTypeOK, LastArrival

LEMMA QueueArrivalType ==
  ASSUME TypeInv, NEW c \in Clients, QueueArrival(c), arriving' \in SUBSET Strands,
         UNCHANGED <<mtx, dying, life, spurious, mt>>
  PROVE  TypeInv'
<1>1. OpTypeOK'
  BY StartWaitingType DEF TypeInv, QueueArrival
<1>2. waiters_' \in Seq(Clients)
  BY JoinQueue DEF TypeInv, QueueArrival
<1> QED BY <1>1, <1>2 DEF TypeInv, QueueArrival

LEMMA TypeStep == TypeInv /\ [Next]_vars => TypeInv'
<1> SUFFICES ASSUME TypeInv, [Next]_vars PROVE TypeInv'
  OBVIOUS
<1>0. /\ {"idle", "acquired", "posted"} \subseteq Pcs
      /\ {"ok", "in_progress", "operation_aborted"} \subseteq Results
      /\ Strands \subseteq Clients
  BY DEF Pcs, Results, Clients
<1>1. ASSUME NEW c \in Clients, TryArrive(c) PROVE TypeInv'
  BY <1>0, <1>1, LastArrivalType DEF TryArrive
<1>2. ASSUME NEW c \in Clients, AsyncArrive(c) PROVE TypeInv'
  <2>1. CASE LastArrival(c, IF c \in InlineStrands THEN "acquired" ELSE "posted")
             /\ UNCHANGED arriving
    BY <1>0, <1>2, <2>1, LastArrivalType DEF AsyncArrive
  <2>2. CASE arriving' = arriving \cup {c} /\ UNCHANGED <<counter_, waiters_, rounds, pc, ec>>
    BY <1>2, <2>2 DEF AsyncArrive, TypeInv, OpTypeOK
  <2> QED BY <1>2, <2>1, <2>2 DEF AsyncArrive
<1>3. ASSUME NEW c \in Strands, AsyncArriveQueue(c) PROVE TypeInv'
  BY <1>0, <1>3, QueueArrivalType DEF AsyncArriveQueue, TypeInv
<1>4. ASSUME NEW c \in Clients, Arrive(c) PROVE TypeInv'
  BY <1>0, <1>4, LastArrivalType, QueueArrivalType DEF Arrive, TypeInv
<1>5. ASSUME NEW c \in Clients, ArriveSingleThreaded(c) PROVE TypeInv'
  <2>1. CASE LastArrival(c, "acquired")
    BY <1>0, <1>5, <2>1, LastArrivalType DEF ArriveSingleThreaded
  <2>2. CASE Finish(c, "in_progress", "idle") /\ UNCHANGED <<counter_, waiters_, rounds>>
    BY <1>0, <1>5, <2>2 DEF ArriveSingleThreaded, TypeInv, OpTypeOK, Finish
  <2> QED BY <1>5, <2>1, <2>2 DEF ArriveSingleThreaded
<1>6. ASSUME NEW c \in Clients, Proceed(c) PROVE TypeInv'
  BY <1>0, <1>6 DEF Proceed, TypeInv, OpTypeOK, bvars
<1>7. ASSUME NEW c \in Clients, Cancel(c) PROVE TypeInv'
  <2>1. OpTypeOK'
    BY <1>0, <1>7, CompleteAndGoType DEF Cancel, TypeInv
  <2>2. waiters_' \in Seq(Clients)
    BY <1>7, LeaveQueue DEF Cancel, TypeInv
  <2> QED BY <1>7, <2>1, <2>2 DEF Cancel, TypeInv
<1>8. ASSUME NEW c \in Clients, OpStep(c), UNCHANGED bvars PROVE TypeInv'
  BY <1>8, OpStepType DEF TypeInv, bvars
<1>9. CASE ShutdownStep /\ UNCHANGED bvars
  BY <1>9, ShutdownStepType DEF TypeInv, bvars
<1>10. CASE Shutdown
  BY <1>10, ShutdownTakeType DEF Shutdown, TypeInv
<1>11. CASE Destroy
  BY <1>11, DestroyListsType DEF Destroy, TypeInv
<1>12. CASE UNCHANGED vars
  BY <1>12 DEF vars, TypeInv, OpTypeOK
<1> QED
  BY <1>1, <1>2, <1>3, <1>4, <1>5, <1>6, <1>7, <1>8, <1>9, <1>10, <1>11, <1>12 DEF Next, Call

-----------------------------------------------------------------------------
(* What a step does to the phase and to the queue.                         *)

(* c arrives last: the phase ends for all who wait.                        *)
PhaseEnds(c) ==
  /\ counter_ = 1 /\ counter_' = InitCount
  /\ c \notin Range(waiters_) /\ waiters_' = << >>
  /\ rounds' = [d \in Clients |-> IF d \in Range(waiters_) \cup {c} THEN rounds[d] + 1
                                  ELSE rounds[d]]
  /\ life \in {"alive", "down"}
  /\ UNCHANGED <<mishaps, life>>

(* c arrives and waits, or should have been the last one.                  *)
Waits(c) ==
  /\ counter_' = counter_ - 1
  /\ c \notin Range(waiters_) /\ waiters_' = Append(waiters_, c)
  /\ \/ counter_ - 1 # 0 /\ UNCHANGED mishaps
     \/ counter_ - 1 <= 0 /\ mishaps' = mishaps \cup {"missed"}
  /\ UNCHANGED <<rounds, life>>

(* Somebody stops waiting.                                                 *)
Leaves ==
  /\ \E i \in DOMAIN waiters_ : waiters_' = RemoveAt(waiters_, i)
  /\ mishaps' = mishaps \cup {"cancelled"}
  /\ UNCHANGED <<counter_, rounds, life>>

(* The barrier goes down or is destroyed.                                  *)
TurnsAway ==
  /\ waiters_' = << >> /\ life = "alive" /\ life' # "alive"
  /\ UNCHANGED <<counter_, rounds, mishaps>>

Stays == UNCHANGED <<counter_, waiters_, rounds, mishaps, life>>

Effect == (\E c \in Clients : PhaseEnds(c) \/ Waits(c)) \/ Leaves \/ TurnsAway \/ Stays

-----------------------------------------------------------------------------
(* The inductive step.  The last arrival completes the whole queue.        *)
LEMMA LastArrivalStep ==
  ASSUME TypeInv, QueueInv, RaceInv, NEW c \in Clients, pc[c] = "idle", c \notin arriving,
         MayCall(c), NEW p \in {"acquired", "posted"}, LastArrival(c, p),
         UNCHANGED <<arriving, mishaps, mtx, dying, life, spurious, mt>>
  PROVE  QueueInv' /\ RaceInv' /\ PhaseEnds(c)
<1>1. PICK Q \in SUBSET Clients : Q = Range(waiters_)
  BY QueueElements DEF TypeInv
<1>2. OpInv(Q)
  BY <1>1 DEF TypeInv, QueueInv, OpInv
<1>3. \A d \in Clients : pc[d] = "idle" => d \notin Q
  BY <1>2, GrantedFacts DEF OpInv
<1>4. Settles(Q, "ok", c, p, "ok")
  <2>1. c \notin Q
    BY <1>3
  <2>2. /\ pc' = [d \in Clients |-> IF d \in Q THEN CompletedPc(d) ELSE IF d = c THEN p ELSE pc[d]]
        /\ ec' = [d \in Clients |-> IF d \in Q THEN "ok" ELSE IF d = c THEN "ok" ELSE ec[d]]
    BY <1>1, <2>1 DEF LastArrival
  <2> QED BY <2>2 DEF Settles
<1>5. mtx' \in Clients \cup {Free} /\ "ok" \in Results \ {"unset"} /\ Q \in SUBSET Q
  BY DEF TypeInv, OpTypeOK, Results
<1>6. OpInv(Q \ Q)'
  BY <1>2, <1>4, <1>5, SettleStep
<1>7. Range(waiters_)' = Q \ Q /\ IsInjective(waiters_)'
  BY EmptyQueue DEF LastArrival
<1>8. \A d \in arriving' : pc'[d] = "idle"
  <2>1. arriving \subseteq Clients
    BY DEF TypeInv, Clients
  <2>2. ASSUME NEW d \in arriving PROVE pc'[d] = "idle"
    <3>1. d \in Clients /\ d # c /\ pc[d] = "idle" /\ d \notin Q
      BY <1>3, <2>1 DEF QueueInv
    <3> QED BY <1>1, <3>1 DEF LastArrival
  <2> QED BY <2>2
<1>9. QueueInv' /\ RaceInv'
  BY <1>6, <1>7, <1>8 DEF OpInv, LinkedInv, QueueInv
<1>10. PhaseEnds(c)
  BY <1>1, <1>3 DEF LastArrival, PhaseEnds, MayCall, TypeInv
<1> QED BY <1>9, <1>10

LEMMA QueueArrivalStep ==
  ASSUME TypeInv, QueueInv, RaceInv, NEW c \in Clients, pc[c] = "idle",
         QueueArrival(c), arriving' = arriving \ {c},
         UNCHANGED <<mtx, dying, life, spurious, mt>>
  PROVE  /\ QueueInv' /\ RaceInv'
         /\ c \notin Range(waiters_) /\ waiters_' = Append(waiters_, c)
<1>1. PICK Q \in SUBSET Clients : Q = Range(waiters_)
  BY QueueElements DEF TypeInv
<1>2. OpInv(Q)
  BY <1>1 DEF TypeInv, QueueInv, OpInv
<1>3. c \notin Q /\ OpInv(Q \cup {c})'
  BY <1>2, JoinStep DEF QueueArrival
<1>4. Range(waiters_)' = Q \cup {c} /\ IsInjective(waiters_)'
  BY <1>1, <1>3, JoinQueue DEF TypeInv, QueueInv, QueueArrival
<1>5. \A d \in arriving' : pc'[d] = "idle"
  BY DEF QueueArrival, StartWaiting, QueueInv, TypeInv, OpTypeOK, Clients
<1> QED BY <1>1, <1>3, <1>4, <1>5 DEF OpInv, LinkedInv, QueueInv, QueueArrival

LEMMA QueueStep ==
  ASSUME NoShutdownRace, TypeInv, QueueInv, RaceInv, Next
  PROVE  QueueInv' /\ RaceInv' /\ Effect
<1>1. PICK Q \in SUBSET Clients : Q = Range(waiters_)
  BY QueueElements DEF TypeInv
<1>2. OpInv(Q)
  BY <1>1 DEF TypeInv, QueueInv, OpInv
<1>3. ASSUME OpInv(Q)', UNCHANGED waiters_, \A d \in arriving' : pc'[d] = "idle"
      PROVE  QueueInv' /\ RaceInv'
  <2>1. Range(waiters_)' = Q
    BY <1>1, <1>3
  <2> QED BY <1>3, <2>1 DEF OpInv, LinkedInv, QueueInv
<1>4. ASSUME OpInv({})', waiters_' = << >>, arriving' = {} PROVE QueueInv' /\ RaceInv'
  <2>1. Range(waiters_)' = {} /\ IsInjective(waiters_)'
    BY <1>4, EmptyQueue
  <2> QED BY <1>4, <2>1 DEF OpInv, LinkedInv, QueueInv
<1>5. ASSUME NEW c \in Clients, TryArrive(c) PROVE QueueInv' /\ RaceInv' /\ Effect
  BY <1>5, LastArrivalStep DEF TryArrive, MayArrive, Effect
<1>6. ASSUME NEW c \in Clients, AsyncArrive(c) PROVE QueueInv' /\ RaceInv' /\ Effect
  <2>1. CASE LastArrival(c, IF c \in InlineStrands THEN "acquired" ELSE "posted")
             /\ UNCHANGED arriving
    BY <1>6, <2>1, LastArrivalStep DEF AsyncArrive, MayArrive, Effect
  <2>2. CASE arriving' = arriving \cup {c} /\ UNCHANGED <<counter_, waiters_, rounds, pc, ec>>
    <3>1. UNCHANGED opvars
      BY <1>6, <2>2 DEF AsyncArrive, opvars
    <3>2. OpInv(Q)'
      BY <1>2, <3>1 DEF OpInv, OpTypeOK, LinkedInv, RaceInv, Pending, Blocked, opvars
    <3>3. \A d \in arriving' : pc'[d] = "idle"
      BY <1>6, <2>2 DEF AsyncArrive, MayArrive, QueueInv
    <3> QED BY <1>3, <1>6, <2>2, <3>2, <3>3 DEF AsyncArrive, Effect, Stays
  <2> QED BY <1>6, <2>1, <2>2 DEF AsyncArrive
<1>7. ASSUME NEW c \in Strands, AsyncArriveQueue(c) PROVE QueueInv' /\ RaceInv' /\ Effect
  <2>1. c \in Clients /\ pc[c] = "idle"
    BY <1>7 DEF AsyncArriveQueue, QueueInv, Clients
  <2>2. /\ QueueInv' /\ RaceInv'
        /\ c \notin Range(waiters_) /\ waiters_' = Append(waiters_, c)
    BY <1>7, <2>1, QueueArrivalStep DEF AsyncArriveQueue
  <2>3. counter_ \in Int
    BY DEF TypeInv
  <2>4. Waits(c)
    BY <1>7, <2>2, <2>3 DEF AsyncArriveQueue, QueueArrival, Waits
  <2> QED BY <2>1, <2>2, <2>4 DEF Effect
<1>8. ASSUME NEW c \in Clients, Arrive(c) PROVE QueueInv' /\ RaceInv' /\ Effect
  <2>1. CASE LastArrival(c, "acquired")
    BY <1>8, <2>1, LastArrivalStep DEF Arrive, MayArrive, Effect
  <2>2. CASE counter_ - 1 # 0 /\ QueueArrival(c)
    <3>1. arriving' = arriving \ {c}
      BY <1>8 DEF Arrive, MayArrive
    <3>2. /\ QueueInv' /\ RaceInv'
          /\ c \notin Range(waiters_) /\ waiters_' = Append(waiters_, c)
      BY <1>8, <2>2, <3>1, QueueArrivalStep DEF Arrive, MayArrive
    <3>3. Waits(c)
      BY <1>8, <2>2, <3>2 DEF Arrive, QueueArrival, Waits
    <3> QED BY <3>2, <3>3 DEF Effect
  <2> QED BY <1>8, <2>1, <2>2 DEF Arrive
<1>9. ASSUME NEW c \in Clients, ArriveSingleThreaded(c) PROVE QueueInv' /\ RaceInv' /\ Effect
  <2>1. CASE LastArrival(c, "acquired")
    BY <1>9, <2>1, LastArrivalStep DEF ArriveSingleThreaded, MayArrive, Effect
  <2>2. CASE Finish(c, "in_progress", "idle") /\ UNCHANGED <<counter_, waiters_, rounds>>
    <3>1. OpInv(Q)'
      BY <1>2, <1>9, <2>2, RefuseStep DEF ArriveSingleThreaded, MayArrive
    <3>2. \A d \in arriving' : pc'[d] = "idle"
      BY <1>9, <2>2 DEF ArriveSingleThreaded, Finish, QueueInv, TypeInv, OpTypeOK
    <3> QED BY <1>3, <1>9, <2>2, <3>1, <3>2 DEF ArriveSingleThreaded, Effect, Stays
  <2> QED BY <1>9, <2>1, <2>2 DEF ArriveSingleThreaded
<1>10. ASSUME NEW c \in Clients, Proceed(c) PROVE QueueInv' /\ RaceInv' /\ Effect
  <2>1. CompleteAndGo({}, "ok", c, "idle") /\ {} \in SUBSET Q
    BY <1>10 DEF Proceed, CompleteAndGo, TypeInv, OpTypeOK
  <2>2. OpInv(Q \ {})'
    BY <1>2, <1>10, <2>1, GrantOpsStep DEF Proceed
  <2>3. Q \ {} = Q
    OBVIOUS
  <2>4. \A d \in arriving' : pc'[d] = "idle"
    BY <1>10 DEF Proceed, QueueInv, TypeInv, OpTypeOK, bvars
  <2> QED BY <1>3, <1>10, <2>2, <2>3, <2>4 DEF Proceed, bvars, Effect, Stays
<1>11. ASSUME NEW c \in Clients, Cancel(c) PROVE QueueInv' /\ RaceInv' /\ Effect
  <2>1. PICK k \in DOMAIN waiters_ : waiters_[k] = c /\ waiters_' = RemoveAt(waiters_, k)
    BY <1>11 DEF Cancel
  <2>2. c \in Q
    BY <1>1, <2>1 DEF Range
  <2>3. OpInv(Q \ {c})'
    BY <1>2, <1>11, <2>2, CancelOpStep DEF Cancel
  <2>4. Range(waiters_)' = Q \ {c} /\ IsInjective(waiters_)'
    BY <1>1, <2>1, LeaveQueue DEF TypeInv, QueueInv
  <2>5. \A d \in arriving' : pc'[d] = "idle"
    BY <1>11 DEF Cancel, Complete, QueueInv, TypeInv, OpTypeOK, Clients
  <2>6. QueueInv' /\ RaceInv'
    BY <2>3, <2>4, <2>5 DEF OpInv, LinkedInv, QueueInv
  <2> QED BY <1>11, <2>1, <2>6 DEF Cancel, Effect, Leaves
<1>12. ASSUME NEW c \in Clients, OpStep(c), UNCHANGED bvars PROVE QueueInv' /\ RaceInv' /\ Effect
  <2>1. OpInv(Q)'
    BY <1>2, <1>12, OpStepInv
  <2>2. UNCHANGED life /\ \A d \in Clients : pc[d] = "idle" => pc'[d] = "idle"
    BY <1>12 DEF OpStep, InlineReturn, InlineReenter, RunHandler, DestroyHandler,
                 SpuriousWakeup, Recheck, SleepAgain, TypeInv, OpTypeOK
  <2>3. \A d \in arriving' : pc'[d] = "idle"
    BY <1>12, <2>2 DEF QueueInv, TypeInv, Clients, bvars
  <2> QED BY <1>3, <1>12, <2>1, <2>2, <2>3 DEF bvars, Effect, Stays
<1>13. CASE ShutdownStep /\ UNCHANGED bvars
  <2>1. OpInv(Q)'
    BY <1>2, <1>13, ShutdownStepInv
  <2>2. \A d \in Clients : Keeps(d)
    BY <1>2, <1>13, ShutdownKeeps DEF OpInv
  <2>3. \A d \in arriving' : pc'[d] = "idle"
    BY <1>13, <2>2 DEF Keeps, QueueInv, TypeInv, Clients, bvars
  <2>4. UNCHANGED life
    BY <1>13 DEF ShutdownStep, ShutdownAsync, ShutdownDone, ShutdownError, ShutdownNotify
  <2> QED BY <1>3, <1>13, <2>1, <2>3, <2>4 DEF bvars, Effect, Stays
<1>14. CASE Shutdown
  <2>1. PICK w \in Seq(Clients) : w = waiters_
    BY DEF TypeInv
  <2>2. OpInv({})'
    BY <1>1, <1>2, <1>14, <2>1, ShutdownTakeInv DEF Shutdown, QueueInv
  <2> QED BY <1>4, <1>14, <2>2 DEF Shutdown, ShutdownTake, Effect, TurnsAway
<1>15. CASE Destroy
  <2>1. OpInv({})'
    BY <1>1, <1>2, <1>15, DestroyListsInv DEF Destroy
  <2> QED BY <1>4, <1>15, <2>1 DEF Destroy, DestroyLists, Effect, TurnsAway
<1> QED
  BY <1>5, <1>6, <1>7, <1>8, <1>9, <1>10, <1>11, <1>12, <1>13, <1>14, <1>15 DEF Next, Call

-----------------------------------------------------------------------------
(* The counter: an arrival that finds it above one leaves it above zero,   *)
(* and every waiter was counted.                                           *)
LEMMA CountStep ==
  ASSUME TypeInv, QueueInv, CountInv, Effect
  PROVE  CountInv'
<1>0. counter_ \in Int /\ Len(waiters_) \in Nat /\ InitCount \in Nat /\ InitCount > 0
  BY BarrierAssumption DEF TypeInv
<1>1. Len(<< >>) = 0
  OBVIOUS
<1>2. ASSUME NEW c \in Clients, PhaseEnds(c) PROVE CountInv'
  BY <1>0, <1>1, <1>2 DEF PhaseEnds, CountInv
<1>3. ASSUME NEW c \in Clients, Waits(c) PROVE CountInv'
  <2>1. Len(waiters_') = Len(waiters_) + 1
    BY <1>3 DEF Waits, TypeInv
  <2> QED BY <1>0, <1>3, <2>1 DEF Waits, CountInv
<1>4. CASE Leaves
  <2>1. Len(waiters_') = Len(waiters_) - 1
    BY <1>4, RemoveAtProps DEF Leaves, TypeInv
  <2>2. counter_' = counter_ /\ ("missed" \in mishaps' <=> "missed" \in mishaps)
    BY <1>4 DEF Leaves
  <2> QED BY <1>0, <2>1, <2>2 DEF CountInv
<1>5. CASE TurnsAway \/ Stays
  BY <1>0, <1>1, <1>5 DEF TurnsAway, Stays, CountInv
<1> QED BY <1>2, <1>3, <1>4, <1>5 DEF Effect

(* Every step preserves the inductive invariant.                           *)
LEMMA InvStep ==
  ASSUME NoShutdownRace, IInv, Next
  PROVE  IInv' /\ Effect
BY TypeStep, QueueStep, CountStep DEF IInv

(* A new barrier is a whole phase short, and nobody waits.                 *)
LEMMA InvInit == Init => IInv
<1> SUFFICES ASSUME Init PROVE IInv
  OBVIOUS
<1>1. TypeInv
  BY OpInitType, BarrierAssumption DEF Init, TypeInv
<1>2. Range(waiters_) = {} /\ IsInjective(waiters_) /\ OpInv({}) /\ Len(waiters_) = 0
  BY EmptyQueue, OpInitInv DEF Init
<1>3. CountInv
  BY <1>2, BarrierAssumption DEF Init, CountInv
<1> QED BY <1>1, <1>2, <1>3 DEF IInv, QueueInv, OpInv, Init

(* The inductive invariant holds in every state of every behaviour.        *)
LEMMA Invariance ==
  ASSUME NoShutdownRace
  PROVE  Spec => []IInv
<1>1. IInv /\ [Next]_vars => IInv'
  <2>1. IInv /\ UNCHANGED vars => IInv'
    BY DEF vars, IInv, TypeInv, OpTypeOK, QueueInv, CountInv, LinkedInv, RaceInv, Pending, Blocked
  <2> QED BY <2>1, InvStep
<1> QED
  BY <1>1, InvInit, PTL DEF Spec

-----------------------------------------------------------------------------
(* Nobody is queued twice, every queued operation waits, and nobody who    *)
(* waits is lost.                                                          *)
THEOREM BarrierQueuesWaiters ==
  ASSUME NoShutdownRace
  PROVE  Spec => []WaitersAreQueued
<1>1. IInv => WaitersAreQueued
  BY DEF IInv, QueueInv, LinkedInv, WaitersAreQueued
<1> QED
  BY <1>1, Invariance, PTL

(* Until async_arrive falls into the gap between its two sections, the     *)
(* counter is positive and every waiter is counted in it.                  *)
THEOREM BarrierEndsPhases ==
  ASSUME NoShutdownRace
  PROVE  Spec => []LastArrivalEndsPhase
<1>1. IInv => LastArrivalEndsPhase
  BY DEF IInv, CountInv, LastArrivalEndsPhase
<1> QED
  BY <1>1, Invariance, PTL

-----------------------------------------------------------------------------
(* A barrier with as many parties as it counts: a phase that ends takes    *)
(* every one of them along.                                                *)
LEMMA PartiesStep ==
  ASSUME IsFiniteSet(Clients), Cardinality(Clients) = InitCount,
         IInv, StepInv, Effect
  PROVE  StepInv'
<1>0. counter_ \in Int /\ Len(waiters_) \in Nat /\ InitCount \in Nat /\ Len(<< >>) = 0
  BY BarrierAssumption DEF IInv, TypeInv
<1>1. ASSUME NEW c \in Clients, PhaseEnds(c), "cancelled" \notin mishaps PROVE StepInv'
  <2>1. life' = life /\ "missed" \notin mishaps' /\ Len(waiters_') = InitCount - counter_'
    BY <1>0, <1>1 DEF PhaseEnds, IInv, CountInv
  <2>2. ASSUME life # "down" PROVE \A d, e \in Clients : rounds'[d] = rounds'[e]
    <3>1. Len(waiters_) = InitCount - 1
      BY <1>0, <1>1, <2>1, <2>2 DEF PhaseEnds, StepInv
    <3>2. /\ IsFiniteSet(Range(waiters_)) /\ Cardinality(Range(waiters_)) = InitCount - 1
          /\ Range(waiters_) \subseteq Clients
      BY <3>1, QueueLength, QueueElements DEF IInv, TypeInv, QueueInv
    <3>3. Cardinality(Range(waiters_) \cup {c}) = InitCount
      <4>1. c \notin Range(waiters_)
        BY <1>1 DEF PhaseEnds
      <4>2. Cardinality(Range(waiters_) \cup {c}) = Cardinality(Range(waiters_)) + 1
        BY <3>2, <4>1, FS_AddElement
      <4> QED BY <1>0, <3>2, <4>2
    <3>4. Range(waiters_) \cup {c} = Clients
      BY <3>2, <3>3, FS_Subset
    <3>5. rounds' = [d \in Clients |-> rounds[d] + 1]
      BY <1>1, <3>4 DEF PhaseEnds
    <3> QED BY <1>1, <2>2, <3>5 DEF StepInv
  <2> QED BY <2>1, <2>2 DEF StepInv
<1>2. ASSUME NEW c \in Clients, Waits(c) PROVE StepInv'
  <2>1. Len(waiters_') = Len(waiters_) + 1
    BY <1>2 DEF Waits, IInv, TypeInv
  <2> QED BY <1>0, <1>2, <2>1 DEF Waits, StepInv
<1>3. CASE Leaves
  BY <1>3 DEF Leaves, StepInv
<1>4. CASE TurnsAway
  BY <1>4 DEF TurnsAway, StepInv
<1>5. CASE Stays
  BY <1>5 DEF Stays, StepInv
<1>6. ASSUME NEW c \in Clients, PhaseEnds(c), "cancelled" \in mishaps PROVE StepInv'
  BY <1>6 DEF PhaseEnds, StepInv
<1> QED BY <1>1, <1>2, <1>3, <1>4, <1>5, <1>6 DEF Effect

(* InitCount parties pass the same number of phases, even if an arrival is *)
(* missed; only a cancellation or a shutdown can separate them.            *)
THEOREM BarrierKeepsStep ==
  ASSUME NoShutdownRace, IsFiniteSet(Clients), Cardinality(Clients) = InitCount
  PROVE  Spec => []PartiesStayInStep
<1>1. Init => StepInv
  <2>1. Len(<< >>) = 0
    OBVIOUS
  <2> QED BY <2>1, BarrierAssumption DEF Init, StepInv
<1>2. IInv /\ StepInv /\ [Next]_vars => StepInv'
  <2>1. StepInv /\ UNCHANGED vars => StepInv'
    BY DEF StepInv, vars
  <2>2. ASSUME IInv, StepInv, Next PROVE StepInv'
    BY <2>2, InvStep, PartiesStep
  <2> QED BY <2>1, <2>2
<1>3. StepInv => PartiesStayInStep
  BY DEF StepInv, PartiesStayInStep
<1> QED
  BY <1>1, <1>2, <1>3, Invariance, PTL DEF Spec

-----------------------------------------------------------------------------
(* The effects are the steps of PhaseBarrier.                              *)
LEMMA EffectIsPhase ==
  ASSUME IInv, Effect
  PROVE  [Abstract!Next \/ "missed" \in mishaps']_<<counter_, waiters_>>
<1>0. counter_ \in Int /\ InitCount \in Nat /\ Range(<< >>) = {}
  BY BarrierAssumption, EmptyQueue DEF IInv, TypeInv
<1>1. ASSUME NEW c \in Clients, PhaseEnds(c) PROVE Abstract!ArriveLast
  BY <1>0, <1>1 DEF PhaseEnds, Abstract!ArriveLast
<1>2. ASSUME NEW c \in Clients, Waits(c), "missed" \notin mishaps' PROVE Abstract!ArriveAndWait(c)
  <2>1. counter_ > 1 /\ counter_' = counter_ - 1
    BY <1>0, <1>2 DEF Waits, IInv, CountInv
  <2>2. c \notin Range(waiters_) /\ Range(waiters_)' = Range(waiters_) \cup {c}
    BY <1>2, JoinQueue DEF Waits, IInv, TypeInv
  <2> QED BY <1>0, <2>1, <2>2 DEF Abstract!ArriveAndWait
<1>3. ASSUME Leaves PROVE \E c \in Clients : Abstract!Leave(c)
  <2>1. PICK k \in DOMAIN waiters_ : waiters_' = RemoveAt(waiters_, k)
    BY <1>3 DEF Leaves
  <2>2. Range(waiters_)' = Range(waiters_) \ {waiters_[k]} /\ waiters_[k] \in Clients
    BY <2>1, LeaveQueue DEF IInv, TypeInv, QueueInv
  <2> QED BY <1>3, <2>2 DEF Leaves, Abstract!Leave
<1>4. CASE TurnsAway
  BY <1>0, <1>4 DEF TurnsAway, Abstract!TurnAway, Abstract!Next
<1>5. CASE Stays
  BY <1>5 DEF Stays
<1> QED BY <1>1, <1>2, <1>3, <1>4, <1>5 DEF Effect, Abstract!Next

(* The barrier implements PhaseBarrier up to the first missed arrival.     *)
THEOREM BarrierIsPhased ==
  ASSUME NoShutdownRace
  PROVE  Spec => ImplementsPhaseBarrier
<1>1. Init => Abstract!Init
  BY EmptyQueue, BarrierAssumption DEF Init, Abstract!Init
<1>2. IInv /\ [Next]_vars => [Abstract!Next \/ "missed" \in mishaps']_<<counter_, waiters_>>
  <2>1. UNCHANGED vars => UNCHANGED <<counter_, waiters_>>
    BY DEF vars
  <2> QED BY <2>1, InvStep, EffectIsPhase
<1> QED
  BY <1>1, <1>2, Invariance, PTL DEF Spec, ImplementsPhaseBarrier
=============================================================================
