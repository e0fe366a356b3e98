---------------------------- MODULE WaitOpsProofs ----------------------------
(***************************************************************************)
(* What the operations of WaitOps do to the inductive invariants of the    *)
(* primitives.  Each primitive links operations in one or two queues; here *)
(* Q is the set of all of them, and the lemmas say what is left of the     *)
(* invariant, and who is granted what, after an operation was linked,      *)
(* completed, shut down or destroyed.                                      *)
(***************************************************************************)
EXTENDS WaitOps, QueueLemmas

(* The one condition: a context is not destroyed while condition variables *)
(* wake up spuriously.  MutexShutdownRace.cfg shows what happens without.  *)
NoShutdownRace == "shutdown" \in Ends => MaxSpurious = 0

(* The linked operations wait, who is in dying has a frame or a model that *)
(* shutdown() may still touch, nobody is in both, and nobody waits         *)
(* unlisted.                                                               *)
LinkedInv(Q) ==
  /\ IsInjective(dying)
  /\ Q \cap Range(dying) = {}
  /\ \A c \in Q : Pending(c)
  /\ \A c \in Range(dying) : /\ pc[c] \in {"queued", "sleeping"}
                             /\ ec[c] \in {"none", "unset", "shut_down"}
  /\ \A c \in Clients : Pending(c) => c \in Q \cup Range(dying)

(* The half-finished shutdown() of a sync operation meets only sleepers.   *)
RaceInv ==
  /\ \A c \in Clients : ec[c] = "unset" => pc[c] = "sleeping" /\ life = "down"
  /\ dying # << >> => life = "down"
  /\ life = "down" => "shutdown" \in Ends
  /\ MaxSpurious = 0 => \A c \in Clients :
       pc[c] # "rechecked" /\ (pc[c] = "waking" => ec[c] # "none")

OpInv(Q) == OpTypeOK /\ LinkedInv(Q) /\ RaceInv

(* The clients that succeeded or are about to learn that they did.         *)
GrantedSet == {c \in Clients : Granted(c)}

(* The clients whose success was destroyed with their handler.             *)
LostSet == {c \in Clients : pc[c] = "gone" /\ ec[c] = "ok"}

-----------------------------------------------------------------------------
(* Where completing an operation leaves its client.                        *)
LEMMA CompletedPcType ==
  ASSUME pc \in [Clients -> Pcs], NEW c \in Clients
  PROVE  CompletedPc(c) \in Pcs
BY DEF CompletedPc, Pcs

LEMMA CompletedPcPending ==
  ASSUME NEW c \in Clients, Pending(c)
  PROVE  /\ CompletedPc(c) \in {"posted", "waking", "rechecked"}
         /\ CompletedPc(c) = "rechecked" => pc[c] = "rechecked"
BY DEF CompletedPc, Pending, Blocked

-----------------------------------------------------------------------------
(* Types, which need no other invariant.                                   *)
LEMMA OpStepType ==
  ASSUME OpTypeOK, NEW c \in Clients, OpStep(c)
  PROVE  OpTypeOK'
BY WaitOpsAssumption
   DEF OpTypeOK, OpStep, InlineReturn, InlineReenter, RunHandler, DestroyHandler,
       SpuriousWakeup, Recheck, SleepAgain, Pcs

LEMMA ShutdownStepType ==
  ASSUME OpTypeOK, ShutdownStep
  PROVE  OpTypeOK'
<1> USE DEF OpTypeOK
<1>0. dying # << >> /\ dying' \in {dying, Tail(dying)}
  BY DEF ShutdownStep, ShutdownAsync, ShutdownDone, ShutdownError, ShutdownNotify
<1>1. Head(dying) \in Clients /\ dying' \in Seq(Clients)
  BY <1>0
<1>2. CompletedPc(Head(dying)) \in Pcs
  BY <1>1, CompletedPcType
<1>3. pc' \in [Clients -> Pcs] /\ ec' \in [Clients -> Results]
  BY <1>1, <1>2 DEF ShutdownStep, ShutdownAsync, ShutdownDone, ShutdownError,
                    ShutdownNotify, Finish, Pcs, Results
<1> QED
  BY <1>1, <1>3 DEF ShutdownStep, ShutdownAsync, ShutdownDone, ShutdownError, ShutdownNotify

LEMMA ShutdownTakeType ==
  ASSUME OpTypeOK, NEW w \in Seq(Clients), ShutdownTake(w)
  PROVE  OpTypeOK'
BY DEF OpTypeOK, ShutdownTake

LEMMA DestroyListsType ==
  ASSUME OpTypeOK, NEW S, DestroyLists(S)
  PROVE  OpTypeOK'
BY CompletedPcType DEF OpTypeOK, DestroyLists, Complete, Results

LEMMA OpInitType == OpInit => OpTypeOK
<1>1. "idle" \in Pcs /\ "none" \in Results /\ 0 \in 0 .. MaxSpurious /\ << >> \in Seq(Clients)
  BY WaitOpsAssumption DEF Pcs, Results
<1> QED
  BY <1>1 DEF OpInit, OpTypeOK

(* An initiation that ends at once or waits, and a completion.             *)
LEMMA FinishType ==
  ASSUME OpTypeOK, NEW c \in Clients, NEW f \in Results, NEW p \in Pcs, Finish(c, f, p),
         mtx' \in Clients \cup {Free}, UNCHANGED <<dying, life, spurious, mt>>
  PROVE  OpTypeOK'
BY DEF OpTypeOK, Finish

LEMMA DispatchType ==
  ASSUME OpTypeOK, NEW c \in Clients, DispatchInSection(c), UNCHANGED <<dying, life, spurious, mt>>
  PROVE  OpTypeOK'
BY DEF OpTypeOK, DispatchInSection, Finish, Pcs, Results

LEMMA StartWaitingType ==
  ASSUME OpTypeOK, NEW c \in Clients, StartWaiting(c), UNCHANGED <<mtx, dying, life, spurious, mt>>
  PROVE  OpTypeOK'
BY DEF OpTypeOK, StartWaiting, Pcs, Results

LEMMA CompleteAndGoType ==
  ASSUME OpTypeOK, NEW c \in Clients, NEW S, NEW f \in Results, NEW p \in Pcs,
         Complete(S, f) \/ CompleteAndGo(S, f, c, p),
         UNCHANGED <<mtx, dying, life, spurious, mt>>
  PROVE  OpTypeOK'
BY CompletedPcType DEF OpTypeOK, Complete, CompleteAndGo
-----------------------------------------------------------------------------
(* The invariant.  A linked operation is completed with e, or several are, *)
(* while client c, if it is not one of them, goes from idle or acquired to *)
(* p with result f: the shape of every initiation that ends at once, of    *)
(* every handover, notification and cancellation.                          *)
Settles(S, e, c, p, f) ==
  /\ pc' = [d \in Clients |-> IF d \in S THEN CompletedPc(d) ELSE IF d = c THEN p ELSE pc[d]]
  /\ ec' = [d \in Clients |-> IF d \in S THEN e ELSE IF d = c THEN f ELSE ec[d]]
  /\ UNCHANGED <<dying, life, spurious, mt>>

LEMMA SettleStep ==
  ASSUME NEW Q, NEW S \in SUBSET Q, Q \subseteq Clients, OpInv(Q),
         NEW c \in Clients, c \in S \/ pc[c] \in {"idle", "acquired"},
         NEW e \in {"ok", "operation_aborted"},
         NEW p \in {"idle", "acquired", "posted", "inline"},
         NEW f \in Results \ {"unset"},
         Settles(S, e, c, p, f), mtx' \in Clients \cup {Free}
  PROVE  OpInv(Q \ S)'
<1> USE DEF OpInv, OpTypeOK
<1>1. \A d \in S : Pending(d) /\ d \in Clients
  BY DEF LinkedInv
<1>2. \A d \in S : /\ CompletedPc(d) \in {"posted", "waking", "rechecked"}
                   /\ CompletedPc(d) = "rechecked" => pc[d] = "rechecked"
  BY <1>1, CompletedPcPending
<1>3. /\ pc' = [d \in Clients |-> IF d \in S THEN CompletedPc(d) ELSE IF d = c THEN p ELSE pc[d]]
      /\ ec' = [d \in Clients |-> IF d \in S THEN e ELSE IF d = c THEN f ELSE ec[d]]
      /\ UNCHANGED <<dying, life, spurious, mt>>
  BY DEF Settles
<1>4. Range(dying) \subseteq Clients
  BY QueueElements
<1>5. OpTypeOK'
  <2>1. pc' \in [Clients -> Pcs]
    BY <1>2, <1>3 DEF Pcs
  <2>2. ec' \in [Clients -> Results]
    BY <1>3 DEF Results
  <2> QED BY <1>3, <2>1, <2>2
<1>6. c \in S \/ ~ Pending(c)
  BY DEF Pending, Blocked
<1>7. c \notin Range(dying)
  BY <1>1 DEF LinkedInv
<1>8. LinkedInv(Q \ S)'
  <2>1. \A d \in Clients : Pending(d)' <=> Pending(d) /\ d \notin S
    BY <1>2, <1>3, <1>6 DEF Pending, Blocked
  <2>2. \A d \in Range(dying) : pc'[d] = pc[d] /\ ec'[d] = ec[d]
    BY <1>3, <1>4, <1>7 DEF LinkedInv
  <2> QED BY <1>3, <1>4, <2>1, <2>2 DEF LinkedInv
<1>9. RaceInv'
  BY <1>1, <1>2, <1>3 DEF RaceInv, Pending, Blocked
<1> QED BY <1>5, <1>8, <1>9

(* The client of a linked operation has been granted nothing yet, nor has  *)
(* an idle one.                                                            *)
LEMMA GrantedFacts ==
  ASSUME NEW Q, Q \subseteq Clients, LinkedInv(Q)
  PROVE  /\ Q \cap GrantedSet = {} /\ GrantedSet \subseteq Clients
         /\ \A c \in Clients : /\ pc[c] = "idle" => c \notin GrantedSet \cup Q
                               /\ pc[c] = "acquired" => c \in GrantedSet /\ c \notin Q
BY DEF LinkedInv, GrantedSet, Granted, Pending, Blocked

(* An initiation succeeds at once, or fails at once.                       *)
LEMMA GrantStep ==
  ASSUME NEW Q, Q \subseteq Clients, OpInv(Q), NEW c \in Clients, pc[c] = "idle",
         DispatchInSection(c) \/ (Finish(c, "ok", "acquired") /\ UNCHANGED mtx),
         UNCHANGED <<dying, life, spurious, mt>>
  PROVE  OpInv(Q)' /\ LostSet' = LostSet /\ GrantedSet' = GrantedSet \cup {c}
<1> USE DEF OpInv, OpTypeOK
<1>1. PICK p \in {"acquired", "posted", "inline"} : Finish(c, "ok", p)
  BY DEF DispatchInSection
<1>2. Settles({}, "ok", c, p, "ok") /\ mtx' \in Clients \cup {Free}
  BY <1>1 DEF Settles, Finish, DispatchInSection
<1>3. Q \ {} = Q /\ {} \in SUBSET Q /\ "ok" \in Results \ {"unset"}
  BY DEF Results
<1>4. OpInv(Q \ {})'
  <2> HIDE DEF OpInv, OpTypeOK
  <2> QED BY <1>1, <1>2, <1>3, SettleStep
<1>5. LostSet' = LostSet /\ GrantedSet' = GrantedSet \cup {c}
  BY <1>1 DEF Finish, LostSet, GrantedSet, Granted, Blocked
<1> QED
  BY <1>3, <1>4, <1>5

LEMMA RefuseStep ==
  ASSUME NEW Q, Q \subseteq Clients, OpInv(Q), NEW c \in Clients, pc[c] = "idle",
         Finish(c, "in_progress", "idle"), UNCHANGED <<mtx, dying, life, spurious, mt>>
  PROVE  OpInv(Q)' /\ LostSet' = LostSet /\ GrantedSet' = GrantedSet
<1> USE DEF OpInv, OpTypeOK
<1>1. Settles({}, "ok", c, "idle", "in_progress") /\ mtx' \in Clients \cup {Free}
  BY DEF Settles, Finish
<1>2. Q \ {} = Q /\ {} \in SUBSET Q /\ "in_progress" \in Results \ {"unset"}
  BY DEF Results
<1>3. OpInv(Q \ {})'
  <2> HIDE DEF OpInv, OpTypeOK
  <2> QED BY <1>1, <1>2, SettleStep
<1>4. LostSet' = LostSet /\ GrantedSet' = GrantedSet
  BY DEF Finish, LostSet, GrantedSet, Granted, Blocked
<1> QED
  BY <1>2, <1>3, <1>4

(* A linked operation is cancelled, or some are granted what they wait for *)
(* (by a client that may give up what it was granted itself).              *)
LEMMA CancelOpStep ==
  ASSUME NEW Q, Q \subseteq Clients, OpInv(Q), NEW c \in Q, Complete({c}, "operation_aborted"),
         UNCHANGED <<mtx, dying, life, spurious, mt>>
  PROVE  OpInv(Q \ {c})' /\ LostSet' = LostSet /\ GrantedSet' = GrantedSet
<1> USE DEF OpInv, OpTypeOK
<1>1. Settles({c}, "operation_aborted", c, "idle", "none") /\ mtx' \in Clients \cup {Free}
  BY DEF Settles, Complete
<1>2. {c} \in SUBSET Q /\ "none" \in Results \ {"unset"} /\ c \in Clients
  BY DEF Results
<1>3. OpInv(Q \ {c})'
  <2> HIDE DEF OpInv, OpTypeOK
  <2> QED BY <1>1, <1>2, SettleStep
<1>4. Pending(c) /\ CompletedPc(c) \in {"posted", "waking", "rechecked"}
  BY <1>2, CompletedPcPending DEF LinkedInv
<1>5. LostSet' = LostSet /\ GrantedSet' = GrantedSet
  BY <1>2, <1>4 DEF Complete, LostSet, GrantedSet, Granted, Pending, Blocked
<1> QED
  BY <1>3, <1>5

LEMMA GrantOpsStep ==
  ASSUME NEW Q, Q \subseteq Clients, OpInv(Q), NEW S \in SUBSET Q, NEW c \in Clients,
         \/ pc[c] \in {"idle", "acquired"} /\ CompleteAndGo(S, "ok", c, "idle")
         \/ c \in S /\ Complete(S, "ok"),
         UNCHANGED <<mtx, dying, life, spurious, mt>>
  PROVE  /\ OpInv(Q \ S)' /\ LostSet' = LostSet
         /\ GrantedSet' = (GrantedSet \ {c}) \cup S
<1> USE DEF OpInv, OpTypeOK
<1>1. PICK f \in Results \ {"unset"} : f = ec[c]
  BY DEF RaceInv, LinkedInv, Pending, Blocked
<1>2. /\ pc' = [d \in Clients |-> IF d \in S THEN CompletedPc(d) ELSE IF d = c THEN "idle" ELSE pc[d]]
      /\ ec' = [d \in Clients |-> IF d \in S THEN "ok" ELSE IF d = c THEN f ELSE ec[d]]
  BY <1>1 DEF Complete, CompleteAndGo
<1>3. Settles(S, "ok", c, "idle", f) /\ mtx' \in Clients \cup {Free}
  BY <1>2 DEF Settles
<1>4. OpInv(Q \ S)'
  <2> HIDE DEF OpInv, OpTypeOK
  <2> QED BY <1>3, SettleStep
<1>5. \A d \in S : Pending(d) /\ CompletedPc(d) \in {"posted", "waking", "rechecked"}
  BY CompletedPcPending DEF LinkedInv
<1>6. LostSet' = LostSet /\ GrantedSet' = (GrantedSet \ {c}) \cup S
  BY <1>2, <1>5 DEF LostSet, GrantedSet, Granted, Pending, Blocked
<1> QED
  BY <1>4, <1>6

(* An operation is linked.                                                 *)
LEMMA JoinStep ==
  ASSUME NEW Q, Q \subseteq Clients, OpInv(Q), NEW c \in Clients, pc[c] = "idle",
         StartWaiting(c), UNCHANGED <<mtx, dying, life, spurious, mt>>
  PROVE  /\ c \notin Q
         /\ OpInv(Q \cup {c})'
         /\ LostSet' = LostSet
         /\ GrantedSet' = GrantedSet
<1> USE DEF OpInv, OpTypeOK
<1>1. /\ pc' = [pc EXCEPT ![c] = IF c \in Strands THEN "queued" ELSE "sleeping"]
      /\ ec' = [ec EXCEPT ![c] = "none"]
  BY DEF StartWaiting
<1>2. c \notin Q /\ c \notin Range(dying)
  BY DEF LinkedInv, Pending, Blocked
<1>3. Range(dying) \subseteq Clients
  BY QueueElements
<1>4. LinkedInv(Q \cup {c})'
  BY <1>1, <1>2, <1>3 DEF LinkedInv, Pending, Blocked
<1>5. RaceInv'
  BY <1>1 DEF RaceInv
<1>6. LostSet' = LostSet /\ GrantedSet' = GrantedSet
  BY <1>1 DEF LostSet, GrantedSet, Granted, Blocked
<1> QED BY <1>2, <1>4, <1>5, <1>6, StartWaitingType
(* The steps of an operation between two calls: nobody is granted anything *)
(* and only a destroyed handler takes a success with it.                   *)
LEMMA OpStepInv ==
  ASSUME NoShutdownRace, NEW Q, Q \subseteq Clients, OpInv(Q), NEW c \in Clients, OpStep(c)
  PROVE  OpInv(Q)'
<1> USE DEF OpInv, OpTypeOK
<1>1. /\ UNCHANGED <<ec, dying, life>>
      /\ \A d \in Clients \ {c} : pc'[d] = pc[d]
      /\ \/ pc[c] = "inline" /\ pc'[c] \in {"acquired", "stuck"}
         \/ pc[c] = "posted" /\ pc'[c] \in {"acquired", "idle", "gone"}
         \/ pc[c] = "sleeping" /\ pc'[c] = "waking" /\ MaxSpurious # 0
         \/ pc[c] = "waking" /\ ec[c] # "none" /\ pc'[c] \in {"acquired", "idle"}
         \/ pc[c] = "waking" /\ ec[c] = "none" /\ pc'[c] = "rechecked"
         \/ pc[c] = "rechecked" /\ pc'[c] = "sleeping"
  <2>1. CASE InlineReturn(c) \/ InlineReenter(c) \/ SleepAgain(c)
    BY <2>1 DEF InlineReturn, InlineReenter, SleepAgain
  <2>2. CASE RunHandler(c) \/ DestroyHandler(c)
    BY <2>2 DEF RunHandler, DestroyHandler
  <2>3. CASE SpuriousWakeup(c)
    BY <2>3 DEF SpuriousWakeup
  <2>4. CASE Recheck(c)
    BY <2>4 DEF Recheck
  <2> QED BY <2>1, <2>2, <2>3, <2>4 DEF OpStep
<1>2. Range(dying) \subseteq Clients /\ (Range(dying) = {} <=> dying = << >>)
  BY QueueElements
<1>3. c \in Range(dying) => MaxSpurious = 0
  BY <1>2 DEF RaceInv, NoShutdownRace
<1>4. c \notin Range(dying)
  BY <1>1, <1>3 DEF LinkedInv
<1>5. LinkedInv(Q)'
  <2>1. \A d \in Clients : Pending(d)' <=> Pending(d)
    BY <1>1 DEF Pending, Blocked
  <2> QED BY <1>1, <1>2, <1>4, <2>1 DEF LinkedInv
<1>6. RaceInv'
  <2>1. /\ \A d \in Clients : ec'[d] = "unset" => pc'[d] = "sleeping" /\ life' = "down"
        /\ dying' # << >> => life' = "down"
        /\ life' = "down" => "shutdown" \in Ends
    BY <1>1 DEF RaceInv, NoShutdownRace
  <2>2. MaxSpurious = 0 => \A d \in Clients :
          pc'[d] # "rechecked" /\ (pc'[d] = "waking" => ec'[d] # "none")
    BY <1>1 DEF RaceInv
  <2> QED BY <2>1, <2>2 DEF RaceInv
<1> QED BY <1>5, <1>6, OpStepType

LEMMA OpStepGrants ==
  ASSUME OpTypeOK, RaceInv, NEW c \in Clients, OpStep(c)
  PROVE  \/ LostSet' = LostSet /\ GrantedSet' = GrantedSet
         \/ /\ life = "down" /\ c \in GrantedSet \ LostSet
            /\ LostSet' = LostSet \cup {c} /\ GrantedSet' = GrantedSet \ {c}
<1> USE DEF OpTypeOK
<1>1. CASE InlineReturn(c) \/ InlineReenter(c) \/ SleepAgain(c)
  BY <1>1 DEF InlineReturn, InlineReenter, SleepAgain, GrantedSet, Granted, Blocked, LostSet
<1>2. CASE RunHandler(c)
  BY <1>2 DEF RunHandler, GrantedSet, Granted, Blocked, LostSet
<1>3. CASE DestroyHandler(c)
  BY <1>3 DEF DestroyHandler, GrantedSet, Granted, Blocked, LostSet
<1>4. CASE SpuriousWakeup(c)
  BY <1>4 DEF SpuriousWakeup, GrantedSet, Granted, Blocked, LostSet
<1>5. CASE Recheck(c)
  BY <1>5 DEF Recheck, GrantedSet, Granted, Blocked, LostSet, RaceInv
<1> QED BY <1>1, <1>2, <1>3, <1>4, <1>5 DEF OpStep

(* The steps of a shutdown() after it has taken the queues.                *)
LEMMA ShutdownStepInv ==
  ASSUME NoShutdownRace, NEW Q, Q \subseteq Clients, OpInv(Q), ShutdownStep
  PROVE  /\ OpInv(Q)'
         /\ LostSet' = LostSet
         /\ GrantedSet' = GrantedSet
<1> USE DEF OpInv, OpTypeOK
<1>0. dying # << >>
  BY DEF ShutdownStep, ShutdownAsync, ShutdownDone, ShutdownError, ShutdownNotify
<1>1. PICK h \in Clients : h = Head(dying)
  BY <1>0
<1>2. /\ h \in Range(dying) /\ Range(dying) \subseteq Clients
      /\ Range(Tail(dying)) = Range(dying) \ {h} /\ IsInjective(Tail(dying))
  BY <1>0, <1>1, QueueElements, LeaveFront DEF LinkedInv
<1>3. /\ h \notin Q /\ life = "down" /\ MaxSpurious = 0
      /\ pc[h] \in {"queued", "sleeping"} /\ ec[h] \in {"none", "unset", "shut_down"}
      /\ pc[h] = "queued" => ec[h] # "unset"
  BY <1>0, <1>2 DEF LinkedInv, RaceInv, NoShutdownRace
<1>4. /\ UNCHANGED life
      /\ \A d \in Clients \ {h} : pc'[d] = pc[d] /\ ec'[d] = ec[d]
      /\ \/ pc[h] = "queued" /\ pc'[h] = "gone" /\ ec'[h] = "shut_down" /\ dying' = Tail(dying)
         \/ pc[h] = "sleeping" /\ ec'[h] \in {"unset", "shut_down"} /\ pc'[h] = "sleeping"
              /\ dying' = dying
         \/ pc[h] = "sleeping" /\ ec'[h] = "shut_down" /\ pc'[h] = "waking"
              /\ dying' = Tail(dying)
  <2>1. CASE ShutdownAsync
    BY <1>1, <2>1 DEF ShutdownAsync, Finish
  <2>2. CASE ShutdownDone
    BY <1>1, <1>3, <2>2 DEF ShutdownDone, Blocked
  <2>3. CASE ShutdownError
    BY <1>1, <1>3, <2>3 DEF ShutdownError, Blocked
  <2>4. CASE ShutdownNotify
    <3>1. pc[h] = "sleeping" /\ ec[h] = "shut_down"
      BY <1>1, <1>3, <2>4 DEF ShutdownNotify, Blocked
    <3>2. CompletedPc(h) = "waking"
      BY <3>1 DEF CompletedPc
    <3> QED BY <1>1, <2>4, <3>1, <3>2 DEF ShutdownNotify
  <2> QED BY <2>1, <2>2, <2>3, <2>4 DEF ShutdownStep
<1>5. LinkedInv(Q)'
  <2>1. \A d \in Clients : Pending(d)' <=> Pending(d) /\ d # h
    BY <1>3, <1>4 DEF Pending, Blocked
  <2> QED BY <1>2, <1>3, <1>4, <2>1 DEF LinkedInv
<1>6. RaceInv'
  BY <1>0, <1>3, <1>4 DEF RaceInv
<1>7. LostSet' = LostSet /\ GrantedSet' = GrantedSet
  BY <1>3, <1>4 DEF LostSet, GrantedSet, Granted, Blocked
<1> QED BY <1>5, <1>6, <1>7, ShutdownStepType

(* shutdown() takes the linked operations w ...                            *)
LEMMA ShutdownTakeInv ==
  ASSUME NoShutdownRace, NEW w \in Seq(Clients), IsInjective(w), OpInv(Range(w)), ShutdownTake(w)
  PROVE  /\ OpInv({})'
         /\ LostSet' = LostSet
         /\ GrantedSet' = GrantedSet
<1> USE DEF OpInv, OpTypeOK
<1>1. /\ life = "alive" /\ "shutdown" \in Ends /\ MaxSpurious = 0 /\ dying = << >>
      /\ dying' = w /\ life' = "down" /\ UNCHANGED <<pc, ec>>
  BY DEF ShutdownTake, NoShutdownRace, RaceInv
<1>2. Range(w) \subseteq Clients /\ Range(dying) = {}
  BY <1>1, QueueElements, EmptyQueue
<1>3. LinkedInv({})'
  BY <1>1, <1>2 DEF LinkedInv, RaceInv, Pending, Blocked
<1>4. RaceInv'
  BY <1>1 DEF RaceInv
<1>5. LostSet' = LostSet /\ GrantedSet' = GrantedSet
  BY <1>1 DEF LostSet, GrantedSet, Granted, Blocked
<1> QED BY <1>3, <1>4, <1>5, ShutdownTakeType

(* ... or they are completed by the destructor of their lists.             *)
LEMMA DestroyListsInv ==
  ASSUME NEW Q, Q \subseteq Clients, OpInv(Q), DestroyLists(Q)
  PROVE  /\ OpInv({})'
         /\ LostSet' = LostSet
         /\ GrantedSet' = GrantedSet
<1> USE DEF OpInv, OpTypeOK
<1>1. /\ life = "alive" /\ life' = "destroyed" /\ dying = << >> /\ dying' = << >>
      /\ \A c \in Q : pc[c] = "queued" /\ ec[c] = "none"
      /\ pc' = [c \in Clients |-> IF c \in Q THEN CompletedPc(c) ELSE pc[c]]
      /\ ec' = [c \in Clients |-> IF c \in Q THEN "operation_aborted" ELSE ec[c]]
  BY DEF DestroyLists, Complete, RaceInv, LinkedInv, Pending, Blocked
<1>2. \A c \in Q : CompletedPc(c) = "posted"
  BY <1>1 DEF CompletedPc
<1>3. Range(<< >>) = {} /\ IsInjective(<< >>)
  BY EmptyQueue
<1>4. LinkedInv({})'
  BY <1>1, <1>2, <1>3 DEF LinkedInv, Pending, Blocked
<1>5. RaceInv'
  BY <1>1, <1>2 DEF RaceInv
<1>6. LostSet' = LostSet /\ GrantedSet' = GrantedSet
  BY <1>1, <1>2 DEF LostSet, GrantedSet, Granted, Blocked
<1> QED BY <1>4, <1>5, <1>6, DestroyListsType

(* Nobody has an operation yet.                                            *)
LEMMA OpInitInv == OpInit => OpInv({}) /\ LostSet = {} /\ GrantedSet = {}
<1> SUFFICES ASSUME OpInit PROVE OpInv({}) /\ LostSet = {} /\ GrantedSet = {}
  OBVIOUS
<1>1. Range(<< >>) = {} /\ IsInjective(<< >>)
  BY EmptyQueue
<1>2. LinkedInv({}) /\ RaceInv
  BY <1>1 DEF OpInit, LinkedInv, RaceInv, Pending, Blocked
<1>3. LostSet = {} /\ GrantedSet = {}
  BY DEF OpInit, LostSet, GrantedSet, Granted, Blocked
<1> QED BY <1>2, <1>3, OpInitType DEF OpInv

-----------------------------------------------------------------------------
(* What a step of somebody else leaves of the operation of g: it stays     *)
(* ended if it has ended, and goes at most from the queue to the executor  *)
(* or to where a destroyed handler is.                                     *)
Keeps(g) ==
  /\ pc[g] \in {"idle", "acquired"} => pc'[g] = pc[g]
  /\ pc[g] \in {"queued", "posted", "gone"} => pc'[g] \in {"queued", "posted", "gone"}

(* A call of d, and the completions it causes.                             *)
LEMMA CallKeeps ==
  ASSUME OpTypeOK, NEW g \in Clients, NEW d \in Clients, g # d,
         \/ DispatchInSection(d) \/ StartWaiting(d)
         \/ \E e \in Results, p \in Pcs : Finish(d, e, p)
         \/ \E S \in SUBSET Clients, e \in Results, p \in Pcs : CompleteAndGo(S, e, d, p)
  PROVE  Keeps(g)
<1> USE DEF OpTypeOK
<1>1. pc'[g] \in {pc[g], CompletedPc(g)}
  BY DEF DispatchInSection, StartWaiting, Finish, CompleteAndGo
<1> QED
  BY <1>1 DEF Keeps, CompletedPc

(* Completions alone, whoever's operations they are.                       *)
LEMMA CompleteKeeps ==
  ASSUME OpTypeOK, NEW g \in Clients, NEW S, NEW e, Complete(S, e)
  PROVE  Keeps(g)
<1>1. pc'[g] \in {pc[g], CompletedPc(g)}
  BY DEF Complete
<1> QED
  BY <1>1 DEF Keeps, CompletedPc

(* The other steps of d, and the destruction of any handler.               *)
LEMMA OpStepKeeps ==
  ASSUME OpTypeOK, NEW d \in Clients, NEW g \in Clients,
         \/ g # d /\ OpStep(d)
         \/ DestroyHandler(d)
  PROVE  Keeps(g)
BY DEF OpTypeOK, Keeps, OpStep, InlineReturn, InlineReenter, RunHandler,
       DestroyHandler, SpuriousWakeup, Recheck, SleepAgain

(* A shutdown(): its list must not name an operation that has ended.       *)
LEMMA ShutdownKeeps ==
  ASSUME NEW Q, OpTypeOK, LinkedInv(Q), NEW g \in Clients, ShutdownStep
  PROVE  Keeps(g)
<1> USE DEF OpTypeOK, Keeps
<1>1. dying # << >>
  BY DEF ShutdownStep, ShutdownAsync, ShutdownDone, ShutdownError, ShutdownNotify
<1>2. Head(dying) \in Clients /\ pc[Head(dying)] \in {"queued", "sleeping"}
  BY <1>1, LeaveFront DEF LinkedInv
<1>3. CompletedPc(Head(dying)) \in {"posted", "waking"}
  BY <1>2 DEF CompletedPc
<1>4. CASE ShutdownAsync
  BY <1>2, <1>4 DEF ShutdownAsync, Finish
<1>5. CASE ShutdownDone \/ ShutdownError
  BY <1>5 DEF ShutdownDone, ShutdownError
<1>6. CASE ShutdownNotify
  BY <1>2, <1>3, <1>6 DEF ShutdownNotify
<1> QED
  BY <1>4, <1>5, <1>6 DEF ShutdownStep
-----------------------------------------------------------------------------
(* There are finitely many clients at a time.                              *)
LEMMA CardinalityFacts ==
  ASSUME IsFiniteSet(Clients)
  PROVE  \A S \in SUBSET Clients :
           /\ Cardinality(S) \in Nat
           /\ \A c \in Clients \ S : Cardinality(S \cup {c}) = Cardinality(S) + 1
           /\ \A c \in S : Cardinality(S \ {c}) = Cardinality(S) - 1
<1> SUFFICES ASSUME NEW S \in SUBSET Clients
             PROVE  /\ Cardinality(S) \in Nat
                    /\ \A c \in Clients \ S : Cardinality(S \cup {c}) = Cardinality(S) + 1
                    /\ \A c \in S : Cardinality(S \ {c}) = Cardinality(S) - 1
  OBVIOUS
<1>1. IsFiniteSet(S)
  BY FS_Subset
<1>2. Cardinality(S) \in Nat
  BY <1>1, FS_CardinalityType
<1>3. \A c \in Clients \ S : Cardinality(S \cup {c}) = Cardinality(S) + 1
  BY <1>1, FS_AddElement
<1>4. \A c \in S : Cardinality(S \ {c}) = Cardinality(S) - 1
  BY <1>1, FS_RemoveElement
<1> QED BY <1>2, <1>3, <1>4
=============================================================================
