----------------------- MODULE ConditionVariableProofs -----------------------
(***************************************************************************)
(* Proofs about the condition variable, for any number of strands, threads *)
(* and predicates.  No thread ever sleeps in it, so unlike the other       *)
(* primitives it needs no assumption about shutdown() and wakeups.         *)
(***************************************************************************)
EXTENDS ConditionVariable, WaitOpsProofs

TypeInv ==
  /\ OpTypeOK
  /\ waiters_ \in Seq(Clients)
  /\ call \in {"none", "notify_one", "notify_all"}
  /\ walk \in Seq(Clients)
  /\ said \in {"none", "yes", "threw"}

(* The linked operations are those in the queue and in the list of a       *)
(* shutdown(), each once, and nobody else waits.                           *)
QueueInv ==
  /\ IsInjective(waiters_) /\ IsInjective(dying)
  /\ Range(waiters_) \cap Range(dying) = {}
  /\ \A c \in Clients :
       /\ pc[c] = "queued" <=> c \in Range(waiters_) \cup Range(dying)
       /\ pc[c] = "queued" => ec[c] = "none"
       /\ ~ Blocked(c)
  /\ dying # << >> => life = "down"

(* s is the end of t.                                                      *)
EndOf(s, t) ==
  /\ Len(s) <= Len(t)
  /\ \A i \in 1 .. Len(s) : s[i] = t[Len(t) - Len(s) + i]

(* A notification keeps mtx_ locked, so that what it has still to ask      *)
(* stays linked.  Of notify_all that is the end of the queue, and who was  *)
(* passed by had a false condition at that moment.  The conditions that    *)
(* held all along are among those that hold, and these among those that    *)
(* ever held, which is all that is left of an answer once it was given.    *)
WalkInv ==
  /\ call = "none" => said = "none"
  /\ call # "none" =>
       /\ mt => mtx # Free
       /\ IsInjective(walk) /\ Range(walk) \subseteq Range(waiters_)
       /\ held \subseteq holds /\ holds \subseteq ever
       /\ said = "yes" => walk # << >> /\ Head(walk) \in ever
  /\ call = "notify_all" =>
       /\ EndOf(walk, waiters_)
       /\ Range(waiters_) \cap held \subseteq Range(walk)

IInv == TypeInv /\ QueueInv /\ WalkInv

-----------------------------------------------------------------------------
(* The end of a queue.                                                     *)
LEMMA EndOfIsSuffix ==
  ASSUME NEW S, NEW s \in Seq(S), NEW t \in Seq(S), EndOf(s, t)
  PROVE  IsSuffix(s, t)
<1> DEFINE r == Reverse(s)
           u == Reverse(t)
<1>1. /\ Len(s) \in Nat /\ Len(t) \in Nat /\ Len(s) <= Len(t)
      /\ \A i \in 1 .. Len(s) : s[i] = t[Len(t) - Len(s) + i]
  BY DEF EndOf
<1>2. /\ r \in Seq(S) /\ Len(r) = Len(s) /\ \A i \in 1 .. Len(s) : r[i] = s[(Len(s) - i) + 1]
      /\ u \in Seq(S) /\ Len(u) = Len(t) /\ \A i \in 1 .. Len(t) : u[i] = t[(Len(t) - i) + 1]
  BY <1>1 DEF Reverse
<1> HIDE DEF r, u
<1>3. ASSUME NEW i \in 1 .. Len(s) PROVE r[i] = u[i]
  <2>1. /\ (Len(s) - i) + 1 \in 1 .. Len(s)
        /\ Len(t) - Len(s) + ((Len(s) - i) + 1) = (Len(t) - i) + 1
        /\ i \in 1 .. Len(t)
    BY <1>1
  <2> QED BY <1>1, <1>2, <2>1
<1>4. SubSeq(r, 1, Len(r)) = SubSeq(u, 1, Len(r))
  BY <1>1, <1>2, <1>3
<1> QED BY <1>1, <1>2, <1>4 DEF IsSuffix, IsPrefix, r, u

(* The first of the end is at a known place; it may leave the queue or be  *)
(* passed by.                                                              *)
LEMMA EndOfSteps ==
  ASSUME NEW S, NEW s \in Seq(S), NEW t \in Seq(S), EndOf(s, t), s # << >>
  PROVE  LET k == Len(t) - Len(s) + 1
         IN  /\ k \in DOMAIN t /\ t[k] = Head(s)
             /\ EndOf(Tail(s), t)
             /\ EndOf(Tail(s), RemoveAt(t, k))
<1> DEFINE k == Len(t) - Len(s) + 1
<1>1. /\ Len(s) \in Nat /\ Len(t) \in Nat /\ Len(s) <= Len(t) /\ Len(s) > 0
      /\ DOMAIN t = 1 .. Len(t)
      /\ \A i \in 1 .. Len(s) : s[i] = t[Len(t) - Len(s) + i]
  BY DEF EndOf
<1>2. k \in 1 .. Len(t) /\ t[k] = s[1] /\ Head(s) = s[1]
  BY <1>1
<1>3. /\ Tail(s) \in Seq(S) /\ Len(Tail(s)) = Len(s) - 1
      /\ \A i \in 1 .. Len(s) - 1 : Tail(s)[i] = s[i + 1]
  BY <1>1
<1>4. ASSUME NEW i \in 1 .. Len(s) - 1 PROVE Tail(s)[i] = t[Len(t) - Len(s) + (i + 1)]
  BY <1>1, <1>3
<1>5. EndOf(Tail(s), t)
  <2>1. \A i \in 1 .. Len(s) - 1 : Len(t) - (Len(s) - 1) + i = Len(t) - Len(s) + (i + 1)
    BY <1>1
  <2> QED BY <1>1, <1>3, <1>4, <2>1 DEF EndOf
<1>6. EndOf(Tail(s), RemoveAt(t, k))
  <2>1. /\ Len(RemoveAt(t, k)) = Len(t) - 1
        /\ \A j \in 1 .. Len(t) - 1 : RemoveAt(t, k)[j] = IF j < k THEN t[j] ELSE t[j + 1]
    BY <1>2, RemoveAtProps
  <2>2. ASSUME NEW i \in 1 .. Len(s) - 1
        PROVE  Tail(s)[i] = RemoveAt(t, k)[(Len(t) - 1) - (Len(s) - 1) + i]
    <3>1. /\ (Len(t) - 1) - (Len(s) - 1) + i \in 1 .. Len(t) - 1
          /\ ~ ((Len(t) - 1) - (Len(s) - 1) + i < k)
          /\ (Len(t) - 1) - (Len(s) - 1) + i + 1 = Len(t) - Len(s) + (i + 1)
      BY <1>1
    <3> QED BY <1>4, <2>1, <3>1
  <2> HIDE DEF k
  <2> QED BY <1>1, <1>3, <2>1, <2>2 DEF EndOf
<1> QED BY <1>1, <1>2, <1>5, <1>6

-----------------------------------------------------------------------------
(* A completed operation leaves the queue and nothing else.                *)
LEMMA CompleteOpStep ==
  ASSUME TypeInv, QueueInv, NEW c \in Clients, c \in Range(waiters_), NEW e \in Results,
         CompleteOp(c, e), UNCHANGED <<mtx, dying, life, spurious, mt>>
  PROVE  /\ OpTypeOK' /\ waiters_' \in Seq(Clients) /\ QueueInv'
         /\ Range(waiters_)' = Range(waiters_) \ {c}
         /\ \A k \in DOMAIN waiters_ : waiters_[k] = c => waiters_' = RemoveAt(waiters_, k)
         /\ \A d \in Clients \ {c} : ec'[d] = ec[d]
<1>1. /\ \A k \in DOMAIN waiters_ : waiters_[k] = c => waiters_' = RemoveAt(waiters_, k)
      /\ waiters_' \in Seq(Clients) /\ IsInjective(waiters_)'
      /\ Range(waiters_)' = Range(waiters_) \ {c}
  BY RemoveFirstProps DEF CompleteOp, TypeInv, QueueInv
<1>2. pc[c] = "queued"
  BY DEF QueueInv
<1>3. CompletedPc(c) = "posted"
  BY <1>2 DEF CompletedPc
<1>4. OpTypeOK'
  <2>1. "idle" \in Pcs
    BY DEF Pcs
  <2> QED BY <2>1, CompleteAndGoType DEF TypeInv, CompleteOp
<1>5. /\ pc' = [d \in Clients |-> IF d = c THEN "posted" ELSE pc[d]]
      /\ ec' = [d \in Clients |-> IF d = c THEN e ELSE ec[d]]
  BY <1>3 DEF CompleteOp, Complete
<1>6. QueueInv'
  BY <1>1, <1>5 DEF QueueInv, Blocked
<1> QED BY <1>1, <1>4, <1>5, <1>6

(* A notification keeps everyone else out of mtx_.                         *)
LEMMA WalkExcludes ==
  ASSUME TypeInv, WalkInv, Undisturbed, mtx = Free
  PROVE  call = "none" /\ said = "none"
BY DEF TypeInv, WalkInv, Undisturbed

(* What a step may do while a notification is in progress: succeed only    *)
(* with somebody whose condition held during it, and end only at the end   *)
(* of the list or with an exception.                                       *)
Success == \A c \in Strands : ec[c] = "none" /\ ec'[c] = "ok" => c \in ever

Returned == call = "notify_all" /\ call' = "none" => said = "threw" \/ walk = << >>

Outcome == IInv' /\ Success /\ Returned

(* A notification begins with the list it is given ...                     *)
LEMMA BeginStep ==
  ASSUME IInv, NEW c \in Clients, NEW name \in {"notify_one", "notify_all"}, NEW w \in Seq(Clients),
         IsInjective(w), Range(w) \subseteq Range(waiters_), name = "notify_all" => w = waiters_,
         Begin(c, name, w)
  PROVE  Outcome
<1>0. TypeInv /\ QueueInv /\ WalkInv
  BY DEF IInv
<1>1. call = "none" /\ said = "none"
  BY <1>0, WalkExcludes DEF Begin, MayEnter, EnterSection
<1>2. /\ call' = name /\ walk' = w /\ mtx' = IF mt THEN c ELSE mtx
      /\ held' = holds /\ ever' = holds
      /\ UNCHANGED <<waiters_, holds, said, pc, ec, dying, life, spurious, mt>>
  BY DEF Begin
<1>3. OpTypeOK'
  BY <1>0, <1>2 DEF TypeInv, OpTypeOK
<1>4. TypeInv' /\ QueueInv'
  BY <1>0, <1>2, <1>3 DEF TypeInv, QueueInv, Blocked
<1>5. name = "notify_all" => EndOf(walk, waiters_)'
  BY <1>0, <1>2 DEF EndOf, TypeInv
<1>6. WalkInv'
  BY <1>0, <1>1, <1>2, <1>5, WaitOpsAssumption DEF WalkInv
<1> QED BY <1>1, <1>2, <1>4, <1>6 DEF IInv, Outcome, Success, Returned

(* ... and may end wherever the invariant holds.                           *)
LEMMA EndStep ==
  ASSUME IInv, End, said = "threw" \/ walk = << >>
  PROVE  Outcome
<1>0. TypeInv /\ QueueInv /\ WalkInv
  BY DEF IInv
<1>1. /\ call' = "none" /\ walk' = << >> /\ said' = "none" /\ mtx' = Free
      /\ UNCHANGED <<waiters_, pc, ec, dying, life, spurious, mt>>
  BY DEF End
<1>2. OpTypeOK' /\ << >> \in Seq(Clients)
  BY <1>0, <1>1 DEF TypeInv, OpTypeOK
<1> QED
  BY <1>0, <1>1, <1>2 DEF IInv, TypeInv, QueueInv, WalkInv, Blocked, Outcome, Success, Returned

(* It asks one waiter after the other ...                                  *)
LEMMA AskStep ==
  ASSUME IInv, NotifyAsk
  PROVE  Outcome
<1>0. TypeInv /\ QueueInv /\ WalkInv
  BY DEF IInv
<1>1. /\ call # "none" /\ said = "none" /\ walk # << >>
      /\ UNCHANGED <<waiters_, holds, call, held, ever, pc, ec, mtx, dying, life, spurious, mt>>
  BY DEF NotifyAsk
<1>2. OpTypeOK' /\ QueueInv' /\ waiters_' \in Seq(Clients)
  BY <1>0, <1>1 DEF TypeInv, OpTypeOK, QueueInv, Blocked
<1>3. CASE /\ (said' = "yes" /\ Head(walk) \in holds) \/ said' = "threw"
           /\ UNCHANGED walk
  BY <1>0, <1>1, <1>2, <1>3
     DEF IInv, TypeInv, WalkInv, EndOf, Outcome, Success, Returned
<1>4. CASE Head(walk) \notin holds /\ walk' = Tail(walk) /\ UNCHANGED said
  <2>1. /\ walk' \in Seq(Clients) /\ IsInjective(walk)' /\ Range(walk)' = Range(walk) \ {Head(walk)}
    BY <1>0, <1>1, <1>4, LeaveFront DEF TypeInv, WalkInv
  <2>2. call = "notify_all" => EndOf(Tail(walk), waiters_)
    BY <1>0, <1>1, EndOfSteps DEF TypeInv, WalkInv
  <2>3. call = "notify_all" => EndOf(walk, waiters_)'
    BY <1>1, <1>4, <2>2 DEF EndOf
  <2>4. WalkInv'
    BY <1>0, <1>1, <1>4, <2>1, <2>3 DEF WalkInv
  <2> QED BY <1>0, <1>1, <1>2, <1>4, <2>1, <2>4 DEF IInv, TypeInv, Outcome, Success, Returned
<1> QED BY <1>3, <1>4 DEF NotifyAsk

(* ... and completes who said yes.                                         *)
LEMMA NotifyCompleteStep ==
  ASSUME IInv, NotifyComplete
  PROVE  Outcome
<1>0. TypeInv /\ QueueInv /\ WalkInv /\ "ok" \in Results
  BY DEF IInv, Results
<1>1. /\ said = "yes" /\ CompleteOp(Head(walk), "ok") /\ walk' = Tail(walk) /\ said' = "none"
      /\ UNCHANGED <<holds, call, held, ever, mtx, dying, life, spurious, mt>>
  BY DEF NotifyComplete
<1>2. call # "none" /\ walk # << >> /\ Head(walk) \in ever
  BY <1>0, <1>1 DEF WalkInv
<1>3. /\ Head(walk) \in Clients /\ Head(walk) \in Range(walk)
      /\ walk' \in Seq(Clients) /\ IsInjective(walk)' /\ Range(walk)' = Range(walk) \ {Head(walk)}
  BY <1>0, <1>1, <1>2, LeaveFront DEF TypeInv, WalkInv
<1>4. Head(walk) \in Range(waiters_)
  BY <1>0, <1>2, <1>3 DEF WalkInv
<1>5. /\ OpTypeOK' /\ waiters_' \in Seq(Clients) /\ QueueInv'
      /\ Range(waiters_)' = Range(waiters_) \ {Head(walk)}
      /\ \A k \in DOMAIN waiters_ : waiters_[k] = Head(walk) => waiters_' = RemoveAt(waiters_, k)
      /\ \A d \in Clients \ {Head(walk)} : ec'[d] = ec[d]
  BY <1>0, <1>1, <1>3, <1>4, CompleteOpStep
<1>6. ASSUME call = "notify_all" PROVE EndOf(walk, waiters_)'
  <2>1. PICK k \in DOMAIN waiters_ :
          waiters_[k] = Head(walk) /\ EndOf(Tail(walk), RemoveAt(waiters_, k))
    <3>1. walk \in Seq(Clients) /\ waiters_ \in Seq(Clients) /\ EndOf(walk, waiters_)
      BY <1>0, <1>6 DEF TypeInv, WalkInv
    <3> QED BY <1>2, <3>1, EndOfSteps
  <2>2. waiters_' = RemoveAt(waiters_, k)
    BY <1>5, <2>1
  <2> QED BY <1>1, <2>1, <2>2 DEF EndOf
<1>7. WalkInv'
  BY <1>0, <1>1, <1>2, <1>3, <1>5, <1>6 DEF WalkInv
<1>8. Success
  BY <1>2, <1>5 DEF Success, Clients
<1> QED BY <1>0, <1>1, <1>2, <1>3, <1>5, <1>7, <1>8 DEF IInv, TypeInv, Outcome, Returned

-----------------------------------------------------------------------------
(* Every step preserves the invariant and has the promised outcome.        *)
LEMMA InvStep ==
  ASSUME IInv, Next
  PROVE  Outcome
<1>0. TypeInv /\ QueueInv /\ WalkInv /\ {"ok", "operation_aborted"} \subseteq Results
  BY DEF IInv, Results
<1>1. Strands \subseteq Clients /\ Range(waiters_) \subseteq Clients /\ Range(dying) \subseteq Clients
  BY <1>0, QueueElements DEF TypeInv, OpTypeOK, Clients
<1>2. ASSUME NEW c \in Clients, AsyncWait(c) PROVE Outcome
  <2>1. call = "none" /\ said = "none"
    BY <1>0, <1>2, WalkExcludes DEF AsyncWait, MayEnter, EnterSection
  <2>2. OpTypeOK'
    BY <1>0, <1>2, StartWaitingType DEF TypeInv, AsyncWait, QueueOp
  <2>3. /\ pc[c] \in {"idle", "acquired"} /\ c \in Strands
        /\ pc' = [pc EXCEPT ![c] = "queued"] /\ ec' = [ec EXCEPT ![c] = "none"]
        /\ waiters_' = Append(waiters_, c) /\ UNCHANGED <<call, walk, said, dying, life>>
    BY <1>2 DEF AsyncWait, MayEnter, QueueOp, StartWaiting
  <2>4. c \notin Range(waiters_) \cup Range(dying)
    BY <1>0, <2>3 DEF QueueInv
  <2>5. /\ waiters_' \in Seq(Clients) /\ IsInjective(waiters_)'
        /\ Range(waiters_)' = Range(waiters_) \cup {c}
    BY <1>0, <2>3, <2>4, JoinQueue DEF TypeInv, QueueInv
  <2>6. QueueInv'
    BY <1>0, <1>1, <2>3, <2>4, <2>5 DEF QueueInv, Blocked, TypeInv, OpTypeOK
  <2>7. Success
    BY <1>0, <1>1, <2>3 DEF Success, TypeInv, OpTypeOK
  <2> QED
    BY <1>0, <2>1, <2>2, <2>3, <2>5, <2>6, <2>7 DEF IInv, TypeInv, WalkInv, Outcome, Returned
<1>3. ASSUME NEW c \in Clients, NotifyOne(c) PROVE Outcome
  <2>1. waiters_ # << >> /\ waiters_ \in Seq(Clients) /\ Begin(c, "notify_one", <<Head(waiters_)>>)
    BY <1>0, <1>3 DEF NotifyOne, TypeInv
  <2>2. PICK h \in Clients : h = Head(waiters_) /\ h \in Range(waiters_)
    BY <2>1, LeaveFront
  <2>3. /\ <<h>> \in Seq(Clients) /\ Range(<<h>>) = {h} /\ IsInjective(<<h>>)
    BY DEF Range, IsInjective
  <2> QED BY <2>1, <2>2, <2>3, BeginStep
<1>4. ASSUME NEW c \in Clients, NotifyAll(c) PROVE Outcome
  BY <1>0, <1>4, BeginStep DEF NotifyAll, TypeInv, QueueInv
<1>5. CASE NotifyStep
  BY <1>5, AskStep, NotifyCompleteStep, EndStep DEF NotifyStep, NotifyReturn, NotifyThrow
<1>6. ASSUME NEW c \in Clients, Change(c) PROVE Outcome
  <2>1. /\ held' = held \ {c} /\ holds' \in {holds \ {c}, holds \cup {c}} /\ ever \subseteq ever'
        /\ call # "none" /\ holds' = holds \cup {c} => c \in ever'
        /\ UNCHANGED <<waiters_, call, walk, said, pc, ec, mtx, dying, life, spurious, mt>>
    <3>1. CASE c \in holds
      BY <1>0, <1>6, <3>1 DEF Change, WalkInv
    <3>2. CASE c \notin holds
      BY <1>6, <3>2 DEF Change
    <3> QED BY <3>1, <3>2
  <2>2. OpTypeOK' /\ QueueInv' /\ TypeInv'
    BY <1>0, <2>1 DEF TypeInv, OpTypeOK, QueueInv, Blocked
  <2>3. call # "none" => held' \subseteq holds' /\ holds' \subseteq ever'
    BY <1>0, <2>1 DEF WalkInv
  <2>4. call = "notify_all" => EndOf(walk, waiters_)'
    BY <1>0, <2>1 DEF WalkInv, EndOf
  <2>5. WalkInv'
    BY <1>0, <2>1, <2>3, <2>4 DEF WalkInv
  <2> QED BY <2>1, <2>2, <2>5 DEF IInv, Outcome, Success, Returned
<1>7. ASSUME NEW c \in Clients, Cancel(c) PROVE Outcome
  <2>1. call = "none" /\ said = "none"
    BY <1>0, <1>7, WalkExcludes DEF Cancel, EnterSection
  <2>2. c \in Range(waiters_)
    <3>1. dying = << >> /\ Range(<< >>) = {}
      BY <1>0, <1>7, EmptyQueue DEF Cancel, QueueInv
    <3> QED BY <1>0, <1>7, <3>1 DEF Cancel, QueueInv
  <2>3. /\ OpTypeOK' /\ waiters_' \in Seq(Clients) /\ QueueInv'
        /\ \A d \in Clients \ {c} : ec'[d] = ec[d]
    BY <1>0, <1>7, <2>2, CompleteOpStep DEF Cancel
  <2>4. ec'[c] = "operation_aborted" /\ UNCHANGED <<call, walk, said>>
    BY <1>7 DEF Cancel, CompleteOp, Complete
  <2>5. Success
    BY <1>1, <2>3, <2>4 DEF Success
  <2> QED BY <1>0, <2>1, <2>3, <2>4, <2>5 DEF IInv, TypeInv, WalkInv, Outcome, Returned
<1>8. ASSUME NEW c \in Strands, RunHandler(c) \/ DestroyHandler(c), UNCHANGED cvars
      PROVE  Outcome
  <2>1. OpTypeOK'
    BY <1>0, <1>1, <1>8, OpStepType DEF OpStep, TypeInv
  <2>2. /\ pc[c] = "posted" /\ \E p \in {"acquired", "idle", "gone"} : pc' = [pc EXCEPT ![c] = p]
        /\ UNCHANGED <<ec, dying, life, mtx, mt, waiters_, holds, call, walk, said, held, ever>>
    BY <1>8 DEF RunHandler, DestroyHandler, cvars
  <2>3. QueueInv'
    BY <1>0, <1>1, <2>2 DEF QueueInv, Blocked, TypeInv, OpTypeOK
  <2>4. WalkInv'
    BY <1>0, <2>2 DEF WalkInv, EndOf
  <2> QED BY <1>0, <2>1, <2>2, <2>3, <2>4 DEF IInv, TypeInv, Outcome, Success, Returned
<1>9. CASE ShutdownOp
  <2>1. OpTypeOK'
    BY <1>0, <1>9, ShutdownStepType DEF ShutdownOp, ShutdownStep, TypeInv
  <2>2. PICK h \in Clients : h = Head(dying)
    BY <1>0, <1>9, LeaveFront DEF ShutdownOp, ShutdownAsync, TypeInv, OpTypeOK
  <2>3. /\ pc' = [pc EXCEPT ![h] = "gone"] /\ ec' = [ec EXCEPT ![h] = "shut_down"]
        /\ dying # << >> /\ dying' = Tail(dying)
        /\ UNCHANGED <<life, mtx, mt, waiters_, holds, call, walk, said, held, ever>>
    BY <1>9, <2>2 DEF ShutdownOp, ShutdownAsync, Finish, cvars
  <2>4. h \in Range(dying) /\ Range(dying)' = Range(dying) \ {h} /\ IsInjective(dying)'
    BY <1>0, <2>2, <2>3, LeaveFront DEF QueueInv, TypeInv, OpTypeOK
  <2>5. QueueInv'
    BY <1>0, <1>1, <2>3, <2>4 DEF QueueInv, Blocked, TypeInv, OpTypeOK
  <2>6. WalkInv'
    BY <1>0, <2>3 DEF WalkInv, EndOf
  <2>7. Success
    BY <1>0, <1>1, <2>3 DEF Success, TypeInv, OpTypeOK
  <2> QED BY <1>0, <2>1, <2>3, <2>5, <2>6, <2>7 DEF IInv, TypeInv, Outcome, Returned
<1>10. CASE Shutdown
  <2>1. call = "none" /\ said = "none"
    BY <1>0, <1>10, WalkExcludes DEF Shutdown, ShutdownTake, EnterSection
  <2>2. /\ dying' = waiters_ /\ waiters_' = << >> /\ life' = "down"
        /\ UNCHANGED <<pc, ec, call, walk, said>> /\ life = "alive"
    BY <1>10 DEF Shutdown, ShutdownTake
  <2>3. OpTypeOK'
    BY <1>0, <1>10, ShutdownTakeType DEF Shutdown, TypeInv
  <2>4. dying = << >> /\ Range(<< >>) = {} /\ IsInjective(<< >>) /\ << >> \in Seq(Clients)
    BY <1>0, <2>2, EmptyQueue DEF QueueInv
  <2>5. QueueInv'
    BY <1>0, <2>2, <2>4 DEF QueueInv, Blocked
  <2> QED
    BY <1>0, <2>1, <2>2, <2>3, <2>4, <2>5 DEF IInv, TypeInv, WalkInv, Outcome, Success, Returned
<1>11. CASE Destroy
  <2>1. call = "none" /\ said = "none"
    BY <1>0, <1>11, WalkExcludes DEF Destroy, DestroyLists, EnterSection
  <2>2. /\ pc' = [d \in Clients |-> IF d \in Range(waiters_) THEN CompletedPc(d) ELSE pc[d]]
        /\ ec' = [d \in Clients |-> IF d \in Range(waiters_) THEN "operation_aborted" ELSE ec[d]]
        /\ life = "alive" /\ life' = "destroyed" /\ waiters_' = << >>
        /\ UNCHANGED <<dying, call, walk, said>>
    BY <1>11 DEF Destroy, DestroyLists, Complete
  <2>3. OpTypeOK'
    BY <1>0, <1>11, DestroyListsType DEF Destroy, TypeInv
  <2>4. dying = << >> /\ Range(<< >>) = {} /\ IsInjective(<< >>) /\ << >> \in Seq(Clients)
    BY <1>0, <2>2, EmptyQueue DEF QueueInv
  <2>5. \A d \in Range(waiters_) : CompletedPc(d) = "posted"
    BY <1>0, <1>1 DEF QueueInv, CompletedPc
  <2>6. QueueInv'
    BY <1>0, <1>1, <2>2, <2>4, <2>5 DEF QueueInv, Blocked
  <2>7. Success
    BY <1>1, <2>2 DEF Success
  <2> QED
    BY <1>0, <2>1, <2>2, <2>3, <2>4, <2>6, <2>7 DEF IInv, TypeInv, WalkInv, Outcome, Returned
<1> QED
  BY <1>2, <1>3, <1>4, <1>5, <1>6, <1>7, <1>8, <1>9, <1>10, <1>11 DEF Next, Call

(* Nobody waits for a new condition variable, and nobody notifies it.      *)
LEMMA InvInit == Init => IInv
<1> SUFFICES ASSUME Init PROVE IInv
  OBVIOUS
<1>1. Range(<< >>) = {} /\ IsInjective(<< >>) /\ << >> \in Seq(Clients)
  BY EmptyQueue
<1>2. TypeInv
  BY <1>1, OpInitType DEF Init, TypeInv
<1>3. QueueInv /\ WalkInv
  BY <1>1 DEF Init, OpInit, QueueInv, WalkInv, Blocked
<1> QED BY <1>2, <1>3 DEF IInv

(* The inductive invariant holds in every state of every behaviour.        *)
LEMMA Invariance == Spec => []IInv
<1>1. IInv /\ [Next]_vars => IInv'
  <2>1. IInv /\ UNCHANGED vars => IInv'
    BY DEF vars, IInv, TypeInv, OpTypeOK, QueueInv, WalkInv, EndOf, Blocked
  <2> QED BY <2>1, InvStep DEF Outcome
<1> QED
  BY <1>1, InvInit, PTL DEF Spec

-----------------------------------------------------------------------------
(* Nobody is queued twice, every queued operation waits, and nobody who    *)
(* waits is lost, while notifications, cancellations and a shutdown take   *)
(* operations out of the middle of the queue.                              *)
THEOREM ConditionQueuesWaiters == Spec => []WaitersAreQueued
<1>1. IInv => WaitersAreQueued
  <2> SUFFICES ASSUME IInv PROVE WaitersAreQueued
    OBVIOUS
  <2>1. Range(waiters_) \subseteq Clients
    BY QueueElements DEF IInv, TypeInv
  <2> QED BY <2>1 DEF IInv, QueueInv, WaitersAreQueued, Pending
<1> QED
  BY <1>1, Invariance, PTL

(* A notify_all that returns leaves nobody waiting whose condition held    *)
(* all along, a notification completes nobody whose condition never held   *)
(* during it, and the saved pointer of notify_all never names an operation *)
(* that was freed.                                                         *)
THEOREM NotificationsFollowConditions == Spec => NotifiedByCondition
<1> DEFINE Step ==
      /\ call = "notify_all" => IsSuffix(walk, waiters_)
      /\ call = "notify_all" /\ call' = "none" /\ said # "threw" => Range(waiters_) \cap held = {}
      /\ \A c \in Strands : ec[c] = "none" /\ ec'[c] = "ok" => c \in ever
<1>1. IInv /\ Next => Step
  <2> SUFFICES ASSUME IInv, Next PROVE Step
    OBVIOUS
  <2>1. call = "notify_all" => IsSuffix(walk, waiters_)
    BY EndOfIsSuffix DEF IInv, TypeInv, WalkInv
  <2>2. Success /\ Returned
    BY InvStep DEF Outcome
  <2>3. call = "notify_all" => Range(waiters_) \cap held \subseteq Range(walk)
    BY DEF IInv, WalkInv
  <2>4. Range(<< >>) = {}
    BY EmptyQueue
  <2> QED BY <2>1, <2>2, <2>3, <2>4 DEF Success, Returned
<1>2. IInv /\ [Next]_vars => [Step]_vars
  BY <1>1
<1> QED
  BY <1>2, Invariance, PTL DEF Spec, NotifiedByCondition
=============================================================================
