-------------------------- MODULE GuardedSemaphore ---------------------------
(***************************************************************************)
(* guarded(semaphore, op, token) together with the semaphore: some strands *)
(* run their operations under a permit while the other clients use the     *)
(* semaphore as before.                                                    *)
(***************************************************************************)
EXTENDS Semaphore, Guarded

gvars == <<phase, count_, waiters_, signals, pc, ec, mtx, dying, life, spurious, mt>>

(* The initiation: a permit is taken and the operation started, or ...     *)
GuardedStart(c) ==
  \/ TryAcquire(c) /\ StartOp(c, "none")
  \/ /\ pc[c] = "idle" /\ MayCall(c) /\ EnterSection
     /\ count_ <= 0
     /\ MoveOn(c, "none", "trying")
     /\ UNCHANGED vars

(* ... a moment later the composed operation starts async_acquire, which   *)
(* may find a permit now.                                                  *)
GuardedAcquire(c) ==
  /\ AsyncAcquire(c)
  /\ MoveOn(c, "trying", "waiting")

GuardedResume(c) ==
  /\ Resume(c)
  /\ UNCHANGED <<count_, waiters_, signals>>

(* The user's operation completes: the permit is released, then the        *)
(* composed operation completes.                                           *)
GuardedDone(c) ==
  /\ Release(c)
  /\ MoveOn(c, "running", "none")

(* Whatever else happens to the semaphore and the guarded operations.      *)
Unguarded ==
  /\ \/ \E c \in Clients \ GuardedStrands :
          Call(c) \/ (OpStep(c) /\ UNCHANGED <<count_, waiters_, signals>>)
     \/ \E c \in GuardedStrands :
          Cancel(c) \/ (DestroyHandler(c) /\ UNCHANGED <<count_, waiters_, signals>>)
     \/ ShutdownStep /\ UNCHANGED <<count_, waiters_, signals>>
     \/ In("trying") = {} /\ (Shutdown \/ Destroy)
  /\ UNCHANGED phase

GInit == Init /\ PhaseInit

GNext ==
  \/ \E c \in GuardedStrands : GuardedAcquire(c)
  \/ /\ Uninterrupted
     /\ \/ \E c \in GuardedStrands : GuardedStart(c) \/ GuardedResume(c) \/ GuardedDone(c)
        \/ Unguarded

GSpec == GInit /\ [][GNext]_gvars

(* Holders release their permits, and the operations of the users end.     *)
GFairSpec ==
  /\ GSpec /\ OpFairness
  /\ \A c \in Clients \ GuardedStrands : WF_vars(Release(c))
  /\ \A c \in GuardedStrands : WF_gvars(GuardedAcquire(c)) /\ WF_gvars(GuardedDone(c))

-----------------------------------------------------------------------------
(* "That way an artificial number of processes can run in parallel."       *)
(* (guarded.adoc:9): the running operations, the ones whose initiation     *)
(* threw, the other owners and the free permits are never more than the    *)
(* permits put into circulation.  Between the failed try_acquire and the   *)
(* handler of async_acquire the permit changes hands outside of the        *)
(* composed operation, and the handler may bring an error instead.         *)
ParallelismIsBounded ==
  LET others == {c \in Clients \ GuardedStrands : Granted(c)}
  IN  Cardinality(In("running") \cup In("leaked") \cup others \cup Lost) + count_
        <= InitialCount + signals

(* Every operation that waits for a permit gets one as long as permits are *)
(* given back, although other clients keep acquiring.  The exceptions are  *)
(* the end of the context, and permits that are gone with a guarded        *)
(* operation whose initiation threw (guarded.hpp:62, 76).                  *)
EveryWaiterIsServed ==
  \A c \in Clients : Pending(c) ~>
    (Granted(c) \/ pc[c] = "idle" \/ life = "down" \/ In("leaked") # {})
=============================================================================
