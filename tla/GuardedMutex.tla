---------------------------- MODULE GuardedMutex -----------------------------
(***************************************************************************)
(* guarded(mutex, op, token) together with the mutex: some strands run     *)
(* their operations under the lock while the other clients use the mutex   *)
(* as before.                                                              *)
(***************************************************************************)
EXTENDS Mutex, Guarded

gvars == <<phase, locked_, waiters_, pc, ec, mtx, dying, life, spurious, mt>>

(* The initiation: the lock is taken and the operation started, or ...     *)
GuardedStart(c) ==
  \/ TryLock(c) /\ StartOp(c, "none")
  \/ /\ pc[c] = "idle" /\ MayCall(c) /\ EnterSection
     /\ locked_
     /\ MoveOn(c, "none", "trying")
     /\ UNCHANGED vars

(* ... a moment later the composed operation starts async_lock, which may  *)
(* find the mutex free now.                                                *)
GuardedLock(c) ==
  /\ AsyncLock(c)
  /\ MoveOn(c, "trying", "waiting")

GuardedResume(c) ==
  /\ Resume(c)
  /\ UNCHANGED <<locked_, waiters_>>

(* The user's operation completes: the mutex is unlocked, then the         *)
(* composed operation completes.                                           *)
GuardedDone(c) ==
  /\ Unlock(c)
  /\ MoveOn(c, "running", "none")

(* Whatever else happens to the mutex and the guarded operations.          *)
Unguarded ==
  /\ \/ \E c \in Clients \ GuardedStrands :
          Call(c) \/ (OpStep(c) /\ UNCHANGED <<locked_, waiters_>>)
     \/ \E c \in GuardedStrands :
          Cancel(c) \/ (DestroyHandler(c) /\ UNCHANGED <<locked_, waiters_>>)
     \/ ShutdownStep /\ UNCHANGED <<locked_, waiters_>>
     \/ In("trying") = {} /\ (Shutdown \/ Destroy)
  /\ UNCHANGED phase

GInit == Init /\ PhaseInit

GNext ==
  \/ \E c \in GuardedStrands : GuardedLock(c)
  \/ /\ Uninterrupted
     /\ \/ \E c \in GuardedStrands : GuardedStart(c) \/ GuardedResume(c) \/ GuardedDone(c)
        \/ Unguarded

GSpec == GInit /\ [][GNext]_gvars

(* Owners do not keep the lock forever, and the operations of the users    *)
(* end.                                                                    *)
GFairSpec ==
  /\ GSpec /\ OpFairness
  /\ \A c \in Clients \ GuardedStrands : WF_vars(Unlock(c))
  /\ \A c \in GuardedStrands : WF_gvars(GuardedLock(c)) /\ WF_gvars(GuardedDone(c))

-----------------------------------------------------------------------------
(* "Function to run OPs only when the mutex can be locked. Unlocks the     *)
(* mutex on completion." (guarded.adoc:34): while a guarded operation      *)
(* runs, or after its initiation threw, the mutex is locked and nobody     *)
(* else has it; while the composed operation is anywhere else the strand   *)
(* has at most a lock that its posted handler will bring or lose.          *)
GuardedOpsRunAlone ==
  \A c \in GuardedStrands :
    /\ phase[c] \in {"running", "leaked"} =>
         locked_ /\ \A d \in Clients \ {c} : ~ Granted(d)
    /\ phase[c] \in {"none", "trying"} => ~ Granted(c)

(* Every waiting operation ends, although new clients keep arriving: the   *)
(* handoff of unlock is fair, cancelled operations do not stall it, and    *)
(* neither do handlers that are run with mtx_ held.  The exceptions are a  *)
(* guarded operation whose initiation threw, as its lock is never given    *)
(* back (guarded.hpp:120, 134); a dispatched handler that uses the mutex,  *)
(* which blocks itself and keeps mtx_ (basic_mutex.hpp:44); and the end of *)
(* the context, after which a new call waits for ever (mutex_impl.hpp:40). *)
EveryWaiterIsServed ==
  \A c \in Clients : Pending(c) ~>
    \/ Granted(c) \/ pc[c] = "idle" \/ life = "down"
    \/ In("leaked") # {} \/ \E d \in InlineStrands : pc[d] = "stuck"
=============================================================================
