------------------------------- MODULE Guarded -------------------------------
(***************************************************************************)
(* guarded(): a composed operation that gets a permit or a lock, runs the  *)
(* operation of the user with it and gives it back.  The code of           *)
(* guard_by_semaphore_op and of guard_by_mutex_op is the same but for the  *)
(* names; this is what they share, GuardedSemaphore and GuardedMutex put   *)
(* it together with the primitive.                                         *)
(*                                                                         *)
(* The initiation calls try_acquire (try_lock) and, if that fails,         *)
(* async_acquire (async_lock), which is another critical section.  The     *)
(* composed operation ends at once if it was cancelled before it started,  *)
(* which changes nothing.                                                  *)
(***************************************************************************)
EXTENDS WaitOps

CONSTANT GuardedStrands    \* the strands that only call guarded()

ASSUME GuardedAssumption ==
  GuardedStrands \subseteq Strands /\ GuardedStrands \cap InlineStrands = {}

VARIABLE phase    \* phase[c]: how far the composed operation of c is, see Phases

Phases == {"none",     \* not started, or completed
           "trying",   \* try_acquire failed, async_acquire is still to be called
           "waiting",  \* async_acquire was called
           "running",  \* the operation of the user runs
           "leaked"}   \* its initiation threw, and nobody will give back anything

In(p) == {c \in GuardedStrands : phase[c] = p}

(* The only thread of a single-threaded program finishes the initiation    *)
(* before it does anything else.                                           *)
Uninterrupted == mt \/ In("trying") = {}

MoveOn(c, p, q) ==
  /\ phase[c] = p
  /\ phase' = [phase EXCEPT ![c] = q]

(* std::move(oo)(...): the initiation of the user's operation returns, or  *)
(* throws.                                                                 *)
StartOp(c, p) == MoveOn(c, p, "running") \/ MoveOn(c, p, "leaked")

(* Mutant: the error that async_acquire reports is not looked at.          *)
ResumeUnchecked(c) ==
  /\ RunHandler(c)
  /\ StartOp(c, "waiting")

(* The handler of async_acquire: an error ends the composed operation.     *)
Resume(c) ==
  /\ RunHandler(c)
  /\ \/ ec[c] = "ok" /\ StartOp(c, "waiting")
     \/ ec[c] # "ok" /\ MoveOn(c, "waiting", "none")

PhaseInit == phase = [c \in GuardedStrands |-> "none"]
=============================================================================
