------------------------------- MODULE WaitOps -------------------------------
(***************************************************************************)
(* What the primitives of boost.sam have in common: clients with at most   *)
(* one operation each, the way an operation waits and ends, the internal   *)
(* mutex mtx_ of a service_member, and the end of its life.                *)
(*                                                                         *)
(* Strands start asynchronous operations.  A waiting one is a              *)
(* basic_op_model on the heap whose handler is posted when it completes.   *)
(* Threads start synchronous operations outside the event queue.  A        *)
(* waiting one is a lock_op_t, acquire_op_t or arrive_op_t (the same code  *)
(* three times) on the stack of the thread, which sleeps on a condition    *)
(* variable.  The name of a client stands for its operation as well.       *)
(*                                                                         *)
(* One action is one critical section of mtx_, except where the code works *)
(* outside of it: the condition variable wait, the operations' shutdown(), *)
(* the executor, and a handler dispatched while the section is still open. *)
(***************************************************************************)
EXTENDS Integers, Sequences, FiniteSets, SequencesExt

CONSTANTS Strands,      \* clients with asynchronous operations
          Threads,      \* clients with synchronous operations
          Modes,        \* the values mtx_.enabled() may have
          InlineStrands,\* strands whose immediate executor runs a dispatch inline
          Ends,         \* how the life may end: a subset of {"shutdown", "destroy"}
          MaxSpurious,  \* bound: spurious wakeups of the condition variables
          Free          \* no thread holds mtx_

Clients == Strands \cup Threads

ASSUME WaitOpsAssumption ==
  /\ Strands \cap Threads = {}
  /\ Modes \subseteq BOOLEAN /\ InlineStrands \subseteq Strands
  /\ Ends \subseteq {"shutdown", "destroy"}
  /\ MaxSpurious \in Nat
  /\ Free \notin Clients

VARIABLES
  pc,          \* where each client is, see Pcs
  ec,          \* the result of its operation, see Results
  mtx,         \* who keeps mtx_ locked between two actions
  dying,       \* the local list w of a shutdown() in progress
  life,        \* "alive"; "down": the context was shut down; "destroyed"
  spurious,    \* spurious wakeups so far
  mt           \* mtx_.enabled(): set on construction unless single threaded

opvars == <<pc, ec, mtx, dying, life, spurious, mt>>

Pcs == {"idle",        \* no operation outstanding
        "acquired",    \* its operation has succeeded, and the client knows
        "queued",      \* its basic_op_model is linked
        "posted",      \* its handler was given to the executor
        "inline",      \* its handler runs inside the initiation's critical section
        "stuck",       \* that handler waits for the mtx_ its own thread holds
        "sleeping",    \* its thread sleeps in var.wait
        "waking",      \* the thread is awake and needs mtx_ to go on
        "rechecked",   \* the thread holds mtx_ and has read done = false
        "gone"}        \* its handler was destroyed without being invoked

(* "none": pending, done is false.  "unset": done is true and the caller's *)
(* error_code still has its initial value, which is success.               *)
Results == {"none", "unset", "ok", "operation_aborted", "shut_down", "in_progress"}

(* The thread c is inside wait() of its operation.                         *)
Blocked(c) == pc[c] \in {"sleeping", "waking", "rechecked"}

(* The operation of c is linked and nobody has completed it.               *)
Pending(c) == (pc[c] = "queued" \/ Blocked(c)) /\ ec[c] = "none"

(* c has succeeded, or success is on its way to c.                         *)
Granted(c) ==
  \/ pc[c] \in {"acquired", "inline", "stuck"}
  \/ (pc[c] = "posted" \/ Blocked(c)) /\ ec[c] = "ok"

(* Handlers run only while the context lives; a thread that keeps the      *)
(* object alive can call it even after the context was shut down.          *)
MayCall(c) == life = "alive" \/ (life = "down" /\ c \in Threads)

(* lock_type l{mtx_}; a disabled mutex is never held.                      *)
EnterSection == mtx = Free

-----------------------------------------------------------------------------
(* The virtual complete(e) of the linked operations of the clients S.  An  *)
(* async model unlinks and destroys itself and posts its handler; a sync   *)
(* operation sets done and ec and notifies, which only a sleeper hears.    *)
CompletedPc(c) ==
  CASE pc[c] = "queued"   -> "posted"
    [] pc[c] = "sleeping" -> "waking"
    [] OTHER              -> pc[c]

(* The operations of S end with e, except that c itself goes on at p.      *)
CompleteAndGo(S, e, c, p) ==
  /\ pc' = [d \in Clients |-> IF d \in S THEN CompletedPc(d)
                              ELSE IF d = c THEN p ELSE pc[d]]
  /\ ec' = [d \in Clients |-> IF d \in S THEN e ELSE ec[d]]

Complete(S, e) ==
  /\ pc' = [d \in Clients |-> IF d \in S THEN CompletedPc(d) ELSE pc[d]]
  /\ ec' = [d \in Clients |-> IF d \in S THEN e ELSE ec[d]]

(* c starts an operation that ends at once with e and goes on at p ...     *)
Finish(c, e, p) ==
  /\ pc' = [pc EXCEPT ![c] = p]
  /\ ec' = [ec EXCEPT ![c] = e]

(* ... or one that is linked and waits.                                    *)
StartWaiting(c) ==
  /\ pc' = [pc EXCEPT ![c] = IF c \in Strands THEN "queued" ELSE "sleeping"]
  /\ ec' = [ec EXCEPT ![c] = "none"]

(* net::dispatch to the immediate executor inside the critical section: by *)
(* default it posts; bound to an executor that runs inline, it invokes the *)
(* handler there and then, and the section stays open until that returns.  *)
DispatchInSection(c) ==
  /\ Finish(c, "ok", IF c \notin InlineStrands THEN "posted"
                     ELSE IF mt THEN "inline" ELSE "acquired")
  /\ mtx' = IF c \in InlineStrands /\ mt THEN c ELSE mtx

-----------------------------------------------------------------------------
(* The dispatched handler returns, and the initiation with it.             *)
InlineReturn(c) ==
  /\ pc[c] = "inline"
  /\ pc' = [pc EXCEPT ![c] = "acquired"]
  /\ mtx' = Free
  /\ UNCHANGED <<ec, dying, life, spurious, mt>>

(* The dispatched handler calls the object it was given (unlock, release), *)
(* which locks mtx_ once more.                                             *)
InlineReenter(c) ==
  /\ pc[c] = "inline"
  /\ pc' = [pc EXCEPT ![c] = "stuck"]
  /\ UNCHANGED <<ec, mtx, dying, life, spurious, mt>>

(* The executor runs a posted handler (external).                          *)
RunHandler(c) ==
  /\ pc[c] = "posted" /\ life # "down"
  /\ pc' = [pc EXCEPT ![c] = IF ec[c] = "ok" THEN "acquired" ELSE "idle"]
  /\ UNCHANGED <<ec, mtx, dying, life, spurious, mt>>

(* A context that goes down destroys the handlers posted to it (external). *)
DestroyHandler(c) ==
  /\ pc[c] = "posted" /\ life = "down"
  /\ pc' = [pc EXCEPT ![c] = "gone"]
  /\ UNCHANGED <<ec, mtx, dying, life, spurious, mt>>

-----------------------------------------------------------------------------
(* wait(): var.wait(lock, [this]{ return done; }).                         *)

(* The condition variable may wake a sleeper for no reason (external).     *)
SpuriousWakeup(c) ==
  /\ pc[c] = "sleeping" /\ spurious < MaxSpurious
  /\ spurious' = spurious + 1
  /\ pc' = [pc EXCEPT ![c] = "waking"]
  /\ UNCHANGED <<ec, mtx, dying, life, mt>>

(* Mutant: wait() without the predicate, var.wait(lock).                   *)
RecheckUnconditional(c) ==
  /\ pc[c] = "waking" /\ EnterSection
  /\ pc' = [pc EXCEPT ![c] = IF ec[c] = "shut_down" THEN "idle" ELSE "acquired"]
  /\ UNCHANGED <<ec, mtx, dying, life, spurious, mt>>

(* An awake thread gets mtx_ back and reads done.  If it is set, the call  *)
(* returns, with success unless an error_code was assigned; if not, the    *)
(* thread goes on holding mtx_ ...                                         *)
Recheck(c) ==
  /\ pc[c] = "waking" /\ EnterSection
  /\ \/ /\ ec[c] # "none"
        /\ pc' = [pc EXCEPT ![c] = IF ec[c] \in {"ok", "unset"} THEN "acquired" ELSE "idle"]
        /\ UNCHANGED mtx
     \/ /\ ec[c] = "none"
        /\ pc' = [pc EXCEPT ![c] = "rechecked"]
        /\ mtx' = c
  /\ UNCHANGED <<ec, dying, life, spurious, mt>>

(* ... until it sleeps again, which gives mtx_ up.                         *)
SleepAgain(c) ==
  /\ pc[c] = "rechecked"
  /\ pc' = [pc EXCEPT ![c] = "sleeping"]
  /\ mtx' = Free
  /\ UNCHANGED <<ec, dying, life, spurious, mt>>

-----------------------------------------------------------------------------
(* shutdown() of a primitive, which the service calls when the context is  *)
(* destroyed: the queue w is moved to a local list under mtx_ ...          *)
ShutdownTake(w) ==
  /\ "shutdown" \in Ends
  /\ life = "alive" /\ EnterSection
  /\ life' = "down"
  /\ dying' = w
  /\ UNCHANGED <<pc, ec, mtx, spurious, mt>>

(* ... and shut down front to back without mtx_.  An async model destroys  *)
(* itself and its handler;                                                 *)
ShutdownAsync ==
  /\ dying # << >> /\ pc[Head(dying)] = "queued"
  /\ Finish(Head(dying), "shut_down", "gone")
  /\ dying' = Tail(dying)
  /\ UNCHANGED <<mtx, life, spurious, mt>>

(* a sync operation sets done, then ec, then unlinks itself and notifies.  *)
ShutdownDone ==
  /\ dying # << >> /\ Blocked(Head(dying)) /\ ec[Head(dying)] = "none"
  /\ ec' = [ec EXCEPT ![Head(dying)] = "unset"]
  /\ UNCHANGED <<pc, mtx, dying, life, spurious, mt>>

ShutdownError ==
  /\ dying # << >> /\ Blocked(Head(dying)) /\ ec[Head(dying)] = "unset"
  /\ ec' = [ec EXCEPT ![Head(dying)] = "shut_down"]
  /\ UNCHANGED <<pc, mtx, dying, life, spurious, mt>>

(* Mutant: the thread is not notified.                                     *)
ShutdownForgetsNotify ==
  /\ dying # << >> /\ pc[Head(dying)] # "queued" /\ ec[Head(dying)] = "shut_down"
  /\ dying' = Tail(dying)
  /\ UNCHANGED <<pc, ec, mtx, life, spurious, mt>>

(* If the thread has seen done and returned meanwhile, the operation is    *)
(* gone and these writes go to its former stack frame: the model leaves    *)
(* them without effect.                                                    *)
ShutdownNotify ==
  /\ dying # << >>
  /\ LET c == Head(dying)
     IN  /\ pc[c] # "queued"
         /\ Blocked(c) => ec[c] = "shut_down"
         /\ pc' = [pc EXCEPT ![c] = CompletedPc(c)]
  /\ dying' = Tail(dying)
  /\ UNCHANGED <<ec, mtx, life, spurious, mt>>

(* The object is destroyed while no thread is inside it and the context    *)
(* lives on: the destructor of a list completes its operations S.          *)
DestroyLists(S) ==
  /\ "destroy" \in Ends
  /\ life = "alive" /\ EnterSection
  /\ \A c \in Clients : ~ Blocked(c)
  /\ life' = "destroyed"
  /\ Complete(S, "operation_aborted")
  /\ UNCHANGED <<mtx, dying, spurious, mt>>

-----------------------------------------------------------------------------
OpInit ==
  /\ pc = [c \in Clients |-> "idle"]
  /\ ec = [c \in Clients |-> "none"]
  /\ mtx = Free
  /\ dying = << >>
  /\ life = "alive"
  /\ spurious = 0
  /\ mt \in Modes

(* The steps that are the same for every primitive and touch neither its   *)
(* own state nor its queues.                                               *)
OpStep(c) ==
  \/ InlineReturn(c) \/ InlineReenter(c)
  \/ RunHandler(c) \/ DestroyHandler(c)
  \/ SpuriousWakeup(c) \/ Recheck(c) \/ SleepAgain(c)

ShutdownStep == ShutdownAsync \/ ShutdownDone \/ ShutdownError \/ ShutdownNotify

OpTypeOK ==
  /\ pc \in [Clients -> Pcs]
  /\ ec \in [Clients -> Results]
  /\ mtx \in Clients \cup {Free}
  /\ dying \in Seq(Clients)
  /\ life \in {"alive", "down", "destroyed"}
  /\ spurious \in 0 .. MaxSpurious
  /\ mt \in Modes

(* The executor and the scheduler of the threads keep going: a posted      *)
(* handler is run, a thread that can go on goes on, and a shutdown() that  *)
(* was begun is finished.  Nothing makes a condition variable wake up      *)
(* spuriously, and nothing makes a dispatched handler lock mtx_ again.     *)
OpFairness ==
  /\ \A c \in Clients :
       WF_opvars(RunHandler(c) \/ DestroyHandler(c) \/ Recheck(c) \/ SleepAgain(c) \/ InlineReturn(c))
  /\ WF_opvars(ShutdownStep)

-----------------------------------------------------------------------------
(* "CHECK_THROWS(smtx->lock()); [...] thr.join();" (test/basic_mutex.cpp:  *)
(* 308, 316): a thread that waits when the context is destroyed comes out  *)
(* of its wait.  shutdown() sets done, assigns ec, unlinks the operation   *)
(* and notifies without mtx_, and the thread may wake up, look and return  *)
(* in the middle of that.  The exception is a thread that has read done =  *)
(* false and not gone to sleep yet: it does not hear a notification that   *)
(* comes now, and nobody will notify it again.                             *)
ShutdownEndsSleep ==
  \A c \in Threads :
    c \in Range(dying) /\ ec[c] # "none" /\ pc[c] # "rechecked" ~> ~ Blocked(c)
=============================================================================
