-------------------------- MODULE ConditionVariable --------------------------
(***************************************************************************)
(* basic_condition_variable and condition_variable_impl: strands wait with *)
(* async_wait, with or without a predicate, and any client notifies.       *)
(*                                                                         *)
(* A predicate is code of the user.  It is called by the thread that       *)
(* notifies, with mtx_ held, and what it looks at may change at any time:  *)
(* while notify_all goes from one predicate to the next, and between the   *)
(* answer of a predicate and the completion it leads to.  A notification   *)
(* is therefore several steps, and keeps mtx_ all the way.                 *)
(***************************************************************************)
EXTENDS WaitOps

CONSTANTS Plain,      \* the strands that wait without a predicate
          Throwing    \* the strands whose predicate may throw

ASSUME ConditionVariableAssumption ==
  Plain \subseteq Strands /\ Throwing \subseteq Strands \ Plain

VARIABLES
  waiters_,    \* the queue of condition_variable_impl, front first
  holds,       \* the strands whose predicate would return true
  call,        \* the notification in progress: "none", "notify_one" or "notify_all"
  walk,        \* the waiters it has not dealt with yet, op first
  said,        \* what done() of op said: "none" yet, "yes" or "threw"
  held, ever   \* history: whose condition held all through it, and at some moment of it

cvars == <<waiters_, holds, call, walk, said, held, ever>>
vars == <<waiters_, holds, call, walk, said, held, ever,
          pc, ec, mtx, dying, life, spurious, mt>>

(* The only thread of a single-threaded program finishes a notification    *)
(* before it does anything else.                                           *)
Undisturbed == mt \/ call = "none"

(* c can call a function of the condition variable and enter its section.  *)
MayEnter(c) == pc[c] \in {"idle", "acquired"} /\ MayCall(c) /\ EnterSection /\ Undisturbed

-----------------------------------------------------------------------------
(* predicate_op_model: it is constructed and linked at the back; complete  *)
(* takes it out of the queue, frees it and posts its handler; shutdown     *)
(* drops the handler.                                                      *)
QueueOp(c) ==
  /\ StartWaiting(c)
  /\ waiters_' = Append(waiters_, c)

CompleteOp(c, e) ==
  /\ Complete({c}, e)
  /\ waiters_' = RemoveFirst(waiters_, c)

ShutdownOp == ShutdownAsync /\ UNCHANGED cvars

(* A notification begins: c locks mtx_ and is going to ask w.              *)
Begin(c, name, w) ==
  /\ MayEnter(c)
  /\ call' = name /\ walk' = w
  /\ mtx' = IF mt THEN c ELSE mtx
  /\ held' = holds /\ ever' = holds
  /\ UNCHANGED <<waiters_, holds, said, pc, ec, dying, life, spurious, mt>>

(* It ends, and mtx_ is unlocked.                                          *)
End ==
  /\ call' = "none" /\ walk' = << >> /\ said' = "none"
  /\ mtx' = Free
  /\ held' = {} /\ ever' = {}
  /\ UNCHANGED <<waiters_, holds, pc, ec, dying, life, spurious, mt>>

-----------------------------------------------------------------------------
(* Mutants.  notify_one asks the youngest waiter; notify_all stops before  *)
(* the last one; cancellation leaves the operation linked.                 *)
NotifyOneLast(c) ==
  waiters_ # << >> /\ Begin(c, "notify_one", <<Last(waiters_)>>)

NotifyReturnEarly ==
  /\ call # "none" /\ said = "none" /\ Len(walk) <= 1
  /\ End

CancelLeavesLinked(c) ==
  /\ pc[c] = "queued" /\ life = "alive" /\ EnterSection /\ Undisturbed
  /\ Complete({c}, "operation_aborted")
  /\ UNCHANGED <<cvars, mtx, dying, life, spurious, mt>>

-----------------------------------------------------------------------------
(* async_wait: the operation is queued, whatever its predicate would say.  *)
AsyncWait(c) ==
  /\ c \in Strands /\ life = "alive" /\ MayEnter(c)
  /\ QueueOp(c)
  /\ UNCHANGED <<holds, call, walk, said, held, ever, mtx, dying, life, spurious, mt>>

(* notify_one() is going to ask the first waiter and nobody else (without  *)
(* one it returns at once) ...                                             *)
NotifyOne(c) ==
  waiters_ # << >> /\ Begin(c, "notify_one", <<Head(waiters_)>>)

(* ... and notify_all() all of them from the front.                        *)
NotifyAll(c) == Begin(c, "notify_all", waiters_)

(* op->done(): the predicate says yes; or no, and the loop goes on with    *)
(* the saved next pointer; or it throws.                                   *)
NotifyAsk ==
  /\ call # "none" /\ said = "none" /\ walk # << >>
  /\ \/ Head(walk) \in holds /\ said' = "yes" /\ UNCHANGED walk
     \/ Head(walk) \notin holds /\ walk' = Tail(walk) /\ UNCHANGED said
     \/ Head(walk) \in Throwing /\ said' = "threw" /\ UNCHANGED walk
  /\ UNCHANGED <<waiters_, holds, call, held, ever, pc, ec, mtx, dying, life, spurious, mt>>

(* op->complete(error_code()), if it said yes.                             *)
NotifyComplete ==
  /\ said = "yes"
  /\ CompleteOp(Head(walk), "ok")
  /\ walk' = Tail(walk) /\ said' = "none"
  /\ UNCHANGED <<holds, call, held, ever, mtx, dying, life, spurious, mt>>

(* The loop is back at the root, and the function returns ...              *)
NotifyReturn ==
  /\ call # "none" /\ said = "none" /\ walk = << >>
  /\ End

(* ... or the exception of a predicate leaves it.                          *)
NotifyThrow == said = "threw" /\ End

(* What the predicate of c looks at changes.                               *)
Change(c) ==
  /\ c \in Strands \ Plain
  /\ Undisturbed
  /\ holds' = IF c \in holds THEN holds \ {c} ELSE holds \cup {c}
  /\ held' = held \ {c}
  /\ ever' = IF call # "none" /\ c \notin holds THEN ever \cup {c} ELSE ever
  /\ UNCHANGED <<waiters_, call, walk, said, pc, ec, mtx, dying, life, spurious, mt>>

(* The cancellation handler of a queued operation, emitted where it cannot *)
(* race with the operation's completion.                                   *)
Cancel(c) ==
  /\ pc[c] = "queued" /\ life = "alive" /\ EnterSection /\ Undisturbed
  /\ CompleteOp(c, "operation_aborted")
  /\ UNCHANGED <<holds, call, walk, said, held, ever, mtx, dying, life, spurious, mt>>

(* condition_variable_impl::shutdown up to the end of its critical section *)
Shutdown ==
  /\ Undisturbed
  /\ ShutdownTake(waiters_)
  /\ waiters_' = << >>
  /\ UNCHANGED <<holds, call, walk, said, held, ever>>

(* ~predicate_bilist_holder completes what is still in the queue.          *)
Destroy ==
  /\ Undisturbed
  /\ DestroyLists(Range(waiters_))
  /\ waiters_' = << >>
  /\ UNCHANGED <<holds, call, walk, said, held, ever>>

-----------------------------------------------------------------------------
Init ==
  /\ OpInit
  /\ waiters_ = << >>
  /\ holds = Plain
  /\ call = "none" /\ walk = << >> /\ said = "none"
  /\ held = {} /\ ever = {}

Call(c) == AsyncWait(c) \/ NotifyOne(c) \/ NotifyAll(c) \/ Cancel(c) \/ Change(c)

NotifyStep == NotifyAsk \/ NotifyComplete \/ NotifyReturn \/ NotifyThrow

Next ==
  \/ \E c \in Clients : Call(c)
  \/ NotifyStep
  \/ \E c \in Strands :
       Undisturbed /\ (RunHandler(c) \/ DestroyHandler(c)) /\ UNCHANGED cvars
  \/ ShutdownOp
  \/ Shutdown
  \/ Destroy

Spec == Init /\ [][Next]_vars

(* The executor keeps going, a notification that was begun goes on, and    *)
(* the threads call notify_one again and again.  Nobody has to call        *)
(* notify_all.                                                             *)
FairSpec ==
  /\ Spec
  /\ \A c \in Strands : WF_opvars(RunHandler(c) \/ DestroyHandler(c))
  /\ WF_opvars(ShutdownAsync) /\ WF_vars(NotifyStep)
  /\ \A c \in Threads : SF_vars(NotifyOne(c))

-----------------------------------------------------------------------------
(* Everyone in the queue still waits and everyone who waits can be reached *)
(* from the queue or from the list a shutdown() works through.             *)
WaitersAreQueued ==
  /\ IsInjective(waiters_)
  /\ Range(waiters_) \cap Range(dying) = {}
  /\ \A c \in Range(waiters_) : Pending(c)
  /\ \A c \in Clients : Pending(c) => c \in Range(waiters_) \cup Range(dying)

(* A wait "will complete on a call to notify_all" (condition_variable.adoc *)
(* :74), but conditions change while the notifying thread goes from        *)
(* predicate to predicate (condition_variable_impl.ipp:36-42).  When       *)
(* notify_all returns, nobody is left waiting whose condition held all     *)
(* along, so that waits without a predicate have completed; a notification *)
(* completes nobody whose condition was false all along; and the saved     *)
(* next pointer names an operation that is still linked although           *)
(* complete() frees the one the loop stands on.  The exception is a        *)
(* predicate that throws: it leaves the waits behind it uncompleted, with  *)
(* or without a predicate of their own.                                    *)
NotifiedByCondition ==
  [][/\ call = "notify_all" => IsSuffix(walk, waiters_)
     /\ call = "notify_all" /\ call' = "none" /\ said # "threw" => Range(waiters_) \cap held = {}
     /\ \A c \in Strands : ec[c] = "none" /\ ec'[c] = "ok" => c \in ever]_vars

(* notify_one asks the front only: a waiter behind one whose condition is  *)
(* false is not woken.  That, or a predicate that throws, is the only way  *)
(* to be held up: a waiter without predicate who has only others in front  *)
(* of it is served by repeated notify_one calls, although clients come and *)
(* go and wait again.                                                      *)
OnlyRefusalHoldsUp ==
  \A c \in Plain : Pending(c) ~>
    \/ ~ Pending(c) \/ life = "down"
    \/ \E i, j \in DOMAIN waiters_ :
         i < j /\ waiters_[j] = c /\ (waiters_[i] \notin holds \/ waiters_[i] \in Throwing)
=============================================================================
