--------------------------- MODULE SemaphoreAssign ---------------------------
(***************************************************************************)
(* semaphore_impl's move assignment, target = std::move(source), at the    *)
(* level of the list pointers.  It runs std::swap(lhs.waiters_, waiters_): *)
(* a temporary is move constructed from the source's list, and the other   *)
(* two moves are bilist_node's move ASSIGNMENT, which never takes over the *)
(* pointers of its argument.  At last the temporary is destroyed, which    *)
(* completes what is still in it.  The assignment holds the target's       *)
(* mutex, so its steps are not interleaved with other calls.               *)
(***************************************************************************)
EXTENDS Bilist

CONSTANT Tmp         \* the holder that is the local of std::swap

Semaphores == Holders \ {Tmp}

VARIABLES stage,     \* the next step of the assignment in progress, or "none"
          target, source

avars == <<next_, prev_, live, linked, stage, target, source>>

(* bilist_node::operator=(bilist_node &&lhs) with this = to, lhs = from.   *)
AssignPtrs(to, from) ==
  LET empty == next_[from] = from
  IN  /\ next_' = IF empty THEN [next_ EXCEPT ![to] = to]
                           ELSE [next_ EXCEPT ![prev_[to]] = to]
      /\ prev_' = IF empty THEN [prev_ EXCEPT ![to] = to]
                           ELSE [prev_ EXCEPT ![next_[to]] = to]

SwapBegin(t, s) ==
  /\ stage = "none"
  /\ {t, s} \subseteq live
  /\ MoveConstruct(Tmp, s)
  /\ stage' = "assign_source" /\ target' = t /\ source' = s

SwapAssignSource ==
  /\ stage = "assign_source"
  /\ AssignPtrs(source, target)
  /\ stage' = "assign_target"
  /\ UNCHANGED <<live, linked, target, source>>

SwapAssignTarget ==
  /\ stage = "assign_target"
  /\ AssignPtrs(target, Tmp)
  /\ stage' = "drop_tmp"
  /\ UNCHANGED <<live, linked, target, source>>

SwapDropTmp ==
  /\ stage = "drop_tmp"
  /\ CompleteFront(Tmp) \/ Destruct(Tmp)
  /\ stage' = IF Tmp \in live' THEN "drop_tmp" ELSE "none"
  /\ UNCHANGED <<target, source>>

(* The calls of the semaphores outside an assignment: async_acquire,       *)
(* release, cancellation, construction and destruction.                    *)
Otherwise ==
  /\ stage = "none"
  /\ \/ \E h \in Semaphores : Construct(h) \/ CompleteFront(h) \/ Destruct(h)
     \/ \E o \in Ops, h \in Semaphores : AddWaiter(o, h)
     \/ \E o \in Ops : Unlink(o)
  /\ UNCHANGED <<stage, target, source>>

AInit == Init /\ stage = "none" /\ target \in Semaphores /\ source = target

ANext ==
  \/ Otherwise
  \/ \E t, s \in Semaphores : t # s /\ SwapBegin(t, s)
  \/ SwapAssignSource
  \/ SwapAssignTarget
  \/ SwapDropTmp

ASpec == AInit /\ [][ANext]_avars

(* "If the semaphore object is destoyed while an async_acquire is          *)
(* outstanding, the operation's completion handler will be invoked with    *)
(* the error_code set to error::operation_aborted"                         *)
(* (basic_semaphore.hpp:98-100): once every semaphore is destroyed no      *)
(* operation is still linked.  The destructor's loop starts at the         *)
(* holder's next_, so this rests on the move assignment above.             *)
DestroyedMeansCompleted == live = {} => linked = {}
=============================================================================
