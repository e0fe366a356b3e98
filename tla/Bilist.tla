------------------------------- MODULE Bilist -------------------------------
(***************************************************************************)
(* The intrusive, circular, doubly linked list every primitive of          *)
(* boost.sam keeps its waiters in (detail/bilist_node.hpp), at the level   *)
(* of its two pointers.  A node is either a holder (the root node, a       *)
(* basic_bilist_holder of detail/basic_op.hpp) or an operation.  There is  *)
(* one action per member function; the primitives call each of them with   *)
(* their internal mutex held or on a holder no other thread can see, so an *)
(* action is one whole call.                                               *)
(***************************************************************************)
EXTENDS Integers, Sequences, FiniteSets

CONSTANTS Holders,   \* root nodes: waiters_ members and the locals they are moved to
          Ops        \* operations (wait_op); an identity is reused after the op ends

Node == Holders \cup Ops

ASSUME DisjointNodes == Holders \cap Ops = {}

VARIABLES next_,     \* next_[n]: the node n.next_ points to
          prev_,     \* prev_[n]: the node n.prev_ points to
          live,      \* the holders whose lifetime has begun and not ended
          linked     \* the operations between link_before and unlink

vars == <<next_, prev_, live, linked>>

(* The nodes whose two pointers the library may follow.                    *)
Active == live \cup linked

-----------------------------------------------------------------------------
(* The member functions, as what they write.  Pointers are read in the     *)
(* order of the code: link_before reads next->prev_ before it changes it.  *)

(* Mutant: unlink also sets next_ of the node to a null pointer.           *)
UnlinkPtrsNull(n) ==
  /\ prev_' = [prev_ EXCEPT ![next_[n]] = prev_[n]]
  /\ next_' = [next_ EXCEPT ![prev_[n]] = next_[n], ![n] = "nullptr"]

(* n.unlink(): the neighbours are joined, n keeps its own two pointers.    *)
UnlinkPtrs(n) ==
  /\ prev_' = [prev_ EXCEPT ![next_[n]] = prev_[n]]
  /\ next_' = [next_ EXCEPT ![prev_[n]] = next_[n]]

(* Mutants: link_before forgets next->prev_ = this; it links at the front. *)
LinkBeforePtrsOneWay(n, h) ==
  /\ next_' = [next_ EXCEPT ![n] = h, ![prev_[h]] = n]
  /\ prev_' = [prev_ EXCEPT ![n] = prev_[h]]

LinkBeforePtrsFront(n, h) ==
  /\ next_' = [next_ EXCEPT ![n] = next_[h], ![h] = n]
  /\ prev_' = [prev_ EXCEPT ![n] = h, ![next_[h]] = n]

(* n.link_before(h).                                                       *)
LinkBeforePtrs(n, h) ==
  /\ next_' = [next_ EXCEPT ![n] = h, ![prev_[h]] = n]
  /\ prev_' = [prev_ EXCEPT ![n] = prev_[h], ![h] = n]

(* Mutant: the move constructor does not treat an empty source on its own. *)
MovePtrsAlways(to, from) ==
  /\ next_' = [next_ EXCEPT ![from] = from, ![to] = next_[from], ![prev_[from]] = to]
  /\ prev_' = [prev_ EXCEPT ![from] = from, ![to] = prev_[from], ![next_[from]] = to]

(* bilist_node to{std::move(from)}: a non-empty list is re-rooted at "to", *)
(* and "from" is left empty.                                               *)
MovePtrs(to, from) ==
  IF next_[from] = from
  THEN /\ next_' = [next_ EXCEPT ![to] = to]
       /\ prev_' = [prev_ EXCEPT ![to] = to]
  ELSE /\ next_' = [next_ EXCEPT ![from] = from, ![to] = next_[from],
                                 ![prev_[from]] = to]
       /\ prev_' = [prev_ EXCEPT ![from] = from, ![to] = prev_[from],
                                 ![next_[from]] = to]

-----------------------------------------------------------------------------
(* The holder of a list is default constructed.                            *)
Construct(h) ==
  /\ h \notin live
  /\ live' = live \cup {h}
  /\ next_' = [next_ EXCEPT ![h] = h]
  /\ prev_' = [prev_ EXCEPT ![h] = h]
  /\ UNCHANGED linked

(* add_waiter: a new operation goes to the back of the queue of h.         *)
AddWaiter(o, h) ==
  /\ h \in live
  /\ o \notin linked
  /\ linked' = linked \cup {o}
  /\ LinkBeforePtrs(o, h)
  /\ UNCHANGED live

(* The unlink of an operation that is anywhere in a queue: it is cancelled,*)
(* or a sync operation found it need not wait.                             *)
Unlink(o) ==
  /\ o \in linked
  /\ linked' = linked \ {o}
  /\ UnlinkPtrs(o)
  /\ UNCHANGED live

(* One round of complete_all, of the holder's destructor or of its         *)
(* shutdown, and the single completion of unlock, release and notify_one:  *)
(* the operation at the front is unlinked.                                 *)
CompleteFront(h) ==
  /\ h \in live
  /\ next_[h] # h
  /\ linked' = linked \ {next_[h]}
  /\ UnlinkPtrs(next_[h])
  /\ UNCHANGED live

(* auto w = std::move(waiters_): the holder "to" takes over the queue.     *)
MoveConstruct(to, from) ==
  /\ from \in live
  /\ to \notin live
  /\ live' = live \cup {to}
  /\ MovePtrs(to, from)
  /\ UNCHANGED linked

(* Mutant: the destructor of the holder does not empty the list.           *)
DestructEarly(h) ==
  /\ h \in live
  /\ live' = live \ {h}
  /\ UNCHANGED <<next_, prev_, linked>>

(* The end of the holder's destructor, when its loop found the list empty. *)
Destruct(h) ==
  /\ h \in live
  /\ next_[h] = h
  /\ live' = live \ {h}
  /\ UNCHANGED <<next_, prev_, linked>>

(* Before it is constructed the pointers of a node have any value; the     *)
(* code never reads them, so each may start as a node linked to itself.    *)
Init ==
  /\ live = {}
  /\ linked = {}
  /\ next_ = [n \in Node |-> n]
  /\ prev_ = [n \in Node |-> n]

Next ==
  \/ \E h \in Holders : Construct(h) \/ CompleteFront(h) \/ Destruct(h)
  \/ \E o \in Ops : Unlink(o)
  \/ \E o \in Ops, h \in Holders : AddWaiter(o, h)
  \/ \E to, from \in Holders : MoveConstruct(to, from)

Spec == Init /\ [][Next]_vars

-----------------------------------------------------------------------------
(* Reading a list as the sequence of its operations.                       *)

(* The loop of size(): Walk(h)[i] is where p is after i rounds.  It stops  *)
(* at the root, which is reached after at most as many as there are nodes. *)
Walk(h) ==
  LET p[i \in 0 .. Cardinality(Node)] ==
        IF i = 0 THEN next_[h] ELSE IF p[i - 1] = h THEN h ELSE next_[p[i - 1]]
  IN  p

(* size(): how many rounds there are.                                      *)
size(h) == Cardinality({i \in DOMAIN Walk(h) : Walk(h)[i] # h})

(* The operations of h, front first.                                       *)
Contents(h) ==
  IF h \in live THEN [i \in 1 .. size(h) |-> Walk(h)[i - 1]] ELSE << >>

-----------------------------------------------------------------------------
(* The pointers always name nodes, and only holders are live.              *)
TypeOK ==
  /\ next_ \in [Node -> Node]
  /\ prev_ \in [Node -> Node]
  /\ live \subseteq Holders
  /\ linked \subseteq Ops

(* No pointer the library follows dangles: both neighbours of a live       *)
(* holder or a linked operation are themselves live or linked, and the two *)
(* directions agree.  unlink, the loops of complete_all and shutdown and   *)
(* the destructor rely on it although unlink leaves stale pointers behind  *)
(* (bilist_node.hpp:25-31) and barrier_impl::arrive unlinks twice.         *)
WellLinked ==
  \A n \in Active :
    /\ next_[n] \in Active
    /\ prev_[n] \in Active
    /\ prev_[next_[n]] = n
    /\ next_[prev_[n]] = n

(* Whatever stands first in a list is an operation, never the root of      *)
(* another list: unlock, release, complete_all and the destructor of the   *)
(* holder cast it to one and complete it (mutex_impl.ipp:84,               *)
(* basic_op.hpp:44, 52, 64).  Moving a queue to a new root while the old   *)
(* one lives on is what could put two roots into one ring.                 *)
FrontIsOperation ==
  \A h \in live : next_[h] # h => next_[h] \in linked

(* Every linked operation is in the list of a live holder: the destructor  *)
(* or shutdown of that holder still finds it, so it cannot be leaked with  *)
(* its handler and its work guard (basic_op.hpp:38-45, 55-67).             *)
NoOrphan ==
  \A o \in linked : \E h \in live : \E i \in 1 .. Len(Contents(h)) : Contents(h)[i] = o

(* The pointers implement one FIFO queue per holder.                       *)
Abstract == INSTANCE WaitQueues WITH queue <- [h \in Holders |-> Contents(h)]

ImplementsQueues == Abstract!Spec
=============================================================================
