# boost.sam: specification and proofs

boost.sam is a C++ library of synchronisation primitives for asio: mutex,
shared mutex, semaphore, barrier and condition variable. Each one can be used
from handlers (`async_*` operations) and from plain threads (blocking calls),
and each is tied to an execution context. This directory holds TLA+ models of
the library, TLC configurations for small instances, and proofs checked by
TLAPS. Paths below are relative to `src/include/boost/sam/`.

## 1. Inventory

| part | state | operations | what must hold |
| --- | --- | --- | --- |
| waiter list (`detail/bilist_node.hpp`, `detail/basic_op.hpp`) | `next_`, `prev_` of roots and operations | link_before, unlink, move, complete_all, shutdown, destructor | no dangling pointer, FIFO order, nobody orphaned |
| operations (`detail/basic_op_model.hpp`, `lock_op_t`, `acquire_op_t`, `arrive_op_t`) | handler and work guard, or `done`, `ec` and a condition variable on a thread's stack | complete, shutdown, wait | completed once, with the right result, before the frame is gone |
| mutex (`basic_mutex`, `mutex_impl`) | `locked_`, `waiters_` | async_lock, lock, try_lock, unlock | exclusion, FIFO handoff, no lost lock |
| semaphore (`basic_semaphore`, `semaphore_impl`) | `count_`, `waiters_` | async_acquire, acquire, try_acquire, release, value | permits conserved, FIFO |
| barrier (`basic_barrier`, `barrier_impl`) | `init_`, `counter_`, `waiters_` | async_arrive, arrive, try_arrive | a phase ends with the last arrival, and not before |
| shared mutex (`basic_shared_mutex`, `shared_mutex_impl`) | `locked_`, `locked_shared_`, two queues | both modes of async_lock, lock, try_lock, unlock | writers exclude everybody, counts match owners |
| condition variable (`basic_condition_variable`, `predicate_op`) | `waiters_` with predicates | async_wait, notify_one, notify_all | a notified waiter whose predicate holds completes |
| service (`detail/service.hpp`) | the list of all members of a context | register, unregister, shutdown | every member is shut down once, none after its death |
| internal mutex (`conditionally_enabled_mutex`, `concurrency_hint`) | `enabled_` | lock, unlock | enabled unless the context is single threaded |
| guarded operations (`guarded.hpp`), lock guards (`lock_guard.hpp`, `shared_lock_guard.hpp`) | an owned lock or permit | acquire, run, give back | given back exactly once |
| exceptions, configuration | none | | |

Primitives call their list and their operations; an operation completes by
posting its handler to an executor or by waking a thread; the service calls
`shutdown()` of its members when the context is destroyed; guards and guarded
operations are clients of the mutexes and the semaphore.

What is hard: strands, threads, cancellation handlers and the destruction of
the context all complete operations of one queue; a lock that is handed over
belongs to somebody who does not know it yet; blocking operations live on the
stack of another thread; `shutdown()` works without the internal mutex;
handlers may be run inside a critical section; `async_arrive` and `guarded()`
consist of two critical sections; `notify_all` calls code of the user between
two steps along its list; lists and members are moved and assigned while they
are linked, and members are destroyed while the service walks through them.
`PROJECT.json` lists these hazards with their lines.

## 2. Modules

| module | models |
| --- | --- |
| `Bilist` | the two pointers of every list node and every member function that writes them. An operation identity is reused after it ended. |
| `ArriveList` | `Bilist` with the last arrival at a barrier, which unlinks its operation a second time through the pointers that the first unlink left behind. |
| `WaitQueues` | abstract: a FIFO queue per holder. `Bilist!ImplementsQueues` is the refinement. |
| `SemaphoreAssign` | the move assignment of a semaphore as a sequence of list calls, on top of `Bilist`. |
| `Service` | the ring of members of each context, on top of `Bilist`: construction, moves, destruction, and the walk of `op_list_service::shutdown` one step at a time. |
| `WaitOps` | what the primitives share: clients, how an operation waits and ends, `mtx_`, shutdown and destruction. |
| `Mutex`, `FifoLock` | the mutex, and the FIFO lock it implements. |
| `Semaphore`, `FifoSemaphore` | the semaphore, and the FIFO counting semaphore it implements. |
| `Barrier`, `PhaseBarrier` | the barrier, and the phases it implements while no arrival was missed or cancelled. |
| `SharedMutex` | the shared mutex. |
| `ConditionVariable` | the condition variable; the conditions of its predicates change at any time, and a notification takes a step to ask each predicate and a step to complete the operation. |
| `Guarded`, `GuardedMutex`, `GuardedSemaphore` | `guarded()`: the composed operation, and its composition with `Mutex` and `Semaphore`, where some strands only call `guarded()` and the other clients do as before. |
| `LockGuard` | guard objects composed with `SharedMutex`: who locks through a guard, moves, swaps and destroys it. |
| `QueueLemmas`, `WaitOpsProofs`, `BilistProofs`, `MutexProofs`, `SemaphoreProofs`, `BarrierProofs`, `SharedMutexProofs`, `ConditionVariableProofs` | lemmas and theorems; those about a composition are with its primitive, those about `Service` with the lists. |
| `MC*` | instances for TLC. |

**Atomicity.** An action is one critical section of `mtx_`. The steps the code
takes outside of one are actions of their own: the executor running or
destroying a posted handler, the condition variable waking a thread, the
thread's recheck of `done` (it holds `mtx_` between the recheck and the next
sleep, variable `mtx`), the three writes of a blocking operation's
`shutdown()`, a handler that runs inline in an open critical section, and the
gaps inside `async_arrive` and `guarded()`. `notify_one` and `notify_all` hold
`mtx_` all the way, but what the predicates look at is not protected by it, so
each `done()` and each `complete()` is a step, and so is the return.

**Clients.** A strand has at most one asynchronous operation, a thread at most
one blocking call; `pc[c]` says where it is and `ec[c]` what result it was
given. `ec = "unset"` is the moment when `shutdown()` has set `done` but not
yet the error code. Clients keep the documented contract: only an owner
unlocks, threads do not call from the event queue, and an object is not
destroyed while a thread is inside it. Cancellations are emitted where they
cannot race with completion (for instance on the strand that completes).

**Modes.** `mt` is `mtx_.enabled()`, fixed at construction to one of `Modes`;
when it is FALSE everything runs on one thread and the blocking calls fail with
`in_progress`. The handlers of `InlineStrands` are bound to an immediate
executor that runs a dispatched handler on the spot. `Ends` selects
destruction of the context ("shutdown") or of the object ("destroy").

**Compositions.** `guarded()` is a client of the primitive: its steps are the
primitive's own actions together with a change of `phase`, so nothing the
primitive may do is lost. Between the failed `try_lock` and `async_lock` other
clients run unless the program is single threaded. The initiation of the
user's operation may throw, which leaves the lock behind (`"leaked"`). A guard
slot holds no object, an empty guard, or the client whose lock it has adopted;
destroying it is that client's unlock. `lock_shared(mtx)` adopts an exclusive
lock in a `shared_lock_guard`, as its code does; which slots a client uses
follows from the return type of the function it calls, not from the lock. In `Service` the holders of
`Bilist` are the roots of the services and the local root of `shutdown()`, its
operations are the members; anything may happen to the members between two
steps of the walk, because the handlers that a member's `shutdown()` destroys
may own other members.

**External parts**, modelled from how the library uses them: the executor
(`RunHandler`, `DestroyHandler`), `dispatch` (`InlineReturn`,
`InlineReenter`), the condition variable of the C++ library
(`SpuriousWakeup`), the client of a barrier (`Proceed`), and the user's
predicates (`Change`).

**History variables.** `signals` (permits put into circulation), `rounds`
(phases a client has passed), `misgranted` (a reader was handed the exclusive
lock of a shared mutex), `mishaps` of the barrier (an arrival was missed or
cancelled), `held` and `ever` (whose condition held all through the
notification in progress, and at some moment of it) and `strays` (members in a
ring that their service does not walk) record the past for the properties. No operation reads them, except that `signals` and `rounds` bound
the environment. `mishap` of `Service` marks the states after which a pointer
to a freed member is followed; the model stops there.

Each component module contains, marked as mutants, faulty variants of some of
its definitions (a dropped guard, a missing reset, a swapped order). They are
not part of any specification; substituting one for the definition it follows
makes the property that `PROJECT.json` names with it fail, which shows that
the property depends on that code.

## 3. Runs

| run | instance | shows |
| --- | --- | --- |
| `MCBilist` | 2 holders, 3 operations, last arrivals with two unlinks | consistent pointers, an operation at every front, nobody orphaned, FIFO queues |
| `MutexSafe` (`MCGuardedMutex`) | 2 strands with guarded operations, 1 inline strand, 2 threads, both modes, both ends | exclusion, ownership, queues, one result per operation, guarded operations run alone, FIFO refinement |
| `MutexLive` (`MCGuardedMutex`) | 1 strand with guarded operations, 1 inline strand, 2 threads, 2 spurious wakeups, shutdown | every waiter is served or cancelled; lock() succeeds only through an unlock or in the window of `shutdown()`, which finds what it has not come to yet and wakes whoever sleeps |
| `MCSemaphore` | 2 strands with guarded operations, 1 strand, 1 thread, 1 permit, 1 signal, both modes, both ends | permits conserved, bounded parallelism, none left while somebody waits, FIFO refinement, every waiter served |
| `MCBarrier` | 2 strands (1 inline), 1 thread, 2 phases, both modes, both ends | a phase ends with the last arrival, parties in step, refinement, every phase ends; up to the first missed or cancelled arrival |
| `MCSharedMutex` | a strand and a thread that read, a strand and a thread that write, two of them with guards in 2 exclusive and 2 shared slots, both modes, both ends | writers exclude, counts match owners, nobody waits for a free lock, guards own the locks, async readers are served |
| `MCConditionVariable` | 3 strands (1 without predicate, 1 whose predicate may throw), 1 thread, both modes, both ends | queues; `notify_all` leaves nobody behind whose condition held all along and completes nobody whose condition never held; only a refusing front holds up `notify_one` |
| `MCService` | 2 contexts, 3 members | no member keeps a pointer to a dead service; the walk and the destructors touch only what lives; every member is shut down |

The following runs end in a counterexample, a place where the code does not do
what its documentation, a comment or a test says:

| run | what TLC finds |
| --- | --- |
| `SemaphoreAssign` | move assignment of a semaphore leaves waiting operations in a ring without a holder; they never complete |
| `MutexShutdownRace` | a spurious wakeup between `done = true` and the assignment of `ec` makes lock() return success |
| `BarrierLostArrival` | two concurrent async_arrive calls both wait, `counter_` is 0 and nobody will wake them |
| `SharedMutexStaysLocked` | a thread that had to wait in lock_shared leaves the mutex locked for ever |

`shutdown()` works on a blocking operation without `mtx_`, and a spurious
wakeup can put the thread of that operation into the middle of it. `MutexLive`
combines the two. What can go wrong there is stated exactly:

- `OnlyShutdownInterrupts`: a thread leaves lock() without the mutex only
  between `done = true` and the assignment of `ec` to its own operation. That
  it does so is what `MutexShutdownRace` finds.
- `ShutdownEndsSleep`: a thread misses the notification only if it has read
  `done` and not gone to sleep yet. Then it sleeps on for ever.
- `OpsOutliveShutdown`: the operations that `shutdown()` has not come to are
  alive. The frame of the one it is at can be gone between `done = true` and
  the notification, as the trace of `MutexShutdownRace` shows if it is carried
  on.

`MutexSafe`, `MCSemaphore`, `MCBarrier` and `MCSharedMutex` have the shutdown
without spurious wakeups, since exclusion and its like fail with both. Other
consequences of the code are exceptions that the properties name:

- A handler that async_lock dispatches inline runs with `mtx_` held. If it uses
  the mutex it waits for its own thread (`"stuck"`), although `mutex.adoc:70`
  says "This function will not block, but return immediately.";
  `EveryWaiterIsServed` shows that such handlers do no harm otherwise.
- A cancelled arrival stays counted (`Barrier!Cancel`), so a strand that
  cancels and comes again can end a phase alone; `PartiesStayInStep` and
  `EveryPhaseEnds` speak of a barrier where that has not happened.
- A blocked `lock_shared` queues with the writers, so other readers can pass it
  without end; `EveryReaderIsServed` is about `async_lock_shared`.
- A lock() or acquire() that comes just after the context's `shutdown()` is in
  a queue nobody looks at again: `shutdown()` leaves no mark. The test
  `test/basic_mutex.cpp:295-318` depends on the thread being faster. The
  liveness properties of the primitives except a context that is down.
- Once a reader was given the exclusive lock, by a blocked `lock_shared` or by
  `lock_shared(mtx)`, `LocksHaveOwners` and the last part of
  `GuardsOwnTheLocks` say nothing (`misgranted`). `SharedMutexStaysLocked`
  shows what happens then; a guard destroyed by its owner leaves the mutex
  locked in the same way, so it does not "automatically unlock on destruction"
  (`shared_lock_guard.hpp:33`).
- `notify_one` asks the first waiter only, and a predicate that throws ends a
  notification, so that even waits without predicate behind it do not
  "complete on a call to `notify_all`" (`condition_variable.adoc:74`):
  `OnlyRefusalHoldsUp` and `NotifiedByCondition` name both.
- A condition may change between the answer of its predicate and the
  completion, so a wait that succeeded does not mean that the condition holds;
  it held at some moment of the notification.
- An initiation that throws inside `guarded()` keeps its permit or lock.
- `service_member::operator=` between two contexts leaves its source
  registered in one service and pointing to the other (`service.hpp:82`), and a
  member that is registered while its context goes down is never visited;
  `ServiceOutlivesMembers` excepts these (`strays`).
- `shutdown()` of the service keeps the pointer to the next member while it
  shuts one down; if that destroys the next member, the walk goes on in freed
  memory (`mishap`). `RegistryStaysLinked` says that this is the only way.

Two statements of the documentation are not those of the code and need no
model: `basic_condition_variable.hpp:72` and `condition_variable.adoc:80` have
the predicate invoked from the executor, while it is invoked by the notifying
thread with `mtx_` held; and "Rebind a mutex to a new executor - this cancels
all outstanding operations" (`basic_mutex.hpp:49`, likewise the others), while
the move constructor keeps them waiting.

**Bounds.** Three waiters are the least with a front, a middle and a back, so
two holders with three operations, or four or five clients of which one owns
the lock, reach every way to link, unlink and hand over; each further client
behaves like one of them. Two guarded strands contend with each other and with
the rest; two slots of each guard type are what a move needs. Two contexts are
what an assignment between contexts needs, and three members give the walk one
it is at, one it will follow a pointer to, and another one. `MaxSpurious`,
`MaxSignals`, `MaxRounds` and `MaxDeficit` bound what the environment may do
without end; one or two of each suffice to put such a step before and after
every other. `MaxDeficit` is how far the race of async_arrive may take
`counter_` below zero. Symmetry is not used: every instance finishes within a
minute or so.

**Deadlock** is checked for the lists. It is not where the
system may stop: after its end, when a bounded number of rounds is over, or
when a handler blocked itself.

**Fairness.** `OpFairness` is weak fairness of the executor, of a thread that
can go on, and of a `shutdown()` that has begun: an executor runs what was
posted to it and the operating system schedules threads. The live
specifications add that owners unlock, holders release, guards are destroyed,
guarded operations end and parties arrive, which the library cannot guarantee
and its liveness depends on. For the condition variable they add that threads
call notify_one again and again (strongly fair, since its guard asks the front
of the queue and others may cancel in between). No fairness is assumed of
cancellation, signals, new calls to a lock, `notify_all`, spurious wakeups, or
of the end of the context: the liveness properties of the primitives exempt a
context that was shut down. Strong fairness is not needed elsewhere: `mtx_` is
only held between two actions by a thread that has rechecked `done`, by an
inline handler or by a notification, which is fair itself. The thread that destroys a context goes
on (`Service!SFairSpec`).

## 4. Proofs

Every invariant, action property and refinement that a passing run checks is
also a theorem, for any number of clients, holders, operations, contexts and
members. The theorem is about the same definition as the run.

| module | theorems |
| --- | --- |
| `BilistProofs` | `TypeOK`, `WellLinked`, `FrontIsOperation`, `NoOrphan`, the refinement `ImplementsQueues`; `ArriveSpec => Spec` for the second unlink; of the service `ServiceOutlivesMembers`, `RegistryStaysLinked` |
| `MutexProofs` | `TypeOK`, `MutualExclusion`, `LockedHasOwner`, `WaitersAreQueued`, `OpsOutliveShutdown`, the action properties `OnlyShutdownInterrupts` and `ResultIsFinal`, the refinement `ImplementsFifoLock`; with guarded operations `GSpec => Spec` and `GuardedOpsRunAlone` |
| `SemaphoreProofs` | `TypeOK`, `WaitersAreQueued`, `PermitsConserved`, the refinement `ImplementsFifoSemaphore`; with guarded operations `GSpec => Spec` and `ParallelismIsBounded` |
| `BarrierProofs` | `WaitersAreQueued`, `LastArrivalEndsPhase`, `PartiesStayInStep`, the refinement `ImplementsPhaseBarrier` |
| `SharedMutexProofs` | `WritersExclude`, `LocksHaveOwners`, `WaitersAreQueued`, and `GuardsOwnTheLocks`, all of the mutex composed with its guards |
| `ConditionVariableProofs` | `WaitersAreQueued`, the action property `NotifiedByCondition` |
| `QueueLemmas`, `WaitOpsProofs` | lemmas: what joining, leaving and removing do to a queue without repetitions; what the shared steps of the operations keep |

**The lists.** `WellLinked` is not inductive: it does not exclude a ring with
two roots, which an unlink between them would tear apart. The inductive
invariant is that there are queues `q` which the pointers represent
(`Represents(q)`, from `Rings`): around every root the pointers of both
directions go through the operations of its queue, and nobody is in two places.
The lemmas `UnlinkRings`, `LinkRings`, `MoveRings`, `NewRoot` and `RootGone`
say what the member functions do to such rings; `OtherNodes` that pointers of
nodes in no ring do not matter, which is why `unlink` may leave stale ones
behind. `RepStep` puts them together: every action is a step of `WaitQueues` on
the represented queues. That these are the queues one reads by following
`next_` (`Contents`, the loop of `size()`) is `ContentsAre`; it takes an
induction along the ring, which is made from the least counterexample
(`LeastNumber`). The second unlink of `barrier_impl::arrive` is harmless
because its operation was linked last: it stays the one before the root until
`complete_all` unlinks it, when it is alone and both its pointers, and those of
the root, name the root (`ArriveInv`). Unlinking it again writes what is there,
so `ArriveSpec` implements `Spec` and the theorems carry over.

**The service** uses the same theory of rings. While `shutdown()` walks, the
pointers of its local root `e` are behind what it will do, so the rings of
`next_` and `prev_` alone are not an invariant. The rings of `SInv` are those
`shutdown()` sees: `e` is followed by `nx`, and `nx` preceded by `e`
(`SeenNext`, `SeenPrev`). Visiting a member is then an unlink in that ring
although no pointer is written, and destroying a visited member, which does not
unlink itself, writes to a node in no ring. Exactly the members with a service
are in a ring, and those that are not `strays` in that of their service, or of
`e` while it is shut down; that ring is empty when the walk ends, so nobody is
left who points to the service.

**The primitives** share `LinkedInv` and `RaceInv` (`WaitOpsProofs`): who is
in a queue waits, who is in the list of a shutdown still has its frame, nobody
is in both and nobody waits unlisted; the window of `shutdown()` meets only
sleeping threads. To these each one adds what its own properties need:

- Mutex: exclusion alone is not inductive, since `try_lock` relies on a free
  mutex having no owner and `unlock` on the front of the queue having none
  (`OwnerInv`). `OpsOutliveShutdown` is proved without `NoShutdownRace`, and
  so without `LinkedInv`: the operation a `shutdown()` is at may return and its
  client queue again. What it has not come to was taken out of `waiters_`
  before (`AliveInv`), and nobody else completes it (`AheadInv`). Likewise
  `OnlyShutdownInterrupts`: whoever has `done` without a result is the first
  of that list (`HalfInv`).
- Semaphore: nobody waits while `count_` is positive; permits are conserved
  because every step moves one client between the sets that are counted.
- Barrier: `counter_` is what the phase is still missing until a last arrival
  was missed, and not positive from then on (`CountInv`); `StepInv` adds that
  everyone who arrived is in the queue until an arrival was cancelled.
- Shared mutex: while `locked_` is set the counter is 0 and one client is
  inside, possibly a reader that was handed the exclusive lock; otherwise only
  readers are, and the counter covers them (`OwnerInv`).
- Condition variable: the part of the list `notify_all` has still to visit is
  the end of the queue, and nobody before it has a condition that held all
  along; an answer that was given stands for a condition that held at some
  moment (`WalkInv`).
- Compositions: every step is a step of the primitive or leaves it alone. The
  phase of a guarded operation says where its client is (`PhaseInv`); it is
  inductive because a step of somebody else moves an operation at most from
  the queue to the executor or to where a destroyed handler is (`Keeps`). Each
  lock of a client that uses guards belongs to exactly one guard
  (`GuardInv`); that the guard unlocks it in the right way follows from the
  owners of the mutex (`OwnerInv`).

Each proof that a step keeps the invariant has one step per action.

**Assumptions.** Strands and threads are disjoint, special values are not
clients, holders are not operations, the null pointer is not a holder, guarded
operations are not initiated by strands with an inline immediate executor.
Theorems state what else they need:

- `NoShutdownRace`: a context is not shut down while condition variables wake
  up spuriously. Needed wherever blocking operations wait (not for the type
  theorems, `OpsOutliveShutdown`, `OnlyShutdownInterrupts`, the lists and the
  condition variable); `MutexShutdownRace` shows that exclusion fails without it.
- `IsFiniteSet(Clients)` where clients are counted, `IsFiniteSet(Node)` where a
  list is read to its end.
- `Cardinality(Clients) = InitCount` for `PartiesStayInStep`: a barrier is made
  for the number of its parties.

**Only model-checked**: liveness (`EveryWaiterIsServed`,
`ShutdownEndsSleep`, `EveryPhaseEnds`, `EveryReaderIsServed`,
`OnlyRefusalHoldsUp`, `EveryMemberIsShutDown`), which the prover's backends do
not cover, and the runs that end in a counterexample.

## 5. Not modelled, and plan

Not modelled:

- Allocation failure, handlers whose move constructor throws, exceptions as
  text, configuration macros, the benchmarks.
- The values of a moved primitive. What a move does to the waiter list is in
  `Bilist` and `SemaphoreAssign`, and to the registration in `Service`; that
  the move constructors of the semaphore and of the shared mutex leave
  `count_` and `locked_shared_` in their source is a fact about objects whose
  use nothing in the documentation describes. The assignments of the mutexes
  and of the barrier use the same assignment of lists as the semaphore's.
- A cancellation that is emitted while another thread completes the operation:
  what `slot.is_connected()` answers then is decided by asio.
- Predicates that use their own condition variable, which blocks
  (`mtx_` is held), and guards or guarded operations of inline strands.
- Two contexts that are shut down at the same time, and members that other
  threads construct or destroy in parallel with a move: the ring is protected
  by the service's mutex except in `shutdown()`.

Next: the type invariants of the barrier, the shared mutex and the condition
variable, which their proofs contain, as properties of their own; and the
theorems that hold without `NoShutdownRace` in programs without blocking calls.
