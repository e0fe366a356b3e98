------------------------------- MODULE Service -------------------------------
(***************************************************************************)
(* op_list_service, one per execution context, and the service_members     *)
(* (the mutexes, semaphores, barriers and condition variables) that are    *)
(* linked in its ring while they live.  The ring is a Bilist: its holders  *)
(* are the "entries" of the services and the local "e" of shutdown(), its  *)
(* operations are the members, and "linked" are the members that live.     *)
(*                                                                         *)
(* The destruction of a context shuts its service down and destroys it     *)
(* later.  shutdown() walks the ring without the mutex of the service, and *)
(* the handlers that a member's shutdown() destroys may own any members:   *)
(* these may be constructed, moved and destroyed between any two steps.    *)
(* The memory of what was destroyed is not read again (the properties say  *)
(* so); its pointers and those of e are set back to their initial values.  *)
(* What happens after a mishap is undefined, and the model stops there.    *)
(***************************************************************************)
EXTENDS Bilist

CONSTANTS e,         \* the holder that is the local of op_list_service::shutdown
          nullptr

Contexts == Holders \ {e}    \* a context's name also stands for its service

ASSUME ServiceAssumption == e \in Holders /\ nullptr \notin Holders

VARIABLES
  service,           \* service[m]: the pointer of the member m
  stage,             \* stage[x]: "up", "walk", "shutdown" (of a member), "down"
  nx,                \* the next member that shutdown() will follow a pointer to
  strays,            \* history: members in a ring that their service's shutdown misses
  mishap             \* a list pointer has gone stale that will be followed

svars == <<next_, prev_, live, linked, service, stage, nx, strays, mishap>>

Walking == \E x \in Contexts : stage[x] \in {"walk", "shutdown"}

(* A service can be reached through the member's pointer.                  *)
Reachable(m) == m \in linked /\ service[m] \in live

(* Taking m out of its ring while shutdown() keeps a pointer to it.        *)
PullsAway(m) == Walking /\ m = nx

-----------------------------------------------------------------------------
(* register_queue of a member that is not linked.                          *)
Register(m, x) == LinkBeforePtrs(m, x)

(* unregister_queue and register_queue with the same service.              *)
Reregister(m, x) ==
  LET n == next_[m]
      p == prev_[m]
      last == IF n = x THEN p ELSE prev_[x]
  IN  /\ next_' = [next_ EXCEPT ![p] = n, ![m] = x, ![last] = m]
      /\ prev_' = [prev_ EXCEPT ![n] = p, ![m] = last, ![x] = m]

(* service_member(ctx).                                                    *)
ConstructMember(m, x) ==
  /\ ~ mishap /\ m \notin linked /\ x \in live \ {e}
  /\ linked' = linked \cup {m}
  /\ service' = [service EXCEPT ![m] = x]
  /\ Register(m, x)
  /\ strays' = IF stage[x] = "up" THEN strays ELSE strays \cup {m}
  /\ UNCHANGED <<live, stage, nx, mishap>>

(* Mutant: the move constructor does not register the new member.          *)
MoveConstructUnregistered(m, from) ==
  /\ ~ mishap /\ m \notin linked /\ Reachable(from)
  /\ linked' = linked \cup {m}
  /\ service' = [service EXCEPT ![m] = service[from]]
  /\ next_' = [next_ EXCEPT ![m] = m] /\ prev_' = [prev_ EXCEPT ![m] = m]
  /\ strays' = IF stage[service[from]] = "up" THEN strays ELSE strays \cup {m}
  /\ UNCHANGED <<live, stage, nx, mishap>>

(* service_member(service_member &&sm): the new member is linked next to   *)
(* the old one.  Moving a member that was shut down dereferences nullptr.  *)
MoveConstructMember(m, from) ==
  /\ ~ mishap /\ m \notin linked /\ Reachable(from)
  /\ linked' = linked \cup {m}
  /\ service' = [service EXCEPT ![m] = service[from]]
  /\ Register(m, service[from])
  /\ strays' = IF stage[service[from]] = "up" THEN strays ELSE strays \cup {m}
  /\ UNCHANGED <<live, stage, nx, mishap>>

(* operator=(service_member &&sm), of barriers and condition variables.    *)
(* With different services the target is linked again where it was and     *)
(* the source gets the target's service without being moved to its ring.   *)
(* A source that was shut down comes to life with stale list pointers.     *)
MoveAssign(m, from) ==
  /\ ~ mishap /\ Reachable(m) /\ from \in linked /\ service[from] # service[m]
  /\ service' = [service EXCEPT ![from] = service[m]]
  /\ Reregister(m, service[m])
  /\ strays' = (strays \cup {from, m}) \ (IF stage[service[m]] = "up" THEN {m} ELSE {})
  /\ mishap' = (PullsAway(m) \/ service[from] = nullptr)
  /\ UNCHANGED <<live, linked, stage, nx>>

(* Mutant: the destructor does not unregister.                             *)
DestroyMemberLinked(m) ==
  /\ ~ mishap /\ m \in linked /\ (service[m] = nullptr \/ Reachable(m))
  /\ next_' = [next_ EXCEPT ![m] = m] /\ prev_' = [prev_ EXCEPT ![m] = m]
  /\ linked' = linked \ {m}
  /\ service' = [service EXCEPT ![m] = nullptr]
  /\ strays' = strays \ {m}
  /\ mishap' = PullsAway(m)
  /\ UNCHANGED <<live, stage, nx>>

(* ~service_member.  (With a service that is gone it locks a mutex that is *)
(* gone: ServiceOutlivesMembers says when this cannot happen.)             *)
DestroyMember(m) ==
  /\ ~ mishap /\ m \in linked
  /\ \/ /\ service[m] = nullptr
        /\ next_' = [next_ EXCEPT ![m] = m] /\ prev_' = [prev_ EXCEPT ![m] = m]
     \/ /\ Reachable(m)
        /\ next_' = [next_ EXCEPT ![prev_[m]] = next_[m], ![m] = m]
        /\ prev_' = [prev_ EXCEPT ![next_[m]] = prev_[m], ![m] = m]
  /\ linked' = linked \ {m}
  /\ service' = [service EXCEPT ![m] = nullptr]
  /\ strays' = strays \ {m}
  /\ mishap' = PullsAway(m)
  /\ UNCHANGED <<live, stage, nx>>

-----------------------------------------------------------------------------
(* op_list_service::shutdown(): the ring is moved to e.  (One context is   *)
(* shut down at a time.)                                                   *)
ShutdownBegin(x) ==
  /\ ~ mishap /\ stage[x] = "up" /\ ~ Walking
  /\ stage' = [stage EXCEPT ![x] = "walk"]
  /\ live' = live \cup {e}
  /\ MovePtrs(e, x)
  /\ nx' = next_'[e]
  /\ UNCHANGED <<linked, service, strays, mishap>>

(* The pointer to the following member is read, the member forgets its     *)
(* service, and its shutdown() begins.                                     *)
ShutdownVisit(x) ==
  /\ ~ mishap /\ stage[x] = "walk" /\ nx # e
  /\ stage' = [stage EXCEPT ![x] = "shutdown"]
  /\ nx' = next_[nx]
  /\ service' = [service EXCEPT ![nx] = nullptr]
  /\ UNCHANGED <<next_, prev_, live, linked, strays, mishap>>

(* Mutant: the loop moves on by two members.                               *)
ShutdownAdvanceTwice(x) ==
  /\ ~ mishap /\ stage[x] = "shutdown"
  /\ stage' = [stage EXCEPT ![x] = "walk"]
  /\ nx' = IF nx = e THEN e ELSE next_[nx]
  /\ next_' = [next_ EXCEPT ![e] = nx]
  /\ UNCHANGED <<prev_, live, linked, service, strays, mishap>>

(* e.next_ = nx = nnx.                                                     *)
ShutdownAdvance(x) ==
  /\ ~ mishap /\ stage[x] = "shutdown"
  /\ stage' = [stage EXCEPT ![x] = "walk"]
  /\ next_' = [next_ EXCEPT ![e] = nx]
  /\ UNCHANGED <<prev_, live, linked, service, nx, strays, mishap>>

ShutdownEnd(x) ==
  /\ ~ mishap /\ stage[x] = "walk" /\ nx = e
  /\ stage' = [stage EXCEPT ![x] = "down"]
  /\ live' = live \ {e}
  /\ next_' = [next_ EXCEPT ![e] = e] /\ prev_' = [prev_ EXCEPT ![e] = e]
  /\ UNCHANGED <<linked, service, nx, strays, mishap>>

(* The context destroys its services after all of them were shut down.     *)
DestroyService(x) ==
  /\ ~ mishap /\ stage[x] = "down" /\ x \in live
  /\ live' = live \ {x}
  /\ UNCHANGED <<next_, prev_, linked, service, stage, nx, strays, mishap>>

-----------------------------------------------------------------------------
SInit ==
  /\ live = Contexts /\ linked = {}
  /\ next_ = [n \in Node |-> n] /\ prev_ = [n \in Node |-> n]
  /\ service = [m \in Ops |-> nullptr]
  /\ stage = [x \in Contexts |-> "up"]
  /\ nx = e /\ strays = {} /\ mishap = FALSE

ShutdownStep(x) == ShutdownVisit(x) \/ ShutdownAdvance(x) \/ ShutdownEnd(x)

SNext ==
  \/ \E m \in Ops, x \in Contexts : ConstructMember(m, x)
  \/ \E m, from \in Ops : MoveConstructMember(m, from) \/ MoveAssign(m, from)
  \/ \E m \in Ops : DestroyMember(m)
  \/ \E x \in Contexts : ShutdownBegin(x) \/ ShutdownStep(x) \/ DestroyService(x)

SSpec == SInit /\ [][SNext]_svars

(* The thread that destroys a context goes on.                             *)
SFairSpec == SSpec /\ \A x \in Contexts : WF_svars(ShutdownStep(x))

-----------------------------------------------------------------------------
(* A member never keeps a pointer to a service that is gone, which its     *)
(* destructor and its moves would follow (service.hpp:73, 92): shutdown()  *)
(* reaches every member first, although members are moved and destroyed    *)
(* while it walks.  The exceptions are members that were registered when   *)
(* the shutdown had begun, and the sources of move assignments from one    *)
(* context to another.                                                     *)
ServiceOutlivesMembers ==
  ~ mishap => \A m \in linked \ strays : service[m] = nullptr \/ Reachable(m)

(* What a destructor or shutdown() will touch lives: the neighbours of     *)
(* every member that is still going to unlink itself, and the member the   *)
(* walk goes on with.  shutdown() leaves the members it has visited in the *)
(* ring, where they are destroyed without being unlinked (service.hpp:91), *)
(* and keeps one pointer over each member's shutdown() (service.ipp:30):   *)
(* destroying the member it names is the mishap that leads it astray.      *)
RegistryStaysLinked ==
  ~ mishap =>
    /\ Walking => nx \in linked \cup {e}
    /\ \A m \in linked \ strays :
         service[m] # nullptr /\ ~ PullsAway(m) =>
           /\ {next_[m], prev_[m]} \subseteq Active
           /\ prev_[next_[m]] = m /\ next_[prev_[m]] = m

(* A member that is registered when its context is destroyed is shut down  *)
(* (so that its waiting operations end) unless it is destroyed itself or   *)
(* assigned to before its turn comes.                                      *)
EveryMemberIsShutDown ==
  \A m \in Ops, x \in Contexts :
    (m \in linked \ strays /\ service[m] = x /\ stage[x] # "up")
      ~> (service[m] # x \/ m \notin linked \/ m \in strays \/ mishap)
=============================================================================
