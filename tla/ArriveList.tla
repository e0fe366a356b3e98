----------------------------- MODULE ArriveList ------------------------------
(***************************************************************************)
(* The blocking barrier_impl::arrive on the pointers of its waiter list.   *)
(* The last thread to arrive links its operation like everybody else, lets *)
(* complete_all unlink all of them and then unlinks its own once more,     *)
(* through the pointers that the first unlink has left behind.  The thread *)
(* holds mtx_, so no other call comes between these steps.                 *)
(***************************************************************************)
EXTENDS Bilist

VARIABLE arriving    \* {<<o, h>>}: the last arrival o is under way in h; else {}

arrivevars == <<next_, prev_, live, linked, arriving>>

(* add_waiter(&op), and counter_ becomes 0.                                *)
ArriveLast(o, h) ==
  /\ AddWaiter(o, h)
  /\ arriving' = {<<o, h>>}

(* A round of waiters_.complete_all({}).                                   *)
ArriveComplete(h) == CompleteFront(h) /\ UNCHANGED arriving

(* op.unlink(), when the loop has found the list empty.                    *)
ArriveUnlink(o, h) ==
  /\ next_[h] = h
  /\ UnlinkPtrs(o)
  /\ arriving' = {}
  /\ UNCHANGED <<live, linked>>

ArriveInit == Init /\ arriving = {}

ArriveNext ==
  \/ /\ arriving = {}
     /\ \/ Next /\ UNCHANGED arriving
        \/ \E o \in Ops, h \in Holders : ArriveLast(o, h)
  \/ \E o \in Ops, h \in Holders :
       <<o, h>> \in arriving /\ (ArriveComplete(h) \/ ArriveUnlink(o, h))

ArriveSpec == ArriveInit /\ [][ArriveNext]_arrivevars
=============================================================================
