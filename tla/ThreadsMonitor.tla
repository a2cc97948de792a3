--------------------------- MODULE ThreadsMonitor ---------------------------
(***************************************************************************)
(* The locks and condition variables of module Threads implement module    *)
(* Monitor.                                                                *)
(***************************************************************************)
EXTENDS Threads

(* A thread has the lock from the end of sema_down to the start of sema_up. *)
OwnerOf(l) == IF \E t \in Thread : Owns(t, l)
              THEN CHOOSE t \in Thread : Owns(t, l)
              ELSE NULL

(* cond_wait puts the thread at the end of the list before it releases the  *)
(* lock; the abstract wait happens when the lock goes.                      *)
Joining(t, c) == pc[t] \in {"lock_release", "lock_up"} /\ obj[t] = c

Front(q) == SubSeq(q, 1, Len(q) - 1)

(* cond_broadcast takes the waiters off one by one, holding the lock all    *)
(* the time; the abstract one happens with the first.                       *)
Broadcasting(c) ==
  \E t \in Thread : pc[t] \in {"broadcast", "broadcast_up"} /\ obj[t] = c

WaitingOn(c) == IF Broadcasting(c) THEN <<>>
                ELSE IF \E t \in Thread : Joining(t, c) THEN Front(cond_waiters[c])
                ELSE cond_waiters[c]

ResumingFrom(t) ==
  IF /\ pc[t] \in {"cond_sleep", "lock_down"}
     /\ obj[t] \in Cond
     /\ ~ In(t, WaitingOn(obj[t]))
  THEN obj[t] ELSE NULL

owner    == [l \in Lock |-> OwnerOf(l)]
waiting  == [c \in Cond |-> WaitingOn(c)]
resuming == [t \in Thread |-> ResumingFrom(t)]

M == INSTANCE Monitor WITH owner <- owner, waiting <- waiting, resuming <- resuming

(* Locks and condition variables behave as the atomic monitor operations     *)
(* that the comments in synch.c describe, at every interleaving of the       *)
(* separate list, holder and semaphore updates.                              *)
ImplementsMonitor == M!Spec
=============================================================================
