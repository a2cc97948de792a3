------------------------------ MODULE Monitor ------------------------------
(***************************************************************************)
(* What threads/synch.h promises of locks and condition variables: mutual  *)
(* exclusion, and monitors of the "Mesa" style.  Each operation is one     *)
(* atomic step; there is no scheduler and there are no semaphores.         *)
(***************************************************************************)
EXTENDS Naturals, Sequences

CONSTANTS Thread, NULL, Lock, Cond, CondLock

VARIABLES
  owner,     \* owner[l]: the thread that has lock l, or NULL
  waiting,   \* waiting[c]: the threads that wait for c, in order of arrival
  resuming   \* resuming[t]: the condition whose signal t got in cond_wait, while
             \* it has not yet got the lock back

vars == <<owner, waiting, resuming>>

Init ==
  /\ owner = [l \in Lock |-> NULL]
  /\ waiting = [c \in Cond |-> <<>>]
  /\ resuming = [t \in Thread |-> NULL]

InCondWait(t) ==
  resuming[t] # NULL \/ \E c \in Cond : \E i \in 1 .. Len(waiting[c]) : waiting[c][i] = t

Acquire(t, l) ==
  /\ ~ InCondWait(t)
  /\ owner[l] = NULL
  /\ owner' = [owner EXCEPT ![l] = t]
  /\ UNCHANGED <<waiting, resuming>>

Release(t, l) ==
  /\ owner[l] = t
  /\ owner' = [owner EXCEPT ![l] = NULL]
  /\ UNCHANGED <<waiting, resuming>>

(* "Atomically releases LOCK and waits for COND to be signaled". *)
Wait(t, c) ==
  /\ owner[CondLock[c]] = t
  /\ owner' = [owner EXCEPT ![CondLock[c]] = NULL]
  /\ waiting' = [waiting EXCEPT ![c] = Append(@, t)]
  /\ UNCHANGED resuming

(* "If any threads are waiting on COND, ... signals one of them": the first. *)
Signal(t, c) ==
  /\ owner[CondLock[c]] = t
  /\ waiting[c] # <<>>
  /\ waiting' = [waiting EXCEPT ![c] = Tail(@)]
  /\ resuming' = [resuming EXCEPT ![Head(waiting[c])] = c]
  /\ UNCHANGED owner

(* "Wakes up all threads, if any, waiting on COND". *)
Broadcast(t, c) ==
  /\ owner[CondLock[c]] = t
  /\ waiting[c] # <<>>
  /\ waiting' = [waiting EXCEPT ![c] = <<>>]
  /\ resuming' = [u \in Thread |-> IF \E i \in 1 .. Len(waiting[c]) : waiting[c][i] = u
                                   THEN c ELSE resuming[u]]
  /\ UNCHANGED owner

(* "After COND is signaled, LOCK is reacquired before returning". *)
Resume(t, c) ==
  /\ resuming[t] = c
  /\ owner[CondLock[c]] = NULL
  /\ owner' = [owner EXCEPT ![CondLock[c]] = t]
  /\ resuming' = [resuming EXCEPT ![t] = NULL]
  /\ UNCHANGED waiting

Next ==
  \E t \in Thread :
    \/ \E l \in Lock : Acquire(t, l) \/ Release(t, l)
    \/ \E c \in Cond : Wait(t, c) \/ Signal(t, c) \/ Broadcast(t, c) \/ Resume(t, c)

Spec == Init /\ [][Next]_vars
=============================================================================
