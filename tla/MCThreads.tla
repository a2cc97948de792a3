----------------------------- MODULE MCThreads -----------------------------
(* Threads for TLC.  A behaviour uses either a semaphore, which a device's   *)
(* handler also ups, or a lock with a condition variable, as use says.       *)
EXTENDS ThreadsMonitor, TLC

CONSTANTS main, t1, t2, t3, s1, idle_started, tid_lock, l1, c1

VARIABLE use

FourPages == {main, t1, t2, t3}
OneCondLock == [c \in {c1} |-> l1]

MCInit == Init /\ use \in {"sema", "cond"}

(* palloc_get_page finds the first page that is free. *)
Pages == <<t1, t2, t3>>
FirstFit ==
  \A i, j \in 1 .. 3 : i < j /\ status[Pages[i]] = "FREE" /\ status[Pages[j]] = "FREE" => status'[Pages[j]] = "FREE"

(* One thread less is created where the lock is used. *)
MCNext ==
  /\ Next
  /\ FirstFit
  /\ UNCHANGED use
  /\ use = "sema" => UNCHANGED value[l1]
  /\ use = "cond" => UNCHANGED <<value[s1], waiters[s1]>> /\ next_tid' <= MaxTid

MCSpec == MCInit /\ [][MCNext]_<<vars, use>> /\ Fairness
=============================================================================
