--------------------------- MODULE ThreadsProofs ----------------------------
(***************************************************************************)
(* Proofs about module Threads, for any number of threads, semaphores,     *)
(* locks and condition variables: the inductive invariant IInv (types, the *)
(* exclusive use of the list element of struct thread, where each thread   *)
(* is), that every operation of thread.c and synch.c preserves it, and the *)
(* theorems that follow from it, mutual exclusion of locks among them;     *)
(* then that no signal of a condition variable is lost or delivered twice, *)
(* and that locks and condition variables together implement the monitors  *)
(* of module Monitor.  WakeupProofs goes on from here.                     *)
(***************************************************************************)
EXTENDS ThreadsMonitor, TLAPS
-----------------------------------------------------------------------------
(* Lists. *)

(* What list_push_back does to the members of a list. *)
LEMMA InAppend ==
  ASSUME NEW S, NEW q \in Seq(S), NEW y \in S, NEW x
  PROVE  In(x, Append(q, y)) <=> In(x, q) \/ x = y
  <1>1. Append(q, y) \in Seq(S) /\ Len(Append(q, y)) = Len(q) + 1 /\ Len(q) \in Nat
    OBVIOUS
  <1>2. Append(q, y)[Len(q) + 1] = y /\ \A i \in 1 .. Len(q) : Append(q, y)[i] = q[i]
    OBVIOUS
  <1>3. ASSUME In(x, Append(q, y)) PROVE In(x, q) \/ x = y
    <2>1. PICK i \in 1 .. Len(q) + 1 : Append(q, y)[i] = x
      BY <1>1, <1>3, Zenon DEF In
    <2>2. CASE i = Len(q) + 1
      BY <2>1, <2>2, <1>2, Zenon
    <2>3. CASE i \in 1 .. Len(q)
      BY <2>1, <2>3, <1>2, Zenon DEF In
    <2>4. QED
      BY <2>2, <2>3, <1>1
  <1>4. ASSUME In(x, q) PROVE In(x, Append(q, y))
    <2>1. PICK i \in 1 .. Len(q) : q[i] = x
      BY <1>4, Zenon DEF In
    <2>2. i \in 1 .. Len(Append(q, y)) /\ Append(q, y)[i] = x
      BY <2>1, <1>1, <1>2
    <2>3. QED
      BY <2>2, Zenon DEF In
  <1>5. In(y, Append(q, y))
    <2>1. Len(q) + 1 \in 1 .. Len(Append(q, y))
      BY <1>1
    <2>2. QED
      BY <2>1, <1>2, Zenon DEF In
  <1>6. QED
    BY <1>3, <1>4, <1>5, Zenon

LEMMA NoDuplicatesAppend ==
  ASSUME NEW S, NEW q \in Seq(S), NEW y \in S, NoDuplicates(q), ~ In(y, q)
  PROVE  NoDuplicates(Append(q, y))
  <1>1. Append(q, y) \in Seq(S) /\ Len(Append(q, y)) = Len(q) + 1 /\ Len(q) \in Nat
    OBVIOUS
  <1>2. Append(q, y)[Len(q) + 1] = y /\ \A i \in 1 .. Len(q) : Append(q, y)[i] = q[i]
    OBVIOUS
  <1>3. \A i \in 1 .. Len(q) : q[i] # y
    BY Zenon DEF In
  <1>4. \A i, j \in 1 .. Len(q) : q[i] = q[j] => i = j
    BY Zenon DEF NoDuplicates
  <1>5. \A i, j \in 1 .. Len(q) + 1 : Append(q, y)[i] = Append(q, y)[j] => i = j
    <2> SUFFICES ASSUME NEW i \in 1 .. Len(q) + 1, NEW j \in 1 .. Len(q) + 1,
                        Append(q, y)[i] = Append(q, y)[j]
                 PROVE  i = j
      BY Zenon
    <2>1. CASE i \in 1 .. Len(q) /\ j \in 1 .. Len(q)
      BY <2>1, <1>2, <1>4, Zenon
    <2>2. CASE i \in 1 .. Len(q) /\ j = Len(q) + 1
      BY <2>2, <1>2, <1>3, Zenon
    <2>3. CASE i = Len(q) + 1 /\ j \in 1 .. Len(q)
      BY <2>3, <1>2, <1>3, Zenon
    <2>4. CASE i = Len(q) + 1 /\ j = Len(q) + 1
      BY <2>4, Zenon
    <2>5. QED
      BY <2>1, <2>2, <2>3, <2>4, <1>1
  <1>6. QED
    BY <1>1, <1>5, Zenon DEF NoDuplicates

(* What list_pop_front does to a list without duplicates. *)
LEMMA PopFront ==
  ASSUME NEW S, NEW q \in Seq(S), q # <<>>
  PROVE  /\ Tail(q) \in Seq(S)
         /\ Head(q) \in S
         /\ In(Head(q), q)
         /\ \A x : In(x, q) <=> x = Head(q) \/ In(x, Tail(q))
         /\ NoDuplicates(q) => NoDuplicates(Tail(q)) /\ ~ In(Head(q), Tail(q))
  <1>1. /\ Len(q) \in Nat \ {0}
        /\ Tail(q) \in Seq(S)
        /\ Len(Tail(q)) = Len(q) - 1
        /\ Head(q) = q[1]
        /\ Head(q) \in S
    OBVIOUS
  <1>2. \A i \in 1 .. Len(q) - 1 : Tail(q)[i] = q[i + 1]
    BY <1>1
  <1>3. In(Head(q), q)
    <2>1. 1 \in 1 .. Len(q)
      BY <1>1
    <2>2. QED
      BY <2>1, <1>1, Zenon DEF In
  <1>4. ASSUME NEW x, In(x, q) PROVE x = Head(q) \/ In(x, Tail(q))
    <2>1. PICK i \in 1 .. Len(q) : q[i] = x
      BY <1>4, Zenon DEF In
    <2>2. CASE i = 1
      BY <2>1, <2>2, <1>1, Zenon
    <2>3. CASE i # 1
      <3>1. i - 1 \in 1 .. Len(Tail(q)) /\ Tail(q)[i - 1] = q[i]
        BY <2>3, <1>1, <1>2
      <3>2. QED
        BY <3>1, <2>1, Zenon DEF In
    <2>4. QED
      BY <2>2, <2>3, Zenon
  <1>5. ASSUME NEW x, In(x, Tail(q)) PROVE In(x, q)
    <2>1. PICK i \in 1 .. Len(Tail(q)) : Tail(q)[i] = x
      BY <1>5, Zenon DEF In
    <2>2. i + 1 \in 1 .. Len(q) /\ q[i + 1] = x
      BY <2>1, <1>1, <1>2
    <2>3. QED
      BY <2>2, Zenon DEF In
  <1>6. ASSUME NoDuplicates(q) PROVE NoDuplicates(Tail(q)) /\ ~ In(Head(q), Tail(q))
    <2>1. \A i, j \in 1 .. Len(q) : q[i] = q[j] => i = j
      BY <1>6, Zenon DEF NoDuplicates
    <2>2. ASSUME NEW i \in 1 .. Len(Tail(q)), NEW j \in 1 .. Len(Tail(q)),
                 Tail(q)[i] = Tail(q)[j]
          PROVE  i = j
      <3>1. i + 1 \in 1 .. Len(q) /\ j + 1 \in 1 .. Len(q) /\ q[i + 1] = q[j + 1]
        BY <2>2, <1>1, <1>2
      <3>2. i + 1 = j + 1
        BY <3>1, <2>1, Zenon
      <3>3. QED
        BY <3>2, <1>1
    <2>3. ASSUME In(Head(q), Tail(q)) PROVE FALSE
      <3>1. PICK i \in 1 .. Len(Tail(q)) : Tail(q)[i] = Head(q)
        BY <2>3, Zenon DEF In
      <3>2. i + 1 \in 1 .. Len(q) /\ q[i + 1] = q[1] /\ 1 \in 1 .. Len(q) /\ i + 1 # 1
        BY <3>1, <1>1, <1>2
      <3>3. QED
        BY <3>2, <2>1, Zenon
    <2>4. QED
      BY <2>2, <2>3, Zenon DEF NoDuplicates
  <1>7. QED
    BY <1>1, <1>3, <1>4, <1>5, <1>6, Zenon

LEMMA EmptyList == NoDuplicates(<<>>) /\ \A x : ~ In(x, <<>>)
  BY DEF NoDuplicates, In
-----------------------------------------------------------------------------
(* The inductive invariant. *)

(* The processor and the run queue. *)
OneRunning == \A t \in Thread : status[t] = "RUNNING" <=> t = current

RunQueue ==
  /\ NoDuplicates(ready_list)
  /\ \A t \in Thread : In(t, ready_list) => status[t] = "READY"
  /\ \A t \in Thread : status[t] = "READY" => t = idle_thread \/ In(t, ready_list)
  /\ idle_thread # NULL => ~ In(idle_thread, ready_list)

SchedType ==
  /\ current \in Thread
  /\ status \in [Thread -> Status]
  /\ ready_list \in Seq(Thread)
  /\ thread_ticks \in 0 .. TIME_SLICE - 1

SchedOK == SchedType /\ OneRunning /\ RunQueue

(* Wait lists hold blocked threads that are inside sema_down. *)
WaitLists ==
  \A s \in AllSema :
    /\ NoDuplicates(waiters[s])
    /\ \A t \in Thread : In(t, waiters[s]) => status[t] = "BLOCKED" /\ WaitsIn(t, s)

(* Start-up: until the idle thread has published itself it can be found on   *)
(* the run queue, so that schedule has a thread to run.                      *)
IdleLabel == {"idle_up", "idle_block", "idle_hlt"}

IdleInv ==
  /\ idle_thread # NULL => pc[idle_thread] \in IdleLabel
  /\ \A t \in Thread : pc[t] \in IdleLabel => t = idle_thread
  /\ \A t \in Thread : pc[t] = "idle_init" =>
       idle_thread = NULL /\ \A u \in Thread : pc[u] = "idle_init" => u = t
  /\ \A t \in Thread : pc[t] = "boot" =>
       t = current /\ idle_thread = NULL /\ \A u \in Thread : pc[u] # "idle_init"

StartInv ==
  idle_thread = NULL /\ pc[current] # "boot" =>
    \E u \in Thread : pc[u] = "idle_init" /\ (u = current \/ In(u, ready_list))

FreeInv == \A t \in Thread : status[t] = "FREE" => pc[t] = "free"

(* Thread creation: the new thread is blocked on no list until its creator,  *)
(* and nobody else, unblocks it.                                             *)
CreatorAt(t) ==
  \/ pc[t] \in {"lock_down", "lock_set", "lock_release", "lock_up"} /\ obj[t] = TidLock
  \/ pc[t] \in {"tid_read", "tid_write", "unblock"}

CreateInv ==
  /\ \A t \in Thread : CreatorAt(t) =>
       peer[t] \in Thread /\ status[peer[t]] = "BLOCKED" /\ pc[peer[t]] = "run"
  /\ \A t, u \in Thread : CreatorAt(t) /\ CreatorAt(u) /\ peer[t] = peer[u] => t = u

(* What the object and the peer of a call are, at each label. *)
PlaceAt(t) ==
  /\ pc[t] = "sema_down" => obj[t] \in Sema \cup {IdleStarted}
  /\ pc[t] \in {"lock_down", "lock_set", "lock_release", "lock_up"} => obj[t] \in Lock \cup Cond
  /\ pc[t] \in {"cond_sleep", "signal_up", "broadcast", "broadcast_up"} => obj[t] \in Cond
  /\ pc[t] \in {"tid_read", "tid_write"} => obj[t] = TidLock
  /\ pc[t] \in {"signal_up", "broadcast_up"} => peer[t] \in Thread

PlaceInv == \A t \in Thread : PlaceAt(t)

IInv ==
  /\ TypeOK
  /\ SchedOK
  /\ WaitLists
  /\ IdleInv
  /\ StartInv
  /\ FreeInv
  /\ CreateInv
  /\ PlaceInv
-----------------------------------------------------------------------------
(* The scheduler's primitives keep the run queue in order. *)

(* schedule: the thread switched to was in the run queue, or is the idle     *)
(* thread; the others keep their state, and their place in the queue.        *)
LEMMA ScheduleLemma ==
  ASSUME SchedType, idle_thread \in Thread \cup {NULL},
         NEW st \in [Thread -> Status], NEW rl \in Seq(Thread),
         \A t \in Thread : st[t] # "RUNNING",
         NoDuplicates(rl),
         \A t \in Thread : In(t, rl) => st[t] = "READY",
         \A t \in Thread : st[t] = "READY" => t = idle_thread \/ In(t, rl),
         idle_thread # NULL => ~ In(idle_thread, rl),
         rl # <<>> \/ idle_thread # NULL,
         Schedule(st, rl), UNCHANGED idle_thread
  PROVE  /\ SchedOK'
         /\ current' = idle_thread \/ In(current', rl)
         /\ \A t \in Thread : In(t, rl) => t = current' \/ In(t, ready_list')
         /\ \A t \in Thread : t # current' =>
              status'[t] = IF t = current THEN AfterSwitch(t, st[t]) ELSE st[t]
  <1> DEFINE next == NextToRun(rl)
  <1> USE ThreadsAssumption
  <1>1. next \in Thread
    BY PopFront, Zenon DEF NextToRun
  <1>2. next = idle_thread \/ In(next, rl)
    BY PopFront, Zenon DEF NextToRun
  <1>3. /\ current' = next
        /\ ready_list' = (IF rl = <<>> THEN rl ELSE Tail(rl))
        /\ status' = [t \in Thread |-> IF t = next THEN "RUNNING"
                                       ELSE IF t = current THEN AfterSwitch(t, st[t])
                                       ELSE st[t]]
        /\ thread_ticks' = 0
    BY Zenon DEF Schedule
  <1> HIDE DEF next
  <1>4. SchedType'
    <2>1. ready_list' \in Seq(Thread)
      BY <1>3, PopFront, Zenon
    <2>2. status' \in [Thread -> Status]
      BY <1>3, Zenon DEF AfterSwitch, Status
    <2>3. QED
      BY <1>1, <1>3, <2>1, <2>2 DEF SchedType
  <1>5. OneRunning'
    BY <1>1, <1>3, Zenon DEF OneRunning, AfterSwitch
  <1>6. /\ \A t \in Thread : In(t, rl) <=> (rl # <<>> /\ (t = next \/ In(t, ready_list')))
        /\ NoDuplicates(ready_list')
        /\ rl # <<>> => next = Head(rl) /\ ~ In(next, ready_list')
        /\ \A t \in Thread : In(t, ready_list') => t # next /\ In(t, rl)
    BY <1>3, PopFront, EmptyList DEF next, NextToRun
  <1>7. RunQueue'
    <2>1. \A t \in Thread : In(t, ready_list') => status'[t] = "READY"
      BY <1>3, <1>6, Zenon DEF AfterSwitch
    <2>2. \A t \in Thread : status'[t] = "READY" => t = idle_thread \/ In(t, ready_list')
      BY <1>3, <1>6, Zenon DEF AfterSwitch
    <2>3. QED
      BY <2>1, <2>2, <1>6, Zenon DEF RunQueue
  <1>8. QED
    BY <1>2, <1>3, <1>4, <1>5, <1>6, <1>7, Zenon DEF SchedOK

(* thread_block by a running thread. *)
LEMMA BlockLemma ==
  ASSUME SchedOK, idle_thread \in Thread \cup {NULL},
         ready_list # <<>> \/ idle_thread # NULL,
         Block(current), UNCHANGED idle_thread
  PROVE  /\ SchedOK'
         /\ current' = idle_thread \/ In(current', ready_list)
         /\ \A t \in Thread : In(t, ready_list) => t = current' \/ In(t, ready_list')
         /\ \A t \in Thread : t # current' =>
              status'[t] = IF t = current THEN "BLOCKED" ELSE status[t]
  <1> DEFINE st == [status EXCEPT ![current] = "BLOCKED"]
  <1>1. st \in [Thread -> Status] /\ Schedule(st, ready_list)
    BY Zenon DEF SchedOK, SchedType, Block, Status
  <1>2. \A t \in Thread : st[t] = IF t = current THEN "BLOCKED" ELSE status[t]
    BY Zenon DEF SchedOK, SchedType
  <1> HIDE DEF st
  <1>3. /\ \A t \in Thread : st[t] # "RUNNING"
        /\ \A t \in Thread : In(t, ready_list) => st[t] = "READY"
        /\ \A t \in Thread : st[t] = "READY" => t = idle_thread \/ In(t, ready_list)
    BY <1>2, Zenon DEF SchedOK, OneRunning, RunQueue
  <1>4. SchedType /\ NoDuplicates(ready_list) /\ ready_list \in Seq(Thread)
        /\ (idle_thread # NULL => ~ In(idle_thread, ready_list))
    BY Zenon DEF SchedOK, SchedType, RunQueue
  <1>5. /\ SchedOK'
        /\ current' = idle_thread \/ In(current', ready_list)
        /\ \A t \in Thread : In(t, ready_list) => t = current' \/ In(t, ready_list')
        /\ \A t \in Thread : t # current' =>
             status'[t] = IF t = current THEN AfterSwitch(t, st[t]) ELSE st[t]
    BY <1>1, <1>3, <1>4, ScheduleLemma, Zenon
  <1>6. QED
    BY <1>2, <1>5, Zenon DEF AfterSwitch

(* thread_yield by the running thread. *)
LEMMA YieldLemma ==
  ASSUME SchedOK, idle_thread \in Thread \cup {NULL},
         Yield(current), UNCHANGED idle_thread
  PROVE  /\ SchedOK'
         /\ current' = idle_thread \/ current' = current \/ In(current', ready_list)
         /\ \A t \in Thread : In(t, ready_list) => t = current' \/ In(t, ready_list')
         /\ idle_thread = NULL => current = current' \/ In(current, ready_list')
         /\ \A t \in Thread : t # current' =>
              status'[t] = IF t = current THEN "READY" ELSE status[t]
  <1> DEFINE st == [status EXCEPT ![current] = "READY"]
             rl == IF current = idle_thread THEN ready_list ELSE Append(ready_list, current)
  <1>1. st \in [Thread -> Status] /\ Schedule(st, rl)
    BY Zenon DEF SchedOK, SchedType, Yield, Status
  <1>2. \A t \in Thread : st[t] = IF t = current THEN "READY" ELSE status[t]
    BY Zenon DEF SchedOK, SchedType
  <1>3. rl \in Seq(Thread) /\ ready_list \in Seq(Thread) /\ current \in Thread /\ SchedType
    BY DEF SchedOK, SchedType
  <1>4. \A t : In(t, rl) <=> In(t, ready_list) \/ (t = current /\ current # idle_thread)
    BY <1>3, InAppend, Zenon
  <1>5. ~ In(current, ready_list)
    BY <1>3, Zenon DEF SchedOK, OneRunning, RunQueue
  <1>6. NoDuplicates(rl)
    BY <1>3, <1>5, NoDuplicatesAppend, Zenon DEF SchedOK, RunQueue
  <1>7. rl # <<>> \/ idle_thread # NULL
    BY <1>3, ThreadsAssumption
  <1> HIDE DEF st, rl
  <1>8. /\ \A t \in Thread : st[t] # "RUNNING"
        /\ \A t \in Thread : In(t, rl) => st[t] = "READY"
        /\ \A t \in Thread : st[t] = "READY" => t = idle_thread \/ In(t, rl)
        /\ idle_thread # NULL => ~ In(idle_thread, rl)
    BY <1>2, <1>3, <1>4, Zenon DEF SchedOK, OneRunning, RunQueue
  <1>9. /\ SchedOK'
        /\ current' = idle_thread \/ In(current', rl)
        /\ \A t \in Thread : In(t, rl) => t = current' \/ In(t, ready_list')
        /\ \A t \in Thread : t # current' =>
             status'[t] = IF t = current THEN AfterSwitch(t, st[t]) ELSE st[t]
    BY <1>1, <1>3, <1>6, <1>7, <1>8, ScheduleLemma, Zenon
  <1>10. QED
    BY <1>2, <1>3, <1>4, <1>9, ThreadsAssumption, Zenon DEF AfterSwitch

(* thread_unblock of a blocked thread. *)
LEMMA UnblockLemma ==
  ASSUME SchedOK, NEW u \in Thread, status[u] = "BLOCKED", u # idle_thread,
         Unblock(u), UNCHANGED idle_thread
  PROVE  /\ SchedOK'
         /\ UNCHANGED current
         /\ \A t : In(t, ready_list') <=> In(t, ready_list) \/ t = u
         /\ \A t \in Thread : status'[t] = IF t = u THEN "READY" ELSE status[t]
  <1>1. /\ ready_list' = Append(ready_list, u)
        /\ status' = [status EXCEPT ![u] = "READY"]
        /\ UNCHANGED <<current, thread_ticks>>
        /\ ready_list \in Seq(Thread) /\ status \in [Thread -> Status]
    BY Zenon DEF Unblock, SchedOK, SchedType
  <1>2. ~ In(u, ready_list)
    BY Zenon DEF SchedOK, RunQueue
  <1>3. \A t : In(t, ready_list') <=> In(t, ready_list) \/ t = u
    BY <1>1, InAppend, Zenon
  <1>4. NoDuplicates(ready_list')
    BY <1>1, <1>2, NoDuplicatesAppend, Zenon DEF SchedOK, RunQueue
  <1>5. \A t \in Thread : status'[t] = IF t = u THEN "READY" ELSE status[t]
    BY <1>1, Zenon
  <1>6. SchedType'
    BY <1>1 DEF SchedOK, SchedType, Status
  <1>7. OneRunning'
    BY <1>1, <1>5, Zenon DEF SchedOK, OneRunning
  <1>8. RunQueue'
    BY <1>3, <1>4, <1>5, Zenon DEF SchedOK, RunQueue
  <1>9. QED
    BY <1>1, <1>3, <1>5, <1>6, <1>7, <1>8, Zenon DEF SchedOK
-----------------------------------------------------------------------------
(* Semaphores. *)

(* The thread blocks in sema_down of s when it waits at label l in a call on o. *)
WaitPlace(t, s, o, l) ==
  \/ l = "sema_down" /\ o = s
  \/ l = "lock_down" /\ s = IF o \in Cond THEN CondLock[o] ELSE o
  \/ l = "cond_sleep" /\ s = t

StartLabel == IdleLabel \cup {"idle_init", "boot"}

(* A thread that does not move stays in the call it is in. *)
LEMMA WaitsInSame ==
  ASSUME NEW u \in Thread, NEW s, pc'[u] = pc[u], obj'[u] = obj[u]
  PROVE  WaitsIn(u, s)' <=> WaitsIn(u, s)
  BY Zenon DEF WaitsIn, LockOf

(* A thread that can block leaves somebody to run. *)
LEMMA HasNext ==
  ASSUME IInv, pc[current] \notin {"idle_init", "boot"}
  PROVE  ready_list # <<>> \/ idle_thread # NULL
  BY EmptyList, Zenon DEF IInv, StartInv

(* One turn of sema_down's loop by the current thread. *)
LEMMA DownLemma ==
  ASSUME IInv, NEW t \in Thread, t = current, pc[t] \notin StartLabel,
         NEW s \in AllSema, NEW o \in AllSema \cup Cond,
         NEW wait \in Label \ StartLabel, NEW done \in Label \ StartLabel,
         WaitPlace(t, s, o, wait),
         DownStep(t, s, o, wait, done), UNCHANGED idle_thread
  PROVE  /\ SchedOK' /\ WaitLists' /\ StartInv'
         /\ value' \in [AllSema -> Nat] /\ waiters' \in [AllSema -> Seq(Thread)]
         /\ pc' \in [Thread -> Label] /\ obj' \in [Thread -> AllSema \cup Cond \cup {NULL}]
         /\ \A u \in Thread : u # t => pc'[u] = pc[u] /\ obj'[u] = obj[u]
         /\ \/ pc'[t] = wait /\ obj'[t] = o
            \/ pc'[t] = done /\ obj'[t] = IF done = "run" THEN NULL ELSE o
         /\ \A u \in Thread : status'[u] = "FREE" => status[u] = "FREE"
         /\ \A u \in Thread : status[u] = "BLOCKED" /\ pc[u] = "run" => status'[u] = "BLOCKED"
  <1> USE DEF IInv
  <1>0. /\ SchedOK /\ WaitLists /\ StartInv /\ TypeOK
        /\ pc \in [Thread -> Label] /\ obj \in [Thread -> AllSema \cup Cond \cup {NULL}]
        /\ value \in [AllSema -> Nat] /\ waiters \in [AllSema -> Seq(Thread)]
        /\ status[t] = "RUNNING"
    BY Zenon DEF TypeOK, SchedOK, OneRunning
  <1>1. CASE /\ value[s] = 0
             /\ waiters' = [waiters EXCEPT ![s] = Append(@, t)]
             /\ Block(t)
             /\ Goto(t, wait, o)
             /\ UNCHANGED value
    <2>1. /\ SchedOK'
          /\ current' = idle_thread \/ In(current', ready_list)
          /\ \A u \in Thread : In(u, ready_list) => u = current' \/ In(u, ready_list')
          /\ \A u \in Thread : u # current' =>
               status'[u] = IF u = current THEN "BLOCKED" ELSE status[u]
      <3>1. ready_list # <<>> \/ idle_thread # NULL
        BY HasNext, Zenon DEF StartLabel
      <3>2. QED
        BY <1>1, <3>1, BlockLemma, Zenon DEF TypeOK
    <2>2. /\ pc' = [pc EXCEPT ![t] = wait] /\ obj' = [obj EXCEPT ![t] = o]
      BY <1>1, Zenon DEF Goto
    <2>3. /\ pc' \in [Thread -> Label] /\ obj' \in [Thread -> AllSema \cup Cond \cup {NULL}]
          /\ pc'[t] = wait /\ obj'[t] = o
          /\ \A u \in Thread : u # t => pc'[u] = pc[u] /\ obj'[u] = obj[u]
      BY <2>2, <1>0, Zenon
    <2>4. waiters' \in [AllSema -> Seq(Thread)]
      BY <1>0, <1>1
    <2>5. \A x \in AllSema : \A u : In(u, waiters'[x]) <=> In(u, waiters[x]) \/ (x = s /\ u = t)
      <3>1. \A x \in AllSema : waiters'[x] = IF x = s THEN Append(waiters[s], t) ELSE waiters[x]
        BY <1>0, <1>1, Zenon
      <3>2. QED
        BY <1>0, <3>1, InAppend
    <2>6. \A x \in AllSema : ~ In(t, waiters[x])
      BY <1>0, Zenon DEF WaitLists
    <2>7. \A x \in AllSema : NoDuplicates(waiters'[x])
      <3>1. \A x \in AllSema : waiters'[x] = IF x = s THEN Append(waiters[s], t) ELSE waiters[x]
        BY <1>0, <1>1, Zenon
      <3>2. NoDuplicates(Append(waiters[s], t))
        BY <1>0, <2>6, NoDuplicatesAppend, Zenon DEF WaitLists
      <3>3. QED
        BY <1>0, <3>1, <3>2, Zenon DEF WaitLists
    <2>8. idle_thread # t /\ current' # t
      <3>1. idle_thread # t
        BY <1>0, ThreadsAssumption, Zenon DEF IdleInv, StartLabel
      <3>2. QED
        BY <1>0, <2>1, <3>1, ThreadsAssumption, Zenon DEF SchedOK, RunQueue
    <2>9. \A u \in Thread, x \in AllSema : In(u, waiters[x]) => u # current'
      <3> SUFFICES ASSUME NEW u \in Thread, NEW x \in AllSema, In(u, waiters[x]), u = current'
                   PROVE  FALSE
        BY Zenon
      <3>1. status[u] = "BLOCKED" /\ pc[u] \in {"sema_down", "lock_down", "cond_sleep"}
        BY <1>0, Zenon DEF WaitLists, WaitsIn
      <3>2. u # idle_thread
        BY <3>1, ThreadsAssumption, Zenon DEF IdleInv, IdleLabel
      <3>3. QED
        BY <2>1, <3>1, <3>2, Zenon DEF SchedOK, RunQueue
    <2>10. ASSUME NEW x \in AllSema, NEW u \in Thread, In(u, waiters'[x])
           PROVE  status'[u] = "BLOCKED" /\ WaitsIn(u, x)'
      <3>1. CASE u = t
        <4>1. x = s
          BY <2>5, <2>6, <2>10, <3>1, Zenon
        <4>2. status'[u] = "BLOCKED"
          BY <2>1, <2>8, <3>1, Zenon
        <4>3. WaitsIn(t, s)'
          BY <2>3, Zenon DEF WaitsIn, WaitPlace, LockOf
        <4>4. QED
          BY <4>1, <4>2, <4>3, <3>1, Zenon
      <3>2. CASE u # t
        <4>1. In(u, waiters[x])
          BY <2>5, <2>10, <3>2, Zenon
        <4>2. status[u] = "BLOCKED" /\ WaitsIn(u, x) /\ u # current'
          BY <4>1, <1>0, <2>9, Zenon DEF WaitLists
        <4>3. pc'[u] = pc[u] /\ obj'[u] = obj[u]
          BY <3>2, <2>3, Zenon
        <4>4. QED
          BY <4>2, <4>3, <3>2, <2>1, Zenon DEF WaitsIn, LockOf
      <3>3. QED
        BY <3>1, <3>2, Zenon
    <2>11. WaitLists'
      BY <2>7, <2>10, Zenon DEF WaitLists, AllSema
    <2>12. StartInv'
      <3> SUFFICES ASSUME idle_thread = NULL
                   PROVE  \E u \in Thread : pc'[u] = "idle_init" /\ (u = current' \/ In(u, ready_list'))
        BY Zenon DEF StartInv
      <3>1. PICK u \in Thread : pc[u] = "idle_init" /\ (u = current \/ In(u, ready_list))
        BY <1>0, Zenon DEF StartInv, StartLabel
      <3>2. u # t
        BY <3>1, Zenon DEF StartLabel
      <3>3. QED
        BY <3>1, <3>2, <2>1, <2>3, Zenon
    <2>13. \A u \in Thread : status'[u] = "FREE" => status[u] = "FREE"
      BY <2>1, Zenon DEF SchedOK, OneRunning
    <2>14. ASSUME NEW u \in Thread, status[u] = "BLOCKED", pc[u] = "run"
           PROVE  status'[u] = "BLOCKED"
      <3>1. u # idle_thread
        BY <2>14, ThreadsAssumption, Zenon DEF IdleInv, IdleLabel
      <3>2. u # current'
        BY <2>1, <3>1, <2>14, Zenon DEF SchedOK, RunQueue
      <3>3. QED
        BY <3>2, <2>1, <2>14, Zenon
    <2>15. value' \in [AllSema -> Nat]
      BY <1>0, <1>1, Zenon
    <2>16. QED
      BY <2>1, <2>3, <2>4, <2>11, <2>12, <2>13, <2>14, <2>15, Zenon
  <1>2. CASE /\ value[s] > 0
             /\ value' = [value EXCEPT ![s] = @ - 1]
             /\ Goto(t, done, IF done = "run" THEN NULL ELSE o)
             /\ UNCHANGED <<sched, waiters>>
    <2>1. /\ UNCHANGED <<current, status, ready_list, thread_ticks, waiters>>
          /\ pc' = [pc EXCEPT ![t] = done]
          /\ obj' = [obj EXCEPT ![t] = IF done = "run" THEN NULL ELSE o]
      BY <1>2, Zenon DEF Goto, sched
    <2>2. /\ pc' \in [Thread -> Label] /\ obj' \in [Thread -> AllSema \cup Cond \cup {NULL}]
          /\ pc'[t] = done /\ obj'[t] = IF done = "run" THEN NULL ELSE o
          /\ \A u \in Thread : u # t => pc'[u] = pc[u] /\ obj'[u] = obj[u]
      BY <2>1, <1>0, Zenon
    <2>3. value' \in [AllSema -> Nat]
      BY <1>0, <1>2
    <2>4. SchedOK'
      BY <1>0, <2>1, Zenon DEF SchedOK, SchedType, OneRunning, RunQueue
    <2>5. ASSUME NEW x \in AllSema, NEW u \in Thread, In(u, waiters[x])
          PROVE  status[u] = "BLOCKED" /\ WaitsIn(u, x)'
      <3>1. status[u] = "BLOCKED" /\ WaitsIn(u, x) /\ u # t
        BY <1>0, <2>5, Zenon DEF WaitLists
      <3>2. QED
        BY <3>1, <2>2, Zenon DEF WaitsIn, LockOf
    <2>6. WaitLists'
      BY <1>0, <2>1, <2>5, Zenon DEF WaitLists, AllSema
    <2>7. StartInv'
      <3> SUFFICES ASSUME idle_thread = NULL
                   PROVE  \E u \in Thread : pc'[u] = "idle_init" /\ (u = current \/ In(u, ready_list))
        BY <2>1, Zenon DEF StartInv
      <3>1. PICK u \in Thread : pc[u] = "idle_init" /\ (u = current \/ In(u, ready_list))
        BY <1>0, Zenon DEF StartInv, StartLabel
      <3>2. QED
        BY <3>1, <2>2, Zenon DEF StartLabel
    <2>8. QED
      BY <1>0, <2>1, <2>2, <2>3, <2>4, <2>6, <2>7, Zenon
  <1>3. QED
    BY <1>1, <1>2, Zenon DEF DownStep

(* sema_up, by the current thread or by an interrupt handler. *)
LEMMA UpLemma ==
  ASSUME IInv, NEW s \in AllSema, UpStep(s), UNCHANGED idle_thread,
         \A u \in Thread : u # current => pc'[u] = pc[u] /\ obj'[u] = obj[u]
  PROVE  /\ SchedOK' /\ WaitLists' /\ UNCHANGED current
         /\ value' \in [AllSema -> Nat] /\ waiters' \in [AllSema -> Seq(Thread)]
         /\ \A u : In(u, ready_list) => In(u, ready_list')
         /\ \A u \in Thread : status'[u] = "FREE" => status[u] = "FREE"
         /\ \A u \in Thread : status[u] = "BLOCKED" /\ pc[u] = "run" => status'[u] = "BLOCKED"
  <1>0. /\ SchedOK /\ WaitLists /\ IdleInv
        /\ value \in [AllSema -> Nat] /\ waiters \in [AllSema -> Seq(Thread)]
        /\ status \in [Thread -> Status] /\ status[current] = "RUNNING"
    BY Zenon DEF IInv, TypeOK, SchedOK, OneRunning
  <1>1. value' \in [AllSema -> Nat]
    BY <1>0 DEF UpStep
  <1>2. ASSUME NEW x \in AllSema, NEW u \in Thread, In(u, waiters[x])
        PROVE  status[u] = "BLOCKED" /\ WaitsIn(u, x) /\ WaitsIn(u, x)' /\ u # current
    <2>1. status[u] = "BLOCKED" /\ WaitsIn(u, x)
      BY <1>0, <1>2, Zenon DEF WaitLists
    <2>2. u # current
      BY <2>1, <1>0, Zenon
    <2>3. QED
      BY <2>1, <2>2, Zenon DEF WaitsIn, LockOf
  <1>3. CASE waiters[s] = <<>>
    <2>1. UNCHANGED <<current, status, ready_list, thread_ticks, waiters>>
      BY <1>3, Zenon DEF UpStep, sched
    <2>2. SchedOK'
      BY <1>0, <2>1, Zenon DEF SchedOK, SchedType, OneRunning, RunQueue
    <2>3. WaitLists'
      BY <1>0, <1>2, <2>1, Zenon DEF WaitLists, AllSema
    <2>4. QED
      BY <1>0, <1>1, <2>1, <2>2, <2>3, Zenon
  <1>4. CASE waiters[s] # <<>>
    <2> DEFINE h == Head(waiters[s])
    <2>1. Unblock(h) /\ waiters' = [waiters EXCEPT ![s] = Tail(@)]
      BY <1>4, Zenon DEF UpStep
    <2>2. /\ h \in Thread /\ In(h, waiters[s]) /\ Tail(waiters[s]) \in Seq(Thread)
          /\ NoDuplicates(Tail(waiters[s])) /\ ~ In(h, Tail(waiters[s]))
          /\ \A u : In(u, Tail(waiters[s])) => In(u, waiters[s])
      BY <1>0, <1>4, PopFront, Zenon DEF WaitLists
    <2> HIDE DEF h
    <2>3. status[h] = "BLOCKED" /\ WaitsIn(h, s)
      BY <1>2, <2>2, Zenon
    <2>4. h # idle_thread
      BY <2>2, <2>3, <1>0, ThreadsAssumption, Zenon DEF WaitsIn, IdleInv, IdleLabel
    <2>5. /\ SchedOK'
          /\ UNCHANGED current
          /\ \A u : In(u, ready_list') <=> In(u, ready_list) \/ u = h
          /\ \A u \in Thread : status'[u] = IF u = h THEN "READY" ELSE status[u]
      BY <1>0, <2>1, <2>2, <2>3, <2>4, UnblockLemma, Zenon
    <2>6. /\ waiters' \in [AllSema -> Seq(Thread)]
          /\ \A x \in AllSema : waiters'[x] = IF x = s THEN Tail(waiters[s]) ELSE waiters[x]
      BY <1>0, <2>1, <2>2, Zenon
    <2>7. ASSUME NEW x \in AllSema, NEW u \in Thread, In(u, waiters'[x])
          PROVE  status'[u] = "BLOCKED" /\ WaitsIn(u, x)'
      <3>1. In(u, waiters[x])
        BY <2>2, <2>6, <2>7, Zenon
      <3>2. u # h
        <4>1. CASE x = s
          BY <4>1, <2>2, <2>6, <2>7, Zenon
        <4>2. CASE x # s
          <5>1. ASSUME u = h PROVE FALSE
            <6>1. WaitsIn(h, x) /\ WaitsIn(h, s)
              BY <5>1, <3>1, <1>2, <2>3, Zenon
            <6>2. QED
              BY <6>1, <4>2 DEF WaitsIn
          <5>2. QED
            BY <5>1, Zenon
        <4>3. QED
          BY <4>1, <4>2, Zenon
      <3>3. QED
        BY <3>1, <3>2, <1>2, <2>5, Zenon
    <2>8. \A x \in AllSema : NoDuplicates(waiters'[x])
      BY <1>0, <2>2, <2>6, Zenon DEF WaitLists
    <2>9. WaitLists'
      BY <2>7, <2>8, Zenon DEF WaitLists, AllSema
    <2>10. \A u \in Thread : status[u] = "BLOCKED" /\ pc[u] = "run" => status'[u] = "BLOCKED"
      BY <2>3, <2>5, Zenon DEF WaitsIn
    <2>11. QED
      BY <1>1, <2>5, <2>6, <2>9, <2>10, Zenon
  <1>5. QED
    BY <1>3, <1>4, Zenon

(* The rest of the invariant, at a step of the current thread t inside the   *)
(* kernel (neither start-up nor thread creation).                            *)
LEMMA FrameLemma ==
  ASSUME IInv, NEW t \in Thread, t = current, UNCHANGED idle_thread,
         pc[t] \notin StartLabel, pc'[t] \notin StartLabel,
         \A u \in Thread : u # t => pc'[u] = pc[u] /\ obj'[u] = obj[u] /\ peer'[u] = peer[u],
         \A u \in Thread : status'[u] = "FREE" => status[u] = "FREE",
         \A u \in Thread : status[u] = "BLOCKED" /\ pc[u] = "run" => status'[u] = "BLOCKED",
         CreatorAt(t)' => CreatorAt(t) /\ peer'[t] = peer[t],
         PlaceAt(t)'
  PROVE  IdleInv' /\ FreeInv' /\ CreateInv' /\ PlaceInv'
  <1>0. /\ IdleInv /\ FreeInv /\ CreateInv /\ PlaceInv /\ status[t] = "RUNNING"
        /\ idle_thread \in Thread \cup {NULL}
    BY Zenon DEF IInv, TypeOK, SchedOK, OneRunning
  <1>1. IdleInv'
    BY <1>0, ThreadsAssumption, SMTT(30) DEF IdleInv, StartLabel
  <1>2. FreeInv'
    BY <1>0, Zenon DEF FreeInv
  <1>3. \A u \in Thread : CreatorAt(u)' => CreatorAt(u) /\ peer'[u] = peer[u]
    BY Zenon DEF CreatorAt
  <1>4. CreateInv'
    <2>1. ASSUME NEW u \in Thread, CreatorAt(u)'
          PROVE  peer'[u] \in Thread /\ status'[peer'[u]] = "BLOCKED" /\ pc'[peer'[u]] = "run"
      <3>1. peer'[u] \in Thread /\ status[peer'[u]] = "BLOCKED" /\ pc[peer'[u]] = "run"
        BY <1>0, <1>3, <2>1 DEF CreateInv
      <3>2. QED
        BY <3>1, <1>0, Zenon
    <2>2. QED
      BY <1>0, <1>3, <2>1, SMTT(30) DEF CreateInv
  <1>5. PlaceInv'
    <2>1. ASSUME NEW u \in Thread PROVE PlaceAt(u)'
      <3>1. PlaceAt(u)
        BY <1>0, Zenon DEF PlaceInv
      <3>2. QED
        BY <1>0, <3>1, Zenon DEF PlaceAt
    <2>2. QED
      BY <2>1, Zenon DEF PlaceInv
  <1>6. QED
    BY <1>1, <1>2, <1>4, <1>5, Zenon

(* The scheduler's part, when a step of t does not touch the scheduler. *)
LEMMA PlainLemma ==
  ASSUME IInv, NEW t \in Thread, t = current, UNCHANGED <<sched, idle_thread>>,
         pc[t] \notin StartLabel,
         \A u \in Thread : u # t => pc'[u] = pc[u] /\ obj'[u] = obj[u]
  PROVE  /\ SchedOK' /\ StartInv'
         /\ UNCHANGED waiters => WaitLists'
         /\ \A u \in Thread : status'[u] = status[u]
         /\ \A x \in AllSema, u \in Thread : In(u, waiters[x]) => u # t /\ WaitsIn(u, x)'
  <1>1. UNCHANGED <<current, status, ready_list, thread_ticks>>
    BY Zenon DEF sched
  <1>2. SchedOK'
    BY <1>1, Zenon DEF IInv, SchedOK, SchedType, OneRunning, RunQueue
  <1>3. StartInv'
    BY <1>1, Zenon DEF IInv, StartInv, StartLabel
  <1>4. ASSUME NEW x \in AllSema, NEW u \in Thread, In(u, waiters[x])
        PROVE  u # t /\ WaitsIn(u, x)'
    <2>1. status[u] = "BLOCKED" /\ WaitsIn(u, x) /\ u # t
      BY <1>4, Zenon DEF IInv, WaitLists, SchedOK, OneRunning
    <2>2. QED
      BY <2>1, Zenon DEF WaitsIn, LockOf
  <1>5. UNCHANGED waiters => WaitLists'
    BY <1>1, <1>4, Zenon DEF IInv, WaitLists, AllSema
  <1>6. QED
    BY <1>1, <1>2, <1>3, <1>4, <1>5, Zenon
-----------------------------------------------------------------------------
(* The inductive invariant holds initially, and the operations of            *)
(* semaphores, locks and condition variables, and interrupts, preserve it.   *)

LEMMA InitIInv == Init => IInv
  <1> SUFFICES ASSUME Init PROVE IInv
    BY Zenon
  <1> USE ThreadsAssumption, EmptyList DEF Init
  <1>1. TypeOK
    BY DEF TypeOK, AllSema, Status, Label
  <1>2. SchedOK
    BY DEF SchedOK, SchedType, OneRunning, RunQueue, Status
  <1>3. WaitLists
    BY Zenon DEF WaitLists
  <1>4. IdleInv /\ StartInv /\ FreeInv /\ CreateInv /\ PlaceInv
    BY Zenon DEF IdleInv, IdleLabel, StartInv, FreeInv, CreateInv, CreatorAt, PlaceInv, PlaceAt
  <1>5. QED
    BY <1>1, <1>2, <1>3, <1>4, Zenon DEF IInv

(* A step of the current thread t is one turn of sema_down's loop. *)
LEMMA DownIInv ==
  ASSUME IInv, NEW t \in Thread, t = current, pc[t] \notin StartLabel,
         NEW s \in AllSema, NEW o \in AllSema \cup Cond,
         NEW wait \in Label \ StartLabel, NEW done \in Label \ StartLabel,
         WaitPlace(t, s, o, wait),
         DownStep(t, s, o, wait, done),
         UNCHANGED <<idle_thread, holder, cond_waiters, peer, tid, next_tid>>,
         (\/ pc'[t] = wait /\ obj'[t] = o
          \/ pc'[t] = done /\ obj'[t] = IF done = "run" THEN NULL ELSE o)
           => PlaceAt(t)' /\ (CreatorAt(t)' => CreatorAt(t))
  PROVE  IInv'
  <1>1. /\ SchedOK' /\ WaitLists' /\ StartInv'
        /\ value' \in [AllSema -> Nat] /\ waiters' \in [AllSema -> Seq(Thread)]
        /\ pc' \in [Thread -> Label] /\ obj' \in [Thread -> AllSema \cup Cond \cup {NULL}]
        /\ \A u \in Thread : u # t => pc'[u] = pc[u] /\ obj'[u] = obj[u]
        /\ \/ pc'[t] = wait /\ obj'[t] = o
           \/ pc'[t] = done /\ obj'[t] = IF done = "run" THEN NULL ELSE o
        /\ \A u \in Thread : status'[u] = "FREE" => status[u] = "FREE"
        /\ \A u \in Thread : status[u] = "BLOCKED" /\ pc[u] = "run" => status'[u] = "BLOCKED"
    BY DownLemma, Zenon
  <1>2. TypeOK'
    BY <1>1, Zenon DEF IInv, TypeOK, SchedOK, SchedType
  <1>3. /\ PlaceAt(t)' /\ (CreatorAt(t)' => CreatorAt(t))
        /\ pc'[t] \notin StartLabel /\ peer' = peer
    BY <1>1, Zenon
  <1>4. IdleInv' /\ FreeInv' /\ CreateInv' /\ PlaceInv'
    BY <1>1, <1>3, FrameLemma, Zenon
  <1>5. QED
    BY <1>1, <1>2, <1>4, Zenon DEF IInv

(* The types of the variables that say where threads are. *)
PlaceType ==
  /\ pc \in [Thread -> Label]
  /\ obj \in [Thread -> AllSema \cup Cond \cup {NULL}]
  /\ peer \in [Thread -> Thread \cup {NULL}]

(* Thread t goes to label l in a call on o. *)
LEMMA GotoLemma ==
  ASSUME TypeOK, NEW t \in Thread, NEW l \in Label, NEW o \in AllSema \cup Cond \cup {NULL},
         Goto(t, l, o)
  PROVE  /\ pc' \in [Thread -> Label] /\ obj' \in [Thread -> AllSema \cup Cond \cup {NULL}]
         /\ pc'[t] = l /\ obj'[t] = o
         /\ \A u \in Thread : u # t => pc'[u] = pc[u] /\ obj'[u] = obj[u]
  BY Zenon DEF TypeOK, Goto

(* A step of the current thread t ups a semaphore. *)
LEMMA UpIInv ==
  ASSUME IInv, NEW t \in Thread, t = current, NEW s \in AllSema, UpStep(s),
         UNCHANGED <<idle_thread, holder, cond_waiters, tid, next_tid>>,
         PlaceType', pc[t] \notin StartLabel, pc'[t] \notin StartLabel,
         \A u \in Thread : u # t => pc'[u] = pc[u] /\ obj'[u] = obj[u] /\ peer'[u] = peer[u],
         CreatorAt(t)' => CreatorAt(t) /\ peer'[t] = peer[t],
         PlaceAt(t)'
  PROVE  IInv'
  <1>1. /\ SchedOK' /\ WaitLists' /\ UNCHANGED current
        /\ value' \in [AllSema -> Nat] /\ waiters' \in [AllSema -> Seq(Thread)]
        /\ \A u : In(u, ready_list) => In(u, ready_list')
        /\ \A u \in Thread : status'[u] = "FREE" => status[u] = "FREE"
        /\ \A u \in Thread : status[u] = "BLOCKED" /\ pc[u] = "run" => status'[u] = "BLOCKED"
    BY UpLemma, Zenon
  <1>2. TypeOK'
    BY <1>1, Zenon DEF IInv, TypeOK, PlaceType, SchedOK, SchedType
  <1>3. StartInv'
    BY <1>1, Zenon DEF IInv, StartInv, StartLabel
  <1>4. IdleInv' /\ FreeInv' /\ CreateInv' /\ PlaceInv'
    BY <1>1, FrameLemma, Zenon
  <1>5. QED
    BY <1>1, <1>2, <1>3, <1>4, Zenon DEF IInv

(* A step of the current thread t changes neither the scheduler nor a wait list. *)
LEMMA PlainIInv ==
  ASSUME IInv, NEW t \in Thread, t = current,
         UNCHANGED <<sched, idle_thread, waiters>>,
         TypeOK', pc[t] \notin StartLabel, pc'[t] \notin StartLabel,
         \A u \in Thread : u # t => pc'[u] = pc[u] /\ obj'[u] = obj[u] /\ peer'[u] = peer[u],
         CreatorAt(t)' => CreatorAt(t) /\ peer'[t] = peer[t],
         PlaceAt(t)'
  PROVE  IInv'
  <1>1. SchedOK' /\ StartInv' /\ WaitLists' /\ \A u \in Thread : status'[u] = status[u]
    BY PlainLemma, Zenon
  <1>2. IdleInv' /\ FreeInv' /\ CreateInv' /\ PlaceInv'
    BY <1>1, FrameLemma, Zenon
  <1>3. QED
    BY <1>1, <1>2, Zenon DEF IInv

LEMMA SemaStepIInv ==
  ASSUME IInv, NEW t \in Thread, SemaStep(t)
  PROVE  IInv'
  <1> USE DEF Running, StartLabel, IdleLabel, CreatorAt, PlaceAt
  <1>0. TypeOK /\ PlaceAt(t)
    BY Zenon DEF IInv, PlaceInv
  <1>1. ASSUME NEW s \in Sema \cup {IdleStarted}, SemaDown(t, s) PROVE IInv'
    <2>1. /\ t = current /\ s \in AllSema /\ pc[t] \in {"run", "sema_down"}
          /\ DownStep(t, s, s, "sema_down", "run")
          /\ UNCHANGED <<idle_thread, holder, cond_waiters, peer, tid, next_tid>>
      BY <1>1, Zenon DEF SemaDown, AllSema, tids
    <2>2. "sema_down" \in Label /\ "run" \in Label /\ WaitPlace(t, s, s, "sema_down")
      BY Zenon DEF Label, WaitPlace
    <2>3. QED
      BY <2>1, <2>2, DownIInv, Zenon
  <1>2. ASSUME NEW s \in Sema, SemaTryDown(t, s) PROVE IInv'
    <2>1. /\ t = current /\ s \in AllSema /\ pc[t] = "run"
          /\ value[s] > 0 /\ value' = [value EXCEPT ![s] = @ - 1]
          /\ UNCHANGED <<sched, idle_thread, waiters, holder, cond_waiters, pc, obj, peer, tid, next_tid>>
      BY <1>2, Zenon DEF SemaTryDown, AllSema, place, tids
    <2>2. TypeOK'
      BY <1>0, <2>1 DEF TypeOK, sched
    <2>3. QED
      BY <2>1, <2>2, PlainIInv, Zenon
  <1>3. ASSUME NEW s \in Sema, SemaUp(t, s) PROVE IInv'
    <2>1. /\ t = current /\ s \in AllSema /\ pc[t] = "run" /\ UpStep(s)
          /\ UNCHANGED <<idle_thread, holder, cond_waiters, pc, obj, peer, tid, next_tid>>
      BY <1>3, Zenon DEF SemaUp, AllSema, place, tids
    <2>2. PlaceType'
      BY <1>0, <2>1, Zenon DEF TypeOK, PlaceType
    <2>3. QED
      BY <2>1, <2>2, UpIInv, Zenon
  <1>4. QED
    BY <1>1, <1>2, <1>3, Zenon DEF SemaStep

LEMMA LockStepIInv ==
  ASSUME IInv, NEW t \in Thread, LockStep(t)
  PROVE  IInv'
  <1> USE ThreadsAssumption, ObjectsAreDistinct DEF Running, StartLabel, IdleLabel, CreatorAt, PlaceAt
  <1>0. TypeOK /\ PlaceAt(t)
    BY Zenon DEF IInv, PlaceInv
  <1>1. ASSUME NEW l \in Lock, LockDown(t, l) PROVE IInv'
    <2>1. /\ t = current /\ l \in AllSema /\ "lock_down" \in Label /\ "lock_set" \in Label
          /\ UNCHANGED <<idle_thread, holder, cond_waiters, peer, tid, next_tid>>
      BY <1>1, Zenon DEF LockDown, AllSema, tids, Label
    <2>2. CASE pc[t] = "run" /\ l # TidLock /\ DownStep(t, l, l, "lock_down", "lock_set")
      <3>1. WaitPlace(t, l, l, "lock_down")
        BY Zenon DEF WaitPlace
      <3>2. QED
        BY <2>1, <2>2, <3>1, DownIInv, Zenon
    <2>3. CASE /\ pc[t] = "lock_down" /\ LockOf(t) = l
               /\ DownStep(t, l, obj[t], "lock_down", "lock_set")
      <3>1. WaitPlace(t, l, obj[t], "lock_down")
        BY <2>3, Zenon DEF WaitPlace, LockOf
      <3>2. obj[t] \in Lock \cup Cond /\ obj[t] \in AllSema \cup Cond
        BY <1>0, <2>3, Zenon DEF AllSema
      <3>3. QED
        BY <2>1, <2>3, <3>1, <3>2, DownIInv, Zenon
    <2>4. QED
      BY <1>1, <2>2, <2>3, Zenon DEF LockDown
  <1>2. CASE LockSetHolder(t)
    <2>1. /\ t = current /\ pc[t] = "lock_set"
          /\ holder' = [holder EXCEPT ![LockOf(t)] = t]
          /\ UNCHANGED <<sched, idle_thread, value, waiters, cond_waiters, peer, tid, next_tid>>
          /\ \/ obj[t] = TidLock /\ Goto(t, "tid_read", TidLock)
             \/ obj[t] # TidLock /\ Goto(t, "run", NULL)
      BY <1>2, Zenon DEF LockSetHolder, tids, Return
    <2>2. /\ pc' \in [Thread -> Label] /\ obj' \in [Thread -> AllSema \cup Cond \cup {NULL}]
          /\ \/ obj[t] = TidLock /\ pc'[t] = "tid_read" /\ obj'[t] = TidLock
             \/ obj[t] # TidLock /\ pc'[t] = "run" /\ obj'[t] = NULL
          /\ \A u \in Thread : u # t => pc'[u] = pc[u] /\ obj'[u] = obj[u]
      BY <1>0, <2>1, GotoLemma, SMTT(30) DEF Label, AllSema
    <2>3. TypeOK'
      BY <1>0, <2>1, <2>2, Zenon DEF TypeOK, sched
    <2>4. QED
      BY <1>0, <2>1, <2>2, <2>3, PlainIInv, Zenon
  <1>3. ASSUME NEW l \in Lock, LockTryAcquire(t, l) PROVE IInv'
    <2>1. /\ t = current /\ pc[t] = "run" /\ l # TidLock
          /\ value[l] > 0 /\ value' = [value EXCEPT ![l] = @ - 1]
          /\ Goto(t, "lock_set", l)
          /\ UNCHANGED <<sched, idle_thread, waiters, holder, cond_waiters, peer, tid, next_tid>>
      BY <1>3, Zenon DEF LockTryAcquire, tids
    <2>2. /\ pc' \in [Thread -> Label] /\ obj' \in [Thread -> AllSema \cup Cond \cup {NULL}]
          /\ pc'[t] = "lock_set" /\ obj'[t] = l
          /\ \A u \in Thread : u # t => pc'[u] = pc[u] /\ obj'[u] = obj[u]
      BY <1>0, <2>1, GotoLemma DEF Label, AllSema
    <2>3. value' \in [AllSema -> Nat]
      <3>1. value \in [AllSema -> Nat] /\ l \in AllSema
        BY <1>0, Zenon DEF TypeOK, AllSema
      <3>2. value[l] - 1 \in Nat
        BY <2>1, <3>1
      <3>3. QED
        BY <2>1, <3>1, <3>2, Zenon
    <2>4. TypeOK'
      BY <1>0, <2>1, <2>2, <2>3, Zenon DEF TypeOK, sched
    <2>5. QED
      BY <2>1, <2>2, <2>4, PlainIInv, Zenon
  <1>4. ASSUME NEW l \in Lock, LockRelease(t, l) PROVE IInv'
    <2>1. /\ t = current
          /\ \/ pc[t] = "run" /\ l # TidLock /\ Goto(t, "lock_up", l)
             \/ pc[t] = "lock_release" /\ Goto(t, "lock_up", obj[t])
          /\ holder' = [holder EXCEPT ![l] = NULL]
          /\ UNCHANGED <<sched, idle_thread, value, waiters, cond_waiters, peer, tid, next_tid>>
      BY <1>4, Zenon DEF LockRelease, tids
    <2>2. /\ pc' \in [Thread -> Label] /\ obj' \in [Thread -> AllSema \cup Cond \cup {NULL}]
          /\ pc'[t] = "lock_up"
          /\ \/ pc[t] = "run" /\ obj'[t] = l /\ l # TidLock
             \/ pc[t] = "lock_release" /\ obj'[t] = obj[t]
          /\ \A u \in Thread : u # t => pc'[u] = pc[u] /\ obj'[u] = obj[u]
      BY <1>0, <2>1, GotoLemma, SMTT(30) DEF Label, AllSema
    <2>3. TypeOK'
      BY <1>0, <2>1, <2>2, Zenon DEF TypeOK, sched
    <2>4. QED
      BY <1>0, <2>1, <2>2, <2>3, PlainIInv, SMTT(30)
  <1>5. CASE LockUp(t)
    <2>1. /\ t = current /\ pc[t] = "lock_up" /\ UpStep(LockOf(t))
          /\ \/ obj[t] = TidLock /\ Goto(t, "unblock", NULL)
             \/ obj[t] \in Cond /\ Goto(t, "cond_sleep", obj[t])
             \/ obj[t] \in Lock \ {TidLock} /\ Goto(t, "run", NULL)
          /\ UNCHANGED <<idle_thread, holder, cond_waiters, peer, tid, next_tid>>
      BY <1>5, Zenon DEF LockUp, tids, Return
    <2>2. LockOf(t) \in AllSema
      BY <1>0, <2>1, Zenon DEF LockOf, AllSema
    <2>3. /\ pc' \in [Thread -> Label] /\ obj' \in [Thread -> AllSema \cup Cond \cup {NULL}]
          /\ \/ obj[t] = TidLock /\ pc'[t] = "unblock"
             \/ obj[t] \in Cond /\ pc'[t] = "cond_sleep" /\ obj'[t] = obj[t]
             \/ pc'[t] = "run"
          /\ \A u \in Thread : u # t => pc'[u] = pc[u] /\ obj'[u] = obj[u]
      BY <1>0, <2>1, GotoLemma, SMTT(30) DEF Label
    <2>4. PlaceType'
      BY <1>0, <2>1, <2>3, Zenon DEF TypeOK, PlaceType
    <2>5. PlaceAt(t)' /\ (CreatorAt(t)' => CreatorAt(t))
      BY <2>1, <2>3, Zenon
    <2>6. QED
      BY <2>1, <2>2, <2>3, <2>4, <2>5, UpIInv
  <1>6. QED
    BY <1>1, <1>2, <1>3, <1>4, <1>5, Zenon DEF LockStep

LEMMA CondStepIInv ==
  ASSUME IInv, NEW t \in Thread, CondStep(t)
  PROVE  IInv'
  <1> USE ThreadsAssumption, ObjectsAreDistinct DEF Running, StartLabel, IdleLabel, CreatorAt, PlaceAt
  <1>0. TypeOK /\ PlaceAt(t) /\ WaitLists
    BY Zenon DEF IInv, PlaceInv
  <1>1. ASSUME NEW c \in Cond, CondWait(t, c) PROVE IInv'
    <2>1. /\ t = current /\ pc[t] = "run"
          /\ value' = [value EXCEPT ![t] = 0] /\ waiters' = [waiters EXCEPT ![t] = <<>>]
          /\ cond_waiters' = [cond_waiters EXCEPT ![c] = Append(@, t)]
          /\ Goto(t, "lock_release", c)
          /\ UNCHANGED <<sched, idle_thread, holder, peer, tid, next_tid>>
      BY <1>1, Zenon DEF CondWait, tids
    <2>2. waiters[t] = <<>>
      <3>1. t \in AllSema
        BY Zenon DEF AllSema
      <3>2. ASSUME waiters[t] # <<>> PROVE FALSE
        <4>1. Head(waiters[t]) \in Thread /\ In(Head(waiters[t]), waiters[t])
          BY <1>0, <3>1, <3>2, PopFront, Zenon DEF TypeOK
        <4>2. WaitsIn(Head(waiters[t]), t)
          BY <4>1, <3>1, <1>0, Zenon DEF WaitLists
        <4>3. QED
          BY <4>1, <4>2, <2>1, SMTT(30) DEF IInv, PlaceInv, WaitsIn, LockOf
      <3>3. QED
        BY <3>2, Zenon
    <2>3. UNCHANGED waiters
      BY <1>0, <2>1, <2>2, Zenon DEF TypeOK
    <2>4. /\ pc' \in [Thread -> Label] /\ obj' \in [Thread -> AllSema \cup Cond \cup {NULL}]
          /\ pc'[t] = "lock_release" /\ obj'[t] = c
          /\ \A u \in Thread : u # t => pc'[u] = pc[u] /\ obj'[u] = obj[u]
      BY <1>0, <2>1, GotoLemma DEF Label, AllSema
    <2>5. value' \in [AllSema -> Nat] /\ cond_waiters' \in [Cond -> Seq(Thread)]
      BY <1>0, <2>1, SMTT(30) DEF TypeOK, AllSema
    <2>6. TypeOK'
      BY <1>0, <2>1, <2>3, <2>4, <2>5, Zenon DEF TypeOK, sched
    <2>7. QED
      BY <2>1, <2>3, <2>4, <2>6, PlainIInv, SMTT(30)
  <1>2. ASSUME NEW c \in Cond, NEW l \in {"signal_up", "broadcast_up"}, t = current,
               pc[t] = "run" \/ pc[t] = "broadcast",
               PopWaiter(t, c, l), UNCHANGED <<sched, idle_thread, value, waiters, holder, tids>>
        PROVE  IInv'
    <2>1. /\ cond_waiters[c] # <<>> /\ cond_waiters' = [cond_waiters EXCEPT ![c] = Tail(@)]
          /\ peer' = [peer EXCEPT ![t] = Head(cond_waiters[c])]
          /\ Goto(t, l, c)
          /\ UNCHANGED <<tid, next_tid>>
      BY <1>2, Zenon DEF PopWaiter, tids
    <2>2. /\ pc' \in [Thread -> Label] /\ obj' \in [Thread -> AllSema \cup Cond \cup {NULL}]
          /\ pc'[t] = l /\ obj'[t] = c
          /\ \A u \in Thread : u # t => pc'[u] = pc[u] /\ obj'[u] = obj[u]
      <3>1. TypeOK /\ l \in Label /\ Goto(t, l, c)
        BY <1>0, <1>2, <2>1, Zenon DEF Label
      <3>2. QED
        BY <3>1, GotoLemma, Zenon
    <2>3. Head(cond_waiters[c]) \in Thread /\ Tail(cond_waiters[c]) \in Seq(Thread)
      BY <1>0, <2>1, PopFront DEF TypeOK
    <2>4. /\ cond_waiters' \in [Cond -> Seq(Thread)] /\ peer' \in [Thread -> Thread \cup {NULL}]
          /\ peer'[t] \in Thread
          /\ \A u \in Thread : u # t => peer'[u] = peer[u]
      BY <1>0, <2>1, <2>3, Zenon DEF TypeOK
    <2>5. TypeOK'
      BY <1>0, <1>2, <2>1, <2>2, <2>4, Zenon DEF TypeOK, sched
    <2>6. /\ pc[t] \notin StartLabel /\ pc'[t] \notin StartLabel
          /\ ~ CreatorAt(t)' /\ PlaceAt(t)'
      BY <1>2, <2>2, <2>4, Zenon
    <2>7. QED
      <3> HIDE DEF StartLabel, CreatorAt, PlaceAt
      <3>1. QED
        BY <1>2, <2>1, <2>2, <2>4, <2>5, <2>6, PlainIInv, Zenon
  <1>3. ASSUME NEW c \in Cond, CondSignal(t, c) PROVE IInv'
    BY <1>2, <1>3, Zenon DEF CondSignal
  <1>4. ASSUME NEW c \in Cond, CondBroadcast(t, c) PROVE IInv'
    <2>1. CASE pc[t] = "broadcast" /\ obj[t] = c /\ Goto(t, "run", NULL) /\ UNCHANGED <<cond_waiters, peer>>
      <3>1. t = current /\ UNCHANGED <<sched, idle_thread, value, waiters, holder, tid, next_tid>>
        BY <1>4, Zenon DEF CondBroadcast, tids
      <3>2. /\ pc' \in [Thread -> Label] /\ obj' \in [Thread -> AllSema \cup Cond \cup {NULL}]
            /\ pc'[t] = "run"
            /\ \A u \in Thread : u # t => pc'[u] = pc[u] /\ obj'[u] = obj[u]
        BY <1>0, <2>1, GotoLemma, Zenon DEF Label
      <3>3. TypeOK'
        BY <1>0, <2>1, <3>1, <3>2, Zenon DEF TypeOK, sched
      <3>4. QED
        BY <2>1, <3>1, <3>2, <3>3, PlainIInv, Zenon
    <2>2. QED
      BY <1>2, <1>4, <2>1, Zenon DEF CondBroadcast, Return
  <1>5. CASE CondSleep(t)
    <2>1. /\ t = current /\ t \in AllSema /\ pc[t] = "cond_sleep" /\ obj[t] \in AllSema \cup Cond
          /\ DownStep(t, t, obj[t], "cond_sleep", "lock_down")
          /\ UNCHANGED <<idle_thread, holder, cond_waiters, peer, tid, next_tid>>
      BY <1>0, <1>5, Zenon DEF CondSleep, AllSema, tids
    <2>2. "cond_sleep" \in Label /\ "lock_down" \in Label /\ WaitPlace(t, t, obj[t], "cond_sleep")
      BY Zenon DEF Label, WaitPlace
    <2>3. obj[t] \in Cond /\ obj[t] # TidLock
      BY <1>0, <2>1, Zenon
    <2>4. QED
      BY <2>1, <2>2, <2>3, DownIInv, Zenon
  <1>6. CASE SignalUp(t)
    <2>1. /\ t = current /\ pc[t] \in {"signal_up", "broadcast_up"} /\ UpStep(peer[t])
          /\ \/ pc[t] = "signal_up" /\ Goto(t, "run", NULL)
             \/ pc[t] = "broadcast_up" /\ Goto(t, "broadcast", obj[t])
          /\ peer' = [peer EXCEPT ![t] = NULL]
          /\ UNCHANGED <<idle_thread, holder, cond_waiters, tid, next_tid>>
      BY <1>6, Zenon DEF SignalUp, tids, Return
    <2>2. peer[t] \in Thread /\ peer[t] \in AllSema
      BY <1>0, <2>1, Zenon DEF AllSema
    <2>3. /\ pc' \in [Thread -> Label] /\ obj' \in [Thread -> AllSema \cup Cond \cup {NULL}]
          /\ pc'[t] = "run" \/ (pc[t] = "broadcast_up" /\ pc'[t] = "broadcast" /\ obj'[t] = obj[t])
          /\ \A u \in Thread : u # t => pc'[u] = pc[u] /\ obj'[u] = obj[u]
      <3>1. /\ obj[t] \in AllSema \cup Cond \cup {NULL}
            /\ "run" \in Label /\ "broadcast" \in Label
        BY <1>0, Zenon DEF TypeOK, Label
      <3>2. CASE pc[t] = "signal_up" /\ Goto(t, "run", NULL)
        BY <1>0, <3>1, <3>2, GotoLemma, Zenon
      <3>3. CASE pc[t] = "broadcast_up" /\ Goto(t, "broadcast", obj[t])
        BY <1>0, <3>1, <3>3, GotoLemma, Zenon
      <3>4. QED
        BY <2>1, <3>2, <3>3, Zenon
    <2>4. PlaceType' /\ \A u \in Thread : u # t => peer'[u] = peer[u]
      <3>1. peer \in [Thread -> Thread \cup {NULL}]
        BY <1>0, Zenon DEF TypeOK
      <3>2. QED
        BY <2>1, <2>3, <3>1, Zenon DEF PlaceType
    <2>5. /\ pc[t] \notin StartLabel /\ pc'[t] \notin StartLabel
          /\ ~ CreatorAt(t)' /\ PlaceAt(t)'
      BY <1>0, <2>1, <2>3, Zenon
    <2>6. QED
      <3> HIDE DEF StartLabel, CreatorAt, PlaceAt
      <3>1. QED
        BY <2>1, <2>2, <2>3, <2>4, <2>5, UpIInv, Zenon
  <1>7. QED
    BY <1>1, <1>3, <1>4, <1>5, <1>6, Zenon DEF CondStep

(* An interrupt or a yield moves no thread, except the idle thread out of HLT. *)
SamePlace ==
  /\ pc[current] # "boot"
  /\ pc' \in [Thread -> Label]
  /\ \A u \in Thread : \/ pc'[u] = pc[u]
                       \/ u = current /\ pc[u] = "idle_hlt" /\ pc'[u] = "idle_block"
  /\ UNCHANGED <<idle_thread, holder, cond_waiters, obj, peer, tid, next_tid>>

LEMMA SamePlaceLemma ==
  ASSUME IInv, SamePlace,
         \A u \in Thread : status'[u] = "FREE" => status[u] = "FREE",
         \A u \in Thread : status[u] = "BLOCKED" /\ pc[u] = "run" => status'[u] = "BLOCKED"
  PROVE  IdleInv' /\ FreeInv' /\ CreateInv' /\ PlaceInv'
  <1> USE DEF SamePlace
  <1>0. /\ IdleInv /\ FreeInv /\ CreateInv /\ PlaceInv
        /\ idle_thread \in Thread \cup {NULL}
    BY Zenon DEF IInv, TypeOK
  <1>1. IdleInv'
    BY <1>0 DEF IdleInv, IdleLabel
  <1>2. FreeInv'
    BY <1>0, Zenon DEF FreeInv
  <1>3. \A u \in Thread : CreatorAt(u)' => CreatorAt(u)
    BY Zenon DEF CreatorAt
  <1>4. CreateInv'
    BY <1>0, <1>3 DEF CreateInv
  <1>5. PlaceInv'
    BY <1>0, Zenon DEF PlaceInv, PlaceAt
  <1>6. QED
    BY <1>1, <1>2, <1>4, <1>5, Zenon

(* The current thread yields, by itself or because its time slice is over. *)
LEMMA YieldIInv ==
  ASSUME IInv, SamePlace, Yield(current), UNCHANGED <<value, waiters>>
  PROVE  IInv'
  <1> USE DEF SamePlace
  <1>0. /\ TypeOK /\ SchedOK /\ WaitLists /\ IdleInv /\ StartInv
        /\ idle_thread \in Thread \cup {NULL} /\ status[current] = "RUNNING"
        /\ \A u \in Thread : In(u, ready_list) => status[u] = "READY"
    BY Zenon DEF IInv, TypeOK, SchedOK, OneRunning, RunQueue
  <1>1. /\ SchedOK'
        /\ current' = idle_thread \/ current' = current \/ In(current', ready_list)
        /\ \A t \in Thread : In(t, ready_list) => t = current' \/ In(t, ready_list')
        /\ idle_thread = NULL => current = current' \/ In(current, ready_list')
        /\ \A t \in Thread : t # current' =>
             status'[t] = IF t = current THEN "READY" ELSE status[t]
    BY <1>0, YieldLemma, Zenon
  <1>2. current' \in Thread /\ status'[current'] = "RUNNING"
    BY <1>1, Zenon DEF SchedOK, SchedType, OneRunning
  <1>3. \A u \in Thread : status'[u] = "FREE" => status[u] = "FREE"
    BY <1>1, <1>2, Zenon
  <1>4. ASSUME NEW u \in Thread, status[u] = "BLOCKED", pc[u] \notin IdleLabel
        PROVE  u # current' /\ u # current /\ status'[u] = "BLOCKED"
    BY <1>0, <1>1, <1>2, <1>4, ThreadsAssumption, Zenon DEF IdleInv
  <1>5. \A u \in Thread : status[u] = "BLOCKED" /\ pc[u] = "run" => status'[u] = "BLOCKED"
    BY <1>4, Zenon DEF IdleLabel
  <1>6. WaitLists'
    <2>1. ASSUME NEW x \in AllSema, NEW u \in Thread, In(u, waiters[x])
          PROVE  status'[u] = "BLOCKED" /\ WaitsIn(u, x)'
      <3>1. status[u] = "BLOCKED" /\ WaitsIn(u, x)
        BY <1>0, <2>1, Zenon DEF WaitLists
      <3>2. pc[u] \notin IdleLabel
        BY <3>1, Zenon DEF WaitsIn, IdleLabel
      <3>3. status'[u] = "BLOCKED" /\ u # current
        BY <3>1, <3>2, <1>4, Zenon
      <3>4. QED
        BY <3>1, <3>3, Zenon DEF WaitsIn, LockOf
    <2>2. QED
      BY <1>0, <2>1, Zenon DEF WaitLists, AllSema
  <1>7. StartInv'
    BY <1>0, <1>1, <1>2, ThreadsAssumption, Zenon DEF StartInv
  <1>8. TypeOK'
    BY <1>0, <1>1, Zenon DEF TypeOK, SchedOK, SchedType
  <1>9. QED
    BY <1>1, <1>3, <1>5, <1>6, <1>7, <1>8, SamePlaceLemma, Zenon DEF IInv

LEMMA InterruptIInv == ASSUME IInv, Interrupt PROVE IInv'
  <1>0. TypeOK /\ current \in Thread /\ SchedOK /\ WaitLists /\ StartInv
    BY Zenon DEF IInv, TypeOK
  <1>1. CASE TimerInterrupt
    <2>1. SamePlace /\ UNCHANGED <<value, waiters>>
      BY <1>0, <1>1, Zenon DEF TimerInterrupt, InterruptsOn, EndHlt, SamePlace, TypeOK, tids, Label
    <2>2. CASE Yield(current)
      BY <2>1, <2>2, YieldIInv, Zenon
    <2>3. CASE /\ ~ (thread_ticks + 1 >= TIME_SLICE)
               /\ thread_ticks' = thread_ticks + 1
               /\ UNCHANGED <<current, status, ready_list>>
      <3>1. thread_ticks' \in 0 .. TIME_SLICE - 1
        BY <1>0, <2>3, ThreadsAssumption DEF TypeOK
      <3>2. SchedOK'
        BY <1>0, <2>1, <2>3, <3>1, Zenon DEF SamePlace, SchedOK, SchedType, OneRunning, RunQueue
      <3>3. TypeOK'
        BY <1>0, <2>1, <2>3, <3>1, Zenon DEF SamePlace, TypeOK
      <3>4. WaitLists'
        BY <1>0, <2>1, <2>3, SMTT(30) DEF SamePlace, WaitLists, WaitsIn, LockOf, AllSema
      <3>5. StartInv'
        BY <1>0, <2>1, <2>3, Zenon DEF SamePlace, StartInv
      <3>6. QED
        BY <2>1, <2>3, <3>2, <3>3, <3>4, <3>5, SamePlaceLemma, Zenon DEF IInv
    <2>4. QED
      BY <1>1, <2>2, <2>3, Zenon DEF TimerInterrupt
  <1>2. ASSUME NEW s \in IrqSema, DeviceInterrupt(s) PROVE IInv'
    <2>1. SamePlace /\ UpStep(s) /\ s \in AllSema
      BY <1>0, <1>2, ThreadsAssumption, Zenon
         DEF DeviceInterrupt, InterruptsOn, EndHlt, SamePlace, TypeOK, tids, Label, AllSema
    <2>2. /\ SchedOK' /\ WaitLists' /\ UNCHANGED current
          /\ value' \in [AllSema -> Nat] /\ waiters' \in [AllSema -> Seq(Thread)]
          /\ \A u : In(u, ready_list) => In(u, ready_list')
          /\ \A u \in Thread : status'[u] = "FREE" => status[u] = "FREE"
          /\ \A u \in Thread : status[u] = "BLOCKED" /\ pc[u] = "run" => status'[u] = "BLOCKED"
      BY <2>1, UpLemma, Zenon DEF SamePlace
    <2>3. TypeOK'
      BY <1>0, <2>1, <2>2, Zenon DEF SamePlace, TypeOK, SchedOK, SchedType
    <2>4. StartInv'
      BY <1>0, <2>1, <2>2, Zenon DEF SamePlace, StartInv
    <2>5. QED
      BY <2>1, <2>2, <2>3, <2>4, SamePlaceLemma, Zenon DEF IInv
  <1>3. QED
    BY <1>1, <1>2, Zenon DEF Interrupt
-----------------------------------------------------------------------------
(* Thread creation, exit and start-up. *)

(* thread_create's first half: page u becomes a blocked thread on no list. *)
LEMMA ThreadCreateIInv ==
  ASSUME IInv, NEW t \in Thread, NEW u \in Thread, ThreadCreate(t, u)
  PROVE  IInv'
  <1> USE ThreadsAssumption, ObjectsAreDistinct
  <1>1. /\ t = current /\ pc[t] = "run" /\ status[u] = "FREE"
        /\ status' = [status EXCEPT ![u] = "BLOCKED"]
        /\ pc' = [pc EXCEPT ![t] = "lock_down", ![u] = "run"]
        /\ obj' = [obj EXCEPT ![t] = TidLock]
        /\ peer' = [peer EXCEPT ![t] = u]
        /\ tid' = [tid EXCEPT ![u] = 0]
        /\ UNCHANGED <<current, ready_list, thread_ticks, idle_thread, value, waiters,
                       holder, cond_waiters, next_tid>>
    BY Zenon DEF ThreadCreate, Running, FreePage
  <1>2. /\ TypeOK /\ SchedOK /\ WaitLists /\ IdleInv /\ StartInv /\ FreeInv /\ CreateInv /\ PlaceInv
        /\ pc[u] = "free" /\ status[t] = "RUNNING" /\ u # t
        /\ idle_thread \in Thread \cup {NULL}
    BY <1>1, Zenon DEF IInv, TypeOK, SchedOK, OneRunning, FreeInv
  <1>3. /\ pc'[t] = "lock_down" /\ pc'[u] = "run" /\ obj'[t] = TidLock /\ peer'[t] = u
        /\ status'[u] = "BLOCKED"
        /\ \A x \in Thread : x \notin {t, u} => pc'[x] = pc[x]
        /\ \A x \in Thread : x # t => obj'[x] = obj[x] /\ peer'[x] = peer[x]
        /\ \A x \in Thread : x # u => status'[x] = status[x]
        /\ pc[t] = "run" /\ t = current /\ idle_thread' = idle_thread
    BY <1>1, <1>2, Zenon DEF TypeOK
  <1>4. TypeOK'
    BY <1>1, <1>2, Zenon DEF TypeOK, Status, Label, AllSema
  <1>5. SchedOK'
    BY <1>1, <1>2, <1>3, <1>4 DEF SchedOK, SchedType, OneRunning, RunQueue, TypeOK
  <1>6. WaitLists'
    <2>1. ASSUME NEW x \in AllSema, NEW w \in Thread, In(w, waiters[x])
          PROVE  status'[w] = "BLOCKED" /\ WaitsIn(w, x)'
      <3>1. status[w] = "BLOCKED" /\ WaitsIn(w, x)
        BY <1>2, <2>1, Zenon DEF WaitLists
      <3>2. w # t /\ w # u
        BY <1>1, <1>2, <3>1, Zenon
      <3>3. QED
        BY <1>3, <3>1, <3>2, WaitsInSame, Zenon
    <2>2. QED
      BY <1>1, <1>2, <2>1, Zenon DEF WaitLists, AllSema
  <1>7. IdleInv' /\ StartInv' /\ FreeInv' /\ PlaceInv'
    <2>1. IdleInv'
      BY <1>2, <1>3 DEF IdleInv, IdleLabel
    <2>2. StartInv'
      BY <1>1, <1>2, <1>3, Zenon DEF StartInv
    <2>3. FreeInv'
      BY <1>2, <1>3 DEF FreeInv
    <2>4. PlaceInv'
      BY <1>2, <1>3 DEF PlaceInv, PlaceAt
    <2>5. QED
      BY <2>1, <2>2, <2>3, <2>4, Zenon
  <1>8. CreateInv'
    <2>1. \A x \in Thread : x # t /\ CreatorAt(x)' => CreatorAt(x) /\ x # u
      BY <1>3, Zenon DEF CreatorAt
    <2>2. \A x \in Thread : CreatorAt(x) =>
            peer[x] \in Thread /\ status[peer[x]] = "BLOCKED" /\ pc[peer[x]] = "run" /\ peer[x] \notin {t, u}
      BY <1>1, <1>2, Zenon DEF CreateInv
    <2>3. \A x \in Thread : CreatorAt(x)' =>
            peer'[x] \in Thread /\ status'[peer'[x]] = "BLOCKED" /\ pc'[peer'[x]] = "run"
      BY <1>3, <2>1, <2>2
    <2>4. \A x, y \in Thread : CreatorAt(x)' /\ CreatorAt(y)' /\ peer'[x] = peer'[y] => x = y
      BY <1>2, <1>3, <2>1, <2>2 DEF CreateInv
    <2>5. QED
      BY <2>3, <2>4, Zenon DEF CreateInv
  <1>9. QED
    BY <1>4, <1>5, <1>6, <1>7, <1>8, Zenon DEF IInv

(* allocate_tid. *)
LEMMA TidIInv ==
  ASSUME IInv, NEW t \in Thread, TidRead(t) \/ TidWrite(t)
  PROVE  IInv'
  <1> USE ThreadsAssumption, ObjectsAreDistinct DEF CreatorAt, PlaceAt
  <1>0. TypeOK /\ PlaceAt(t) /\ CreateInv
    BY Zenon DEF IInv, PlaceInv
  <1>1. /\ t = current /\ pc[t] \in {"tid_read", "tid_write"}
        /\ Goto(t, "tid_write", TidLock) \/ Goto(t, "lock_release", TidLock)
        /\ UNCHANGED <<sched, idle_thread, value, waiters, holder, cond_waiters, peer>>
    BY Zenon DEF TidRead, TidWrite, Running
  <1>2. /\ pc' \in [Thread -> Label] /\ obj' \in [Thread -> AllSema \cup Cond \cup {NULL}]
        /\ pc'[t] \in {"tid_write", "lock_release"} /\ obj'[t] = TidLock
        /\ \A u \in Thread : u # t => pc'[u] = pc[u] /\ obj'[u] = obj[u]
    BY <1>0, <1>1, GotoLemma DEF Label, AllSema
  <1>3. peer[t] \in Thread
    BY <1>0, <1>1, Zenon DEF CreateInv
  <1>4. tid' \in [Thread -> Nat] /\ next_tid' \in Nat
    <2>1. CASE TidRead(t)
      BY <1>0, <1>3, <2>1, Zenon DEF TidRead, TypeOK
    <2>2. CASE TidWrite(t)
      <3>1. tid[peer[t]] \in Nat /\ next_tid' = tid[peer[t]] + 1 /\ tid' = tid
        BY <1>0, <1>3, <2>2, Zenon DEF TidWrite, TypeOK
      <3>2. QED
        BY <1>0, <3>1 DEF TypeOK
    <2>3. QED
      BY <2>1, <2>2, Zenon
  <1>5. TypeOK'
    BY <1>0, <1>1, <1>2, <1>4, Zenon DEF TypeOK, sched
  <1>6. QED
    BY <1>0, <1>1, <1>2, <1>5, PlainIInv DEF StartLabel, IdleLabel

(* The end of thread_create. *)
LEMMA UnblockChildIInv ==
  ASSUME IInv, NEW t \in Thread, UnblockChild(t)
  PROVE  IInv'
  <1> USE ThreadsAssumption
  <1>1. /\ t = current /\ pc[t] = "unblock" /\ Unblock(peer[t])
        /\ peer' = [peer EXCEPT ![t] = NULL] /\ Goto(t, "run", NULL)
        /\ UNCHANGED <<idle_thread, value, waiters, holder, cond_waiters, tid, next_tid>>
    BY Zenon DEF UnblockChild, Running, Return, tids
  <1>2. /\ TypeOK /\ SchedOK /\ WaitLists /\ IdleInv /\ StartInv /\ FreeInv /\ CreateInv /\ PlaceInv
        /\ idle_thread \in Thread \cup {NULL}
    BY Zenon DEF IInv, TypeOK
  <1>3. peer[t] \in Thread /\ status[peer[t]] = "BLOCKED" /\ pc[peer[t]] = "run"
    BY <1>1, <1>2, Zenon DEF CreateInv, CreatorAt
  <1>4. peer[t] # idle_thread
    BY <1>2, <1>3, Zenon DEF IdleInv, IdleLabel
  <1>5. /\ SchedOK' /\ UNCHANGED current
        /\ \A x : In(x, ready_list') <=> In(x, ready_list) \/ x = peer[t]
        /\ \A x \in Thread : status'[x] = IF x = peer[t] THEN "READY" ELSE status[x]
    BY <1>1, <1>2, <1>3, <1>4, UnblockLemma, Zenon
  <1>6. /\ pc' \in [Thread -> Label] /\ obj' \in [Thread -> AllSema \cup Cond \cup {NULL}]
        /\ pc'[t] = "run"
        /\ \A u \in Thread : u # t => pc'[u] = pc[u] /\ obj'[u] = obj[u]
    BY <1>1, <1>2, GotoLemma, Zenon DEF Label
  <1>7. peer' \in [Thread -> Thread \cup {NULL}] /\ \A u \in Thread : u # t => peer'[u] = peer[u]
    BY <1>1, <1>2, Zenon DEF TypeOK
  <1>8. TypeOK'
    BY <1>1, <1>2, <1>5, <1>6, <1>7, Zenon DEF TypeOK, SchedOK, SchedType
  <1>9. WaitLists'
    <2>1. ASSUME NEW x \in AllSema, NEW w \in Thread, In(w, waiters[x])
          PROVE  status'[w] = "BLOCKED" /\ WaitsIn(w, x)'
      <3>1. status[w] = "BLOCKED" /\ WaitsIn(w, x)
        BY <1>2, <2>1, Zenon DEF WaitLists
      <3>2. w # t /\ w # peer[t]
        BY <1>1, <1>3, <3>1, Zenon DEF WaitsIn
      <3>3. QED
        BY <1>5, <1>6, <3>1, <3>2, WaitsInSame, Zenon
    <2>2. QED
      BY <1>1, <1>2, <2>1, Zenon DEF WaitLists, AllSema
  <1>10. IdleInv' /\ StartInv' /\ FreeInv' /\ PlaceInv'
    <2>1. IdleInv' /\ StartInv'
      BY <1>1, <1>2, <1>5, <1>6 DEF IdleInv, IdleLabel, StartInv
    <2>2. FreeInv'
      BY <1>1, <1>2, <1>5, <1>6, Zenon DEF FreeInv
    <2>3. ASSUME NEW x \in Thread PROVE PlaceAt(x)'
      <3>1. PlaceAt(x)
        BY <1>2, Zenon DEF PlaceInv
      <3>2. QED
        BY <1>6, <1>7, <3>1, Zenon DEF PlaceAt
    <2>4. QED
      BY <2>1, <2>2, <2>3, Zenon DEF PlaceInv
  <1>11. CreateInv'
    <2>1. \A x \in Thread : CreatorAt(x)' => CreatorAt(x) /\ x # t /\ peer'[x] = peer[x]
      BY <1>6, <1>7, Zenon DEF CreatorAt
    <2>2. CreatorAt(t)
      BY <1>1, Zenon DEF CreatorAt
    <2>3. \A x \in Thread : CreatorAt(x)' =>
            peer'[x] \in Thread /\ status'[peer'[x]] = "BLOCKED" /\ pc'[peer'[x]] = "run"
      BY <1>2, <1>5, <1>6, <2>1, <2>2, SMTT(30) DEF CreateInv
    <2>4. QED
      BY <1>2, <2>1, <2>3, Zenon DEF CreateInv
  <1>12. QED
    BY <1>5, <1>8, <1>9, <1>10, <1>11, Zenon DEF IInv

(* thread_exit: the dying thread is on no list, and another one takes over. *)
LEMMA ThreadExitIInv ==
  ASSUME IInv, NEW t \in Thread, ThreadExit(t)
  PROVE  IInv'
  <1> USE ThreadsAssumption
  <1> DEFINE st == [status EXCEPT ![t] = "DYING"]
  <1>1. /\ t = current /\ pc[t] = "run" /\ Schedule(st, ready_list)
        /\ tid' = [tid EXCEPT ![t] = 0] /\ Goto(t, "free", NULL)
        /\ UNCHANGED <<idle_thread, value, waiters, holder, cond_waiters, peer, next_tid>>
    BY Zenon DEF ThreadExit, Running, Return
  <1>2. /\ TypeOK /\ SchedOK /\ WaitLists /\ IdleInv /\ StartInv /\ FreeInv /\ CreateInv /\ PlaceInv
        /\ idle_thread \in Thread \cup {NULL} /\ ready_list \in Seq(Thread) /\ SchedType
        /\ status[t] = "RUNNING" /\ t # idle_thread /\ ~ In(t, ready_list)
    BY <1>1, Zenon DEF IInv, TypeOK, SchedOK, OneRunning, RunQueue, IdleInv, IdleLabel
  <1>3. /\ st \in [Thread -> Status]
        /\ \A x \in Thread : st[x] = IF x = t THEN "DYING" ELSE status[x]
    BY <1>2, Zenon DEF TypeOK, Status
  <1>4. ready_list # <<>> \/ idle_thread # NULL
    BY <1>1, HasNext, Zenon
  <1> HIDE DEF st
  <1>5. /\ \A x \in Thread : st[x] # "RUNNING"
        /\ NoDuplicates(ready_list)
        /\ \A x \in Thread : In(x, ready_list) => st[x] = "READY"
        /\ \A x \in Thread : st[x] = "READY" => x = idle_thread \/ In(x, ready_list)
        /\ idle_thread # NULL => ~ In(idle_thread, ready_list)
    BY <1>1, <1>2, <1>3, Zenon DEF SchedOK, OneRunning, RunQueue
  <1>6. /\ SchedOK'
        /\ current' = idle_thread \/ In(current', ready_list)
        /\ \A x \in Thread : In(x, ready_list) => x = current' \/ In(x, ready_list')
        /\ \A x \in Thread : x # current' =>
             status'[x] = IF x = current THEN AfterSwitch(x, st[x]) ELSE st[x]
    BY <1>1, <1>2, <1>3, <1>4, <1>5, ScheduleLemma, Zenon
  <1>7. current' \in Thread /\ status'[current'] = "RUNNING" /\ current' # t
    BY <1>2, <1>6, Zenon DEF SchedOK, SchedType, OneRunning
  <1>8. \A x \in Thread : x \notin {current', t} => status'[x] = status[x]
    BY <1>1, <1>3, <1>6, Zenon
  <1>9. /\ pc' \in [Thread -> Label] /\ obj' \in [Thread -> AllSema \cup Cond \cup {NULL}]
        /\ pc'[t] = "free"
        /\ \A u \in Thread : u # t => pc'[u] = pc[u] /\ obj'[u] = obj[u]
    BY <1>1, <1>2, GotoLemma, Zenon DEF Label
  <1>10. ASSUME NEW x \in Thread, status[x] = "BLOCKED", pc[x] \notin IdleLabel
         PROVE  x # t /\ status'[x] = "BLOCKED"
    BY <1>2, <1>5, <1>6, <1>7, <1>8, <1>3, <1>10 DEF IdleInv
  <1>11. WaitLists'
    <2>1. ASSUME NEW x \in AllSema, NEW w \in Thread, In(w, waiters[x])
          PROVE  status'[w] = "BLOCKED" /\ WaitsIn(w, x)'
      <3>1. status[w] = "BLOCKED" /\ WaitsIn(w, x)
        BY <1>2, <2>1, Zenon DEF WaitLists
      <3>2. w # t /\ status'[w] = "BLOCKED"
        BY <1>10, <3>1, Zenon DEF WaitsIn, IdleLabel
      <3>3. QED
        BY <1>9, <3>1, <3>2, WaitsInSame, Zenon
    <2>2. QED
      BY <1>1, <1>2, <2>1, Zenon DEF WaitLists, AllSema
  <1>12. TypeOK'
    <2>1. SchedType'
      BY <1>6, Zenon DEF SchedOK
    <2>2. QED
      BY <1>1, <1>2, <1>9, <2>1, Zenon DEF TypeOK, SchedType
  <1>13. IdleInv'
    BY <1>1, <1>2, <1>9, SMTT(30) DEF IdleInv, IdleLabel
  <1>14. StartInv'
    <2>1. SUFFICES ASSUME idle_thread = NULL
                   PROVE  \E u \in Thread : pc'[u] = "idle_init" /\ (u = current' \/ In(u, ready_list'))
      BY <1>1, Zenon DEF StartInv
    <2>2. PICK u \in Thread : pc[u] = "idle_init" /\ (u = current \/ In(u, ready_list))
      BY <1>1, <1>2, <2>1, Zenon DEF StartInv
    <2>3. QED
      BY <1>1, <1>6, <1>9, <2>2, Zenon
  <1>15. FreeInv'
    BY <1>2, <1>7, <1>8, <1>9, Zenon DEF FreeInv
  <1>16. CreateInv'
    <2>1. \A x \in Thread : CreatorAt(x)' => CreatorAt(x) /\ x # t
      BY <1>9, Zenon DEF CreatorAt
    <2>2. QED
      BY <1>1, <1>2, <1>9, <1>10, <2>1, Zenon DEF CreateInv, IdleLabel
  <1>17. PlaceInv'
    BY <1>1, <1>2, <1>9, Zenon DEF PlaceInv, PlaceAt
  <1>18. QED
    BY <1>6, <1>11, <1>12, <1>13, <1>14, <1>15, <1>16, <1>17, Zenon DEF IInv

(* thread_start: the idle thread is created and queued. *)
LEMMA ThreadStartIInv ==
  ASSUME IInv, NEW t \in Thread, NEW u \in Thread, ThreadStart(t, u)
  PROVE  IInv'
  <1> USE ThreadsAssumption, ObjectsAreDistinct
  <1>1. /\ t = current /\ pc[t] = "boot" /\ status[u] = "FREE"
        /\ tid' = [tid EXCEPT ![u] = next_tid] /\ next_tid' = next_tid + 1
        /\ ready_list' = Append(ready_list, u)
        /\ status' = [status EXCEPT ![u] = "READY"]
        /\ pc' = [pc EXCEPT ![t] = "sema_down", ![u] = "idle_init"]
        /\ obj' = [obj EXCEPT ![t] = IdleStarted]
        /\ UNCHANGED <<current, thread_ticks, idle_thread, value, waiters, holder,
                       cond_waiters, peer>>
    BY Zenon DEF ThreadStart, Running, FreePage
  <1>2. /\ TypeOK /\ SchedOK /\ WaitLists /\ IdleInv /\ FreeInv /\ CreateInv /\ PlaceInv
        /\ pc[u] = "free" /\ status[t] = "RUNNING" /\ u # t /\ idle_thread = NULL
        /\ ready_list \in Seq(Thread)
    BY <1>1, Zenon DEF IInv, TypeOK, SchedOK, OneRunning, FreeInv, IdleInv
  <1>3. /\ pc'[t] = "sema_down" /\ pc'[u] = "idle_init" /\ obj'[t] = IdleStarted
        /\ status'[u] = "READY"
        /\ \A x \in Thread : x \notin {t, u} => pc'[x] = pc[x]
        /\ \A x \in Thread : x # t => obj'[x] = obj[x]
        /\ \A x \in Thread : x # u => status'[x] = status[x]
        /\ pc[t] = "boot" /\ t = current /\ UNCHANGED <<idle_thread, peer>>
    BY <1>1, <1>2, Zenon DEF TypeOK
  <1>4. TypeOK'
    <2>1. tid' \in [Thread -> Nat] /\ next_tid' \in Nat
      BY <1>1, <1>2 DEF TypeOK
    <2>2. status' \in [Thread -> Status] /\ ready_list' \in Seq(Thread)
      BY <1>1, <1>2 DEF TypeOK, Status
    <2>3. pc' \in [Thread -> Label]
      BY <1>1, <1>2, Zenon DEF TypeOK, Label
    <2>4. obj' \in [Thread -> AllSema \cup Cond \cup {NULL}]
      BY <1>1, <1>2, Zenon DEF TypeOK, AllSema
    <2>5. QED
      BY <1>1, <1>2, <2>1, <2>2, <2>3, <2>4, Zenon DEF TypeOK
  <1>5. ~ In(u, ready_list) /\ \A x : In(x, ready_list') <=> In(x, ready_list) \/ x = u
    BY <1>1, <1>2, InAppend, Zenon DEF SchedOK, RunQueue
  <1>6. NoDuplicates(ready_list')
    BY <1>1, <1>2, <1>5, NoDuplicatesAppend, Zenon DEF SchedOK, RunQueue
  <1>7. SchedOK'
    <2>1. SchedType'
      BY <1>4, Zenon DEF TypeOK, SchedType
    <2>2. current' = current /\ idle_thread' = NULL
      BY <1>1, <1>2, Zenon
    <2>3. OneRunning'
      BY <1>2, <1>3, <2>2, Zenon DEF SchedOK, OneRunning
    <2>4. RunQueue'
      BY <1>2, <1>3, <1>5, <1>6, <2>2, Zenon DEF SchedOK, RunQueue
    <2>5. QED
      BY <2>1, <2>3, <2>4, Zenon DEF SchedOK
  <1>8. WaitLists'
    <2>1. ASSUME NEW x \in AllSema, NEW w \in Thread, In(w, waiters[x])
          PROVE  status'[w] = "BLOCKED" /\ WaitsIn(w, x)'
      <3>1. status[w] = "BLOCKED" /\ WaitsIn(w, x)
        BY <1>2, <2>1, Zenon DEF WaitLists
      <3>2. w # t /\ w # u
        BY <1>1, <1>2, <3>1, Zenon
      <3>3. QED
        BY <1>3, <3>1, <3>2, WaitsInSame, Zenon
    <2>2. QED
      BY <1>1, <1>2, <2>1, Zenon DEF WaitLists, AllSema
  <1>9. IdleInv'
    BY <1>2, <1>3 DEF IdleInv, IdleLabel
  <1>10. StartInv'
    BY <1>3, <1>5, Zenon DEF StartInv
  <1>11. FreeInv'
    BY <1>2, <1>3, Zenon DEF FreeInv
  <1>12. PlaceInv'
    BY <1>2, <1>3 DEF PlaceInv, PlaceAt
  <1>13. CreateInv'
    <2>1. \A x \in Thread : CreatorAt(x)' => CreatorAt(x) /\ x \notin {t, u}
      BY <1>3, Zenon DEF CreatorAt
    <2>2. \A x \in Thread : CreatorAt(x) => peer[x] \notin {t, u}
      BY <1>1, <1>2, Zenon DEF CreateInv
    <2>3. ASSUME NEW x \in Thread, CreatorAt(x)'
          PROVE  peer'[x] \in Thread /\ status'[peer'[x]] = "BLOCKED" /\ pc'[peer'[x]] = "run"
      <3>1. /\ peer[x] \in Thread /\ peer[x] \notin {t, u} /\ peer'[x] = peer[x]
            /\ status[peer[x]] = "BLOCKED" /\ pc[peer[x]] = "run"
        BY <1>2, <1>3, <2>1, <2>2, <2>3, Zenon DEF CreateInv
      <3>2. QED
        BY <1>3, <3>1, Zenon
    <2>4. QED
      BY <1>2, <1>3, <2>1, <2>3, Zenon DEF CreateInv
  <1>14. QED
    BY <1>4, <1>7, <1>8, <1>9, <1>10, <1>11, <1>12, <1>13, Zenon DEF IInv

(* The idle thread. *)
LEMMA IdleIInv ==
  ASSUME IInv, NEW t \in Thread, IdleInit(t) \/ IdleUp(t) \/ IdleBlock(t)
  PROVE  IInv'
  <1> USE ThreadsAssumption
  <1>0. /\ TypeOK /\ SchedOK /\ WaitLists /\ IdleInv /\ StartInv /\ FreeInv /\ CreateInv /\ PlaceInv
        /\ idle_thread \in Thread \cup {NULL}
    BY Zenon DEF IInv, TypeOK
  <1>1. ASSUME NEW l \in IdleLabel, t = current, Goto(t, l, NULL), UNCHANGED peer,
               pc[t] \in IdleLabel \/ pc[t] = "idle_init", idle_thread' = t,
               \A x \in Thread : status'[x] = "FREE" => status[x] = "FREE",
               \A x \in Thread : status[x] = "BLOCKED" /\ pc[x] = "run" => status'[x] = "BLOCKED"
        PROVE  /\ PlaceType' /\ IdleInv' /\ StartInv' /\ FreeInv' /\ CreateInv' /\ PlaceInv'
               /\ \A x \in Thread : x # t => pc'[x] = pc[x] /\ obj'[x] = obj[x]
    <2>1. /\ pc' \in [Thread -> Label] /\ obj' \in [Thread -> AllSema \cup Cond \cup {NULL}]
          /\ pc'[t] = l
          /\ \A x \in Thread : x # t => pc'[x] = pc[x] /\ obj'[x] = obj[x]
      <3>1. TypeOK /\ Goto(t, l, NULL) /\ l \in Label
        BY <1>0, <1>1, Zenon DEF Label, IdleLabel
      <3>2. QED
        BY <3>1, GotoLemma, Zenon
    <2>2. idle_thread \in {NULL, t} /\ \A x \in Thread : pc[x] \in IdleLabel => x = t
      BY <1>0, <1>1, Zenon DEF IdleInv
    <2>3. IdleInv'
      BY <1>0, <1>1, <2>1, <2>2, SMTT(30) DEF IdleInv, IdleLabel
    <2>4. PlaceType' /\ StartInv'
      <3>1. PlaceType'
        BY <1>0, <1>1, <2>1, Zenon DEF PlaceType, TypeOK
      <3>2. StartInv'
        BY <1>1, Zenon DEF StartInv
      <3>3. QED
        BY <3>1, <3>2, Zenon
    <2>5. status[t] = "RUNNING"
      BY <1>0, <1>1, Zenon DEF SchedOK, OneRunning
    <2>6. FreeInv' /\ PlaceInv'
      <3>1. FreeInv'
        BY <1>0, <1>1, <2>1, <2>5, Zenon DEF FreeInv
      <3>2. ASSUME NEW x \in Thread, x # t PROVE PlaceAt(x)'
        BY <1>0, <1>1, <2>1, <3>2, Zenon DEF PlaceInv, PlaceAt
      <3>3. PlaceAt(t)'
        BY <2>1, Zenon DEF PlaceAt, IdleLabel
      <3>4. QED
        BY <3>1, <3>2, <3>3, Zenon DEF PlaceInv
    <2>7. CreateInv'
      <3>1. \A x \in Thread : CreatorAt(x)' => CreatorAt(x) /\ x # t
        BY <2>1, Zenon DEF CreatorAt, IdleLabel
      <3>2. QED
        BY <1>0, <1>1, <2>1, <2>5, <3>1, SMTT(30) DEF CreateInv
    <2>8. QED
      BY <2>1, <2>3, <2>4, <2>6, <2>7, Zenon
  <1>2. CASE IdleInit(t)
    <2>1. /\ t = current /\ pc[t] = "idle_init" /\ idle_thread' = t /\ Goto(t, "idle_up", NULL)
          /\ UNCHANGED <<current, status, ready_list, thread_ticks, value, waiters, holder,
                         cond_waiters, peer, tid, next_tid>>
      BY <1>2, Zenon DEF IdleInit, Running, Return, sched, tids
    <2>2. /\ PlaceType' /\ IdleInv' /\ StartInv' /\ FreeInv' /\ CreateInv' /\ PlaceInv'
          /\ \A x \in Thread : x # t => pc'[x] = pc[x] /\ obj'[x] = obj[x]
      BY <1>1, <2>1, Zenon DEF IdleLabel
    <2>3. TypeOK'
      BY <1>0, <2>1, <2>2, Zenon DEF TypeOK, PlaceType
    <2>4. idle_thread = NULL /\ status[t] = "RUNNING"
      BY <1>0, <2>1, Zenon DEF IdleInv, SchedOK, OneRunning
    <2>5. SchedOK'
      BY <1>0, <2>1, <2>4, Zenon DEF SchedOK, SchedType, OneRunning, RunQueue
    <2>6. WaitLists'
      <3>1. \A x \in AllSema, w \in Thread :
              In(w, waiters[x]) => status[w] = "BLOCKED" /\ WaitsIn(w, x) /\ w # t
        BY <1>0, <2>4, Zenon DEF WaitLists
      <3>2. \A x \in AllSema, w \in Thread : In(w, waiters[x]) => WaitsIn(w, x)'
        BY <2>2, <3>1, WaitsInSame, Zenon
      <3>3. QED
        BY <1>0, <2>1, <3>1, <3>2, Zenon DEF WaitLists, AllSema
    <2>7. QED
      BY <2>2, <2>3, <2>5, <2>6, Zenon DEF IInv
  <1>3. CASE IdleUp(t)
    <2>1. /\ t = current /\ pc[t] = "idle_up" /\ UpStep(IdleStarted) /\ Goto(t, "idle_block", NULL)
          /\ UNCHANGED <<idle_thread, holder, cond_waiters, peer, tid, next_tid>>
          /\ IdleStarted \in AllSema
      BY <1>3, Zenon DEF IdleUp, Running, Return, tids, AllSema
    <2>2. \A x \in Thread : x # t => pc'[x] = pc[x] /\ obj'[x] = obj[x]
      BY <1>0, <2>1, GotoLemma, Zenon DEF Label
    <2>3. /\ SchedOK' /\ WaitLists' /\ UNCHANGED current
          /\ value' \in [AllSema -> Nat] /\ waiters' \in [AllSema -> Seq(Thread)]
          /\ \A u \in Thread : status'[u] = "FREE" => status[u] = "FREE"
          /\ \A u \in Thread : status[u] = "BLOCKED" /\ pc[u] = "run" => status'[u] = "BLOCKED"
      BY <2>1, <2>2, UpLemma, Zenon
    <2>4. idle_thread = t
      BY <1>0, <2>1, Zenon DEF IdleInv, IdleLabel
    <2>5. /\ PlaceType' /\ IdleInv' /\ StartInv' /\ FreeInv' /\ CreateInv' /\ PlaceInv'
      BY <1>1, <2>1, <2>3, <2>4, Zenon DEF IdleLabel
    <2>6. TypeOK'
      BY <1>0, <2>1, <2>3, <2>5, Zenon DEF TypeOK, PlaceType, SchedOK, SchedType
    <2>7. QED
      BY <2>3, <2>5, <2>6, Zenon DEF IInv
  <1>4. CASE IdleBlock(t)
    <2>1. /\ t = current /\ pc[t] = "idle_block" /\ Block(t) /\ Goto(t, "idle_hlt", NULL)
          /\ UNCHANGED <<idle_thread, value, waiters, holder, cond_waiters, peer, tid, next_tid>>
      BY <1>4, Zenon DEF IdleBlock, Running, Return, tids
    <2>2. idle_thread = t /\ idle_thread # NULL /\ status[t] = "RUNNING"
      BY <1>0, <2>1, Zenon DEF IdleInv, IdleLabel, SchedOK, OneRunning
    <2>3. /\ SchedOK'
          /\ current' = idle_thread \/ In(current', ready_list)
          /\ \A x \in Thread : x # current' =>
               status'[x] = IF x = current THEN "BLOCKED" ELSE status[x]
      BY <1>0, <2>1, <2>2, BlockLemma, Zenon
    <2>4. current' \in Thread /\ status'[current'] = "RUNNING"
      BY <2>3, Zenon DEF SchedOK, SchedType, OneRunning
    <2>5. \A x \in Thread : status[x] = "BLOCKED" => x # t /\ x # current' /\ status'[x] = "BLOCKED"
      BY <1>0, <2>1, <2>2, <2>3, <2>4, Zenon DEF SchedOK, RunQueue
    <2>6. \A x \in Thread : status'[x] = "FREE" => status[x] = "FREE"
      BY <2>3, <2>4, Zenon
    <2>7. /\ PlaceType' /\ IdleInv' /\ StartInv' /\ FreeInv' /\ CreateInv' /\ PlaceInv'
          /\ \A x \in Thread : x # t => pc'[x] = pc[x] /\ obj'[x] = obj[x]
      BY <1>1, <2>1, <2>2, <2>5, <2>6, Zenon DEF IdleLabel
    <2>8. TypeOK'
      BY <1>0, <2>1, <2>3, <2>7, Zenon DEF TypeOK, PlaceType, SchedOK, SchedType
    <2>9. WaitLists'
      <3>1. \A x \in AllSema, w \in Thread :
              In(w, waiters[x]) => status[w] = "BLOCKED" /\ WaitsIn(w, x)
        BY <1>0, Zenon DEF WaitLists
      <3>2. \A x \in AllSema, w \in Thread : In(w, waiters[x]) => status'[w] = "BLOCKED" /\ WaitsIn(w, x)'
        BY <2>5, <2>7, <3>1, WaitsInSame, Zenon
      <3>3. QED
        BY <1>0, <2>1, <3>2, Zenon DEF WaitLists, AllSema
    <2>10. QED
      BY <2>3, <2>7, <2>8, <2>9, Zenon DEF IInv
  <1>5. QED
    BY <1>2, <1>3, <1>4, Zenon

LEMMA ThreadStepIInv ==
  ASSUME IInv, NEW t \in Thread, ThreadStep(t)
  PROVE  IInv'
  <1>1. CASE ThreadYield(t)
    <2>1. t = current /\ pc[t] = "run" /\ Yield(current) /\ UNCHANGED <<value, waiters>> /\ SamePlace
      BY <1>1, Zenon DEF ThreadYield, Running, SamePlace, place, tids, IInv, TypeOK
    <2>2. QED
      BY <2>1, YieldIInv, Zenon
  <1>2. QED
    BY <1>1, ThreadCreateIInv, ThreadStartIInv, TidIInv, UnblockChildIInv, ThreadExitIInv,
       IdleIInv, Zenon DEF ThreadStep

LEMMA NextIInv == IInv /\ [Next]_vars => IInv'
  <1> SUFFICES ASSUME IInv, [Next]_vars PROVE IInv'
    BY Zenon
  <1>1. ASSUME NEW t \in Thread, Step(t) PROVE IInv'
    BY <1>1, SemaStepIInv, LockStepIInv, CondStepIInv, ThreadStepIInv, Zenon DEF Step
  <1>2. CASE UNCHANGED vars
    <2>1. UNCHANGED <<current, status, ready_list, thread_ticks, idle_thread, value, waiters, holder,
                      cond_waiters, pc, obj, peer, tid, next_tid>>
      BY <1>2, Zenon DEF vars, sched, place, tids
    <2>2. TypeOK' /\ SchedOK'
      BY <2>1, Zenon DEF IInv, TypeOK, SchedOK, SchedType, OneRunning, RunQueue
    <2>3. WaitLists'
      BY <2>1, WaitsInSame, Zenon DEF IInv, WaitLists, AllSema
    <2>4. IdleInv' /\ StartInv' /\ FreeInv'
      BY <2>1, Zenon DEF IInv, IdleInv, StartInv, FreeInv
    <2>5. CreateInv' /\ PlaceInv'
      BY <2>1, Zenon DEF IInv, CreateInv, CreatorAt, PlaceInv, PlaceAt
    <2>6. QED
      BY <2>2, <2>3, <2>4, <2>5, Zenon DEF IInv
  <1>3. QED
    BY <1>1, <1>2, InterruptIInv, Zenon DEF Next

THEOREM Invariance == Spec => []IInv
  BY InitIInv, NextIInv, PTL DEF Spec

(* TypeOK holds in every state: every variable of the scheduler, of the      *)
(* semaphores, locks and condition variables keeps its type, and schedule    *)
(* always finds a thread to run.                                             *)
THEOREM TypeCorrect == Spec => []TypeOK
  <1>1. IInv => TypeOK
    BY Zenon DEF IInv
  <1>2. QED
    BY <1>1, Invariance, PTL

(* The list element of a thread is never on two lists, nor twice on one.     *)
THEOREM ElemOnOneListHolds == Spec => []ElemOnOneList
  <1>1. IInv => ElemOnOneList
    BY Zenon DEF IInv, SchedOK, RunQueue, WaitLists, ElemOnOneList
  <1>2. QED
    BY <1>1, Invariance, PTL

(* The idle thread is never on the run queue nor on a wait list.             *)
THEOREM IdleNeverQueuedHolds == Spec => []IdleNeverQueued
  <1>1. IInv => IdleNeverQueued
    <2> SUFFICES ASSUME IInv, idle_thread # NULL
                 PROVE  ~ In(idle_thread, ready_list) /\ \A s \in AllSema : ~ In(idle_thread, waiters[s])
      BY Zenon DEF IdleNeverQueued
    <2>1. idle_thread \in Thread /\ pc[idle_thread] \in IdleLabel
      BY Zenon DEF IInv, TypeOK, IdleInv
    <2>2. QED
      BY <2>1, Zenon DEF IInv, SchedOK, RunQueue, WaitLists, WaitsIn, IdleLabel
  <1>2. QED
    BY <1>1, Invariance, PTL
-----------------------------------------------------------------------------
(* Mutual exclusion of the locks of threads/synch.c. *)

(* The labels at which a thread has a lock that holder does not show. *)
Between == {"lock_set", "lock_up"}

(* What the holder of a lock is while one of its operations is under way. *)
LockAt(t) ==
  /\ pc[t] = "lock_release" => holder[LockOf(t)] = t
  /\ pc[t] \in {"tid_read", "tid_write"} => holder[TidLock] = t
  /\ pc[t] \in Between => holder[LockOf(t)] = NULL

LockInv ==
  /\ \A l \in Lock : value[l] \in {0, 1}
  /\ MutualExclusion
  /\ \A t \in Thread : LockAt(t)

LEMMA LockOfType ==
  ASSUME IInv, NEW t \in Thread,
         pc[t] \in {"lock_down", "lock_set", "lock_release", "lock_up"}
  PROVE  LockOf(t) \in Lock
  BY ThreadsAssumption, Zenon DEF IInv, PlaceInv, PlaceAt, LockOf

LEMMA InitLockInv == Init => LockInv
  BY ThreadsAssumption, ObjectsAreDistinct
     DEF Init, LockInv, MutualExclusion, Owns, LockAt, Between, AllSema

(* A step that changes no lock, and moves threads neither to nor from the    *)
(* labels where a lock is being taken or given up.                           *)
LEMMA LockFrame ==
  ASSUME LockInv, UNCHANGED holder, \A l \in Lock : value'[l] = value[l],
         \A u \in Thread :
           \/ pc'[u] = pc[u] /\ obj'[u] = obj[u]
           \/ pc[u] \notin Between /\ pc'[u] \notin Between /\ LockAt(u)'
  PROVE  LockInv'
  <1>1. \A u \in Thread, l \in Lock : Owns(u, l)' <=> Owns(u, l)
    BY Zenon DEF Owns, LockOf, Between
  <1>2. MutualExclusion'
    BY <1>1, Zenon DEF LockInv, MutualExclusion
  <1>3. \A u \in Thread : LockAt(u)'
    BY Zenon DEF LockInv, LockAt, LockOf
  <1>4. QED
    BY <1>2, <1>3, Zenon DEF LockInv

(* A thread takes a lock whose value is 1. *)
LEMMA TakeLock ==
  ASSUME IInv, LockInv, NEW t \in Thread, NEW l \in Lock, NEW o \in Lock \cup Cond,
         l = IF o \in Cond THEN CondLock[o] ELSE o,
         pc[t] \notin Between,
         value[l] > 0, value' = [value EXCEPT ![l] = @ - 1],
         Goto(t, "lock_set", o), UNCHANGED holder
  PROVE  LockInv'
  <1> USE ThreadsAssumption, ObjectsAreDistinct
  <1>0. TypeOK
    BY Zenon DEF IInv
  <1>1. value[l] = 1 /\ value'[l] = 0 /\ \A k \in Lock : k # l => value'[k] = value[k]
    <2>1. value \in [AllSema -> Nat] /\ Lock \subseteq AllSema
      BY <1>0, Zenon DEF TypeOK, AllSema
    <2>2. value[l] = 1
      BY <2>1 DEF LockInv
    <2>3. QED
      BY <2>1, <2>2
  <1>2. \A u \in Thread : ~ Owns(u, l)
    BY <1>1, Zenon DEF LockInv, MutualExclusion
  <1>3. /\ pc'[t] = "lock_set" /\ obj'[t] = o
        /\ \A u \in Thread : u # t => pc'[u] = pc[u] /\ obj'[u] = obj[u]
    BY <1>0, GotoLemma, Zenon DEF Label, AllSema
  <1>4. LockOf(t)' = l
    BY <1>3, Zenon DEF LockOf
  <1>5. \A u \in Thread, k \in Lock : Owns(u, k)' <=> Owns(u, k) \/ (u = t /\ k = l)
    BY <1>3, <1>4, Zenon DEF Owns, LockOf, Between
  <1>6. MutualExclusion'
    BY <1>1, <1>2, <1>5 DEF LockInv, MutualExclusion
  <1>7. holder[l] = NULL
    BY <1>0, <1>2, Zenon DEF TypeOK, Owns
  <1>8. \A u \in Thread : LockAt(u)'
    BY <1>3, <1>4, <1>7, Zenon DEF LockInv, LockAt, LockOf
  <1>9. QED
    BY <1>1, <1>6, <1>8, Zenon DEF LockInv

LEMMA LockStepLockInv ==
  ASSUME IInv, LockInv, NEW t \in Thread, LockStep(t)
  PROVE  LockInv'
  <1> USE ThreadsAssumption, ObjectsAreDistinct
  <1>0. TypeOK /\ PlaceAt(t)
    BY Zenon DEF IInv, PlaceInv
  <1>1. ASSUME NEW l \in Lock, LockDown(t, l) PROVE LockInv'
    <2>1. PICK o \in Lock \cup Cond :
            /\ l = IF o \in Cond THEN CondLock[o] ELSE o
            /\ pc[t] \in {"run", "lock_down"}
            /\ DownStep(t, l, o, "lock_down", "lock_set")
            /\ UNCHANGED holder
      BY <1>0, <1>1, Zenon DEF LockDown, PlaceAt, LockOf
    <2>2. CASE value[l] > 0 /\ value' = [value EXCEPT ![l] = @ - 1] /\ Goto(t, "lock_set", o)
      BY <2>1, <2>2, TakeLock, Zenon DEF Between
    <2>3. CASE UNCHANGED value /\ Goto(t, "lock_down", o)
      <3>1. /\ pc'[t] = "lock_down"
            /\ \A u \in Thread : u # t => pc'[u] = pc[u] /\ obj'[u] = obj[u]
        BY <1>0, <2>3, GotoLemma, Zenon DEF Label, AllSema
      <3>2. QED
        BY <2>1, <2>3, <3>1, LockFrame, Zenon DEF Between, LockAt
    <2>4. QED
      BY <2>1, <2>2, <2>3, Zenon DEF DownStep
  <1>2. ASSUME NEW l \in Lock, LockTryAcquire(t, l) PROVE LockInv'
    BY <1>2, TakeLock, Zenon DEF LockTryAcquire, Between
  <1>3. CASE LockSetHolder(t)
    <2> DEFINE l == LockOf(t)
    <2>1. /\ pc[t] = "lock_set" /\ holder' = [holder EXCEPT ![l] = t] /\ UNCHANGED value
          /\ \/ obj[t] = TidLock /\ Goto(t, "tid_read", TidLock)
             \/ obj[t] # TidLock /\ Goto(t, "run", NULL)
      BY <1>3, Zenon DEF LockSetHolder, Return
    <2>2. l \in Lock /\ (obj[t] = TidLock => l = TidLock)
      BY <2>1, LockOfType, Zenon DEF LockOf
    <2>3. Owns(t, l) /\ \A u \in Thread : Owns(u, l) => u = t
      BY <2>1, <2>2, Zenon DEF LockInv, MutualExclusion, Owns
    <2>4. /\ pc'[t] = "run" \/ (pc'[t] = "tid_read" /\ l = TidLock)
          /\ \A u \in Thread : u # t => pc'[u] = pc[u] /\ obj'[u] = obj[u]
      BY <1>0, <2>1, <2>2, GotoLemma, Zenon DEF Label, AllSema
    <2>5. holder'[l] = t /\ \A k \in Lock : k # l => holder'[k] = holder[k]
      BY <1>0, <2>1, <2>2, Zenon DEF TypeOK
    <2>6. \A u \in Thread, k \in Lock : Owns(u, k)' <=> Owns(u, k)
      BY <2>1, <2>3, <2>4, <2>5 DEF Owns, LockOf
    <2>7. MutualExclusion'
      BY <2>1, <2>6, Zenon DEF LockInv, MutualExclusion
    <2>8. ASSUME NEW u \in Thread PROVE LockAt(u)'
      <3>1. CASE u = t
        BY <2>4, <2>5, <3>1, Zenon DEF LockAt, Between
      <3>2. CASE u # t
        <4>1. LockAt(u) /\ pc'[u] = pc[u] /\ obj'[u] = obj[u] /\ LockOf(u)' = LockOf(u)
          BY <2>4, <3>2, Zenon DEF LockInv, LockOf
        <4>2. /\ pc[u] \in Between \cup {"lock_release"} => LockOf(u) # l /\ LockOf(u) \in Lock
              /\ pc[u] \in {"tid_read", "tid_write"} => l # TidLock
          BY <2>2, <2>3, <3>2, <4>1, LockOfType, Zenon DEF LockAt, Owns, Between
        <4>3. QED
          BY <2>5, <4>1, <4>2, Zenon DEF LockAt, Between
      <3>3. QED
        BY <3>1, <3>2, Zenon
    <2>9. QED
      BY <2>1, <2>7, <2>8, Zenon DEF LockInv
  <1>4. ASSUME NEW l \in Lock, LockRelease(t, l) PROVE LockInv'
    <2>1. /\ pc[t] \in {"run", "lock_release"} /\ holder[l] = t
          /\ holder' = [holder EXCEPT ![l] = NULL] /\ UNCHANGED value
          /\ \/ Goto(t, "lock_up", l)
             \/ pc[t] = "lock_release" /\ l = LockOf(t) /\ Goto(t, "lock_up", obj[t])
      BY <1>4, Zenon DEF LockRelease, LockInv, LockAt
    <2>2. Owns(t, l) /\ \A u \in Thread : Owns(u, l) => u = t
      BY <2>1, Zenon DEF LockInv, MutualExclusion, Owns
    <2>3. /\ pc'[t] = "lock_up" /\ LockOf(t)' = l
          /\ \A u \in Thread : u # t => pc'[u] = pc[u] /\ obj'[u] = obj[u]
      <3>1. CASE Goto(t, "lock_up", l)
        BY <1>0, <3>1, GotoLemma DEF Label, AllSema, LockOf
      <3>2. CASE pc[t] = "lock_release" /\ l = LockOf(t) /\ Goto(t, "lock_up", obj[t])
        BY <1>0, <3>2, GotoLemma DEF Label, AllSema, LockOf, PlaceAt
      <3>3. QED
        BY <2>1, <3>1, <3>2, Zenon
    <2>4. holder'[l] = NULL /\ \A k \in Lock : k # l => holder'[k] = holder[k]
      BY <1>0, <2>1, Zenon DEF TypeOK
    <2>5. \A u \in Thread, k \in Lock : Owns(u, k)' <=> Owns(u, k)
      BY <2>1, <2>2, <2>3, <2>4 DEF Owns, LockOf
    <2>6. MutualExclusion'
      BY <2>1, <2>5, Zenon DEF LockInv, MutualExclusion
    <2>7. ASSUME NEW u \in Thread PROVE LockAt(u)'
      <3>1. CASE u = t
        BY <2>3, <2>4, <3>1, Zenon DEF LockAt, Between
      <3>2. CASE u # t
        <4>1. LockAt(u) /\ pc'[u] = pc[u] /\ obj'[u] = obj[u] /\ LockOf(u)' = LockOf(u)
          BY <2>3, <3>2, Zenon DEF LockInv, LockOf
        <4>2. /\ pc[u] \in Between \cup {"lock_release"} => LockOf(u) # l /\ LockOf(u) \in Lock
              /\ pc[u] \in {"tid_read", "tid_write"} => l # TidLock
          BY <2>2, <3>2, <4>1, LockOfType, Zenon DEF LockAt, Owns, Between
        <4>3. QED
          BY <2>4, <4>1, <4>2, Zenon DEF LockAt, Between
      <3>3. QED
        BY <3>1, <3>2, Zenon
    <2>8. QED
      BY <2>1, <2>6, <2>7, Zenon DEF LockInv
  <1>5. CASE LockUp(t)
    <2> DEFINE l == LockOf(t)
    <2>1. /\ pc[t] = "lock_up" /\ value' = [value EXCEPT ![l] = @ + 1] /\ UNCHANGED holder
          /\ \E p \in {"unblock", "cond_sleep", "run"}, o \in Cond \cup {NULL} : Goto(t, p, o)
      BY <1>5, Zenon DEF LockUp, UpStep, Return
    <2>2. l \in Lock /\ holder[l] = NULL
      BY <2>1, LockOfType, Zenon DEF LockInv, LockAt, Between
    <2>3. Owns(t, l) /\ \A u \in Thread : Owns(u, l) => u = t
      BY <2>1, <2>2, Zenon DEF LockInv, MutualExclusion, Owns
    <2>4. value[l] = 0 /\ value'[l] = 1 /\ \A k \in Lock : k # l => value'[k] = value[k]
      <3>1. value[l] = 0
        BY <2>2, <2>3, Zenon DEF LockInv, MutualExclusion
      <3>2. value \in [AllSema -> Nat] /\ Lock \subseteq AllSema
        BY <1>0, Zenon DEF TypeOK, AllSema
      <3>3. QED
        BY <2>1, <2>2, <3>1, <3>2
    <2>5. /\ pc'[t] \in {"unblock", "cond_sleep", "run"}
          /\ \A u \in Thread : u # t => pc'[u] = pc[u] /\ obj'[u] = obj[u]
      <3>1. PICK p \in {"unblock", "cond_sleep", "run"}, o \in Cond \cup {NULL} : Goto(t, p, o)
        BY <2>1, Zenon
      <3>2. p \in Label /\ o \in AllSema \cup Cond \cup {NULL}
        BY Zenon DEF Label
      <3>3. QED
        BY <1>0, <3>1, <3>2, GotoLemma, Zenon
    <2>6. \A u \in Thread, k \in Lock : Owns(u, k)' <=> Owns(u, k) /\ ~ (u = t /\ k = l)
      BY <2>1, <2>2, <2>5, Zenon DEF Owns, LockOf
    <2>7. MutualExclusion'
      BY <2>3, <2>4, <2>6 DEF LockInv, MutualExclusion
    <2>8. \A u \in Thread : LockAt(u)'
      BY <2>1, <2>5 DEF LockInv, LockAt, LockOf, Between
    <2>9. QED
      BY <2>4, <2>7, <2>8, Zenon DEF LockInv
  <1>6. QED
    BY <1>1, <1>2, <1>3, <1>4, <1>5, Zenon DEF LockStep

LEMMA SemaStepLockInv ==
  ASSUME IInv, LockInv, NEW t \in Thread, SemaStep(t)
  PROVE  LockInv'
  <1> USE ThreadsAssumption, ObjectsAreDistinct DEF Between, LockAt
  <1>0. TypeOK
    BY Zenon DEF IInv
  <1>1. ASSUME NEW s \in Sema \cup {IdleStarted}, SemaDown(t, s) PROVE LockInv'
    <2>1. /\ pc[t] \in {"run", "sema_down"} /\ UNCHANGED holder
          /\ DownStep(t, s, s, "sema_down", "run")
      BY <1>1, Zenon DEF SemaDown
    <2>2. /\ pc'[t] \in {"run", "sema_down"}
          /\ \A u \in Thread : u # t => pc'[u] = pc[u] /\ obj'[u] = obj[u]
      BY <1>0, <2>1, Zenon DEF DownStep, Goto, TypeOK
    <2>3. \A l \in Lock : value'[l] = value[l]
      <3>1. value \in [AllSema -> Nat] /\ Lock \subseteq AllSema
        BY <1>0, Zenon DEF TypeOK, AllSema
      <3>2. value' = value \/ \E v : value' = [value EXCEPT ![s] = v]
        BY <2>1, Zenon DEF DownStep
      <3>3. s \notin Lock
        BY Zenon
      <3>4. QED
        BY <3>1, <3>2, <3>3, Zenon
    <2>4. QED
      BY <2>1, <2>2, <2>3, LockFrame, Zenon
  <1>2. ASSUME NEW s \in Sema, SemaTryDown(t, s) \/ SemaUp(t, s) PROVE LockInv'
    <2>1. UNCHANGED <<holder, pc, obj>> /\ \E v : value' = [value EXCEPT ![s] = v]
      BY <1>2, Zenon DEF SemaTryDown, SemaUp, UpStep, place
    <2>2. \A l \in Lock : value'[l] = value[l]
      BY <1>0, <2>1 DEF TypeOK, AllSema
    <2>3. QED
      BY <2>1, <2>2, LockFrame, Zenon
  <1>3. QED
    BY <1>1, <1>2, Zenon DEF SemaStep

LEMMA CondStepLockInv ==
  ASSUME IInv, LockInv, NEW t \in Thread, CondStep(t)
  PROVE  LockInv'
  <1> USE ThreadsAssumption, ObjectsAreDistinct DEF Between, LockAt
  <1>0. TypeOK /\ PlaceAt(t)
    BY Zenon DEF IInv, PlaceInv
  <1>1. ASSUME NEW c \in Cond, CondWait(t, c) PROVE LockInv'
    <2>1. /\ pc[t] = "run" /\ holder[CondLock[c]] = t /\ UNCHANGED holder
          /\ value' = [value EXCEPT ![t] = 0] /\ Goto(t, "lock_release", c)
      BY <1>1, Zenon DEF CondWait
    <2>2. /\ pc'[t] = "lock_release" /\ obj'[t] = c
          /\ \A u \in Thread : u # t => pc'[u] = pc[u] /\ obj'[u] = obj[u]
      BY <1>0, <2>1, Zenon DEF Goto, TypeOK
    <2>3. LockOf(t)' = CondLock[c]
      BY <2>2, Zenon DEF LockOf
    <2>4. \A l \in Lock : value'[l] = value[l]
      BY <1>0, <2>1 DEF TypeOK, AllSema
    <2>5. QED
      BY <2>1, <2>2, <2>3, <2>4, LockFrame
  <1>2. ASSUME NEW c \in Cond, CondSignal(t, c) \/ CondBroadcast(t, c) PROVE LockInv'
    <2>1. /\ pc[t] \in {"run", "broadcast"} /\ UNCHANGED <<holder, value>>
          /\ \E p \in {"signal_up", "broadcast_up", "run"}, o \in Cond \cup {NULL} : Goto(t, p, o)
      BY <1>2, Zenon DEF CondSignal, CondBroadcast, PopWaiter, Return
    <2>2. /\ pc'[t] \in {"signal_up", "broadcast_up", "run"}
          /\ \A u \in Thread : u # t => pc'[u] = pc[u] /\ obj'[u] = obj[u]
      BY <1>0, <2>1, Zenon DEF Goto, TypeOK
    <2>3. QED
      BY <2>1, <2>2, LockFrame, Zenon
  <1>3. CASE CondSleep(t)
    <2>1. /\ pc[t] = "cond_sleep" /\ UNCHANGED holder
          /\ DownStep(t, t, obj[t], "cond_sleep", "lock_down")
      BY <1>3, Zenon DEF CondSleep
    <2>2. /\ pc'[t] \in {"cond_sleep", "lock_down"}
          /\ \A u \in Thread : u # t => pc'[u] = pc[u] /\ obj'[u] = obj[u]
      BY <1>0, <2>1, Zenon DEF DownStep, Goto, TypeOK
    <2>3. \A l \in Lock : value'[l] = value[l]
      <3>1. value \in [AllSema -> Nat] /\ Lock \subseteq AllSema
        BY <1>0, Zenon DEF TypeOK, AllSema
      <3>2. value' = value \/ \E v : value' = [value EXCEPT ![t] = v]
        BY <2>1, Zenon DEF DownStep
      <3>3. t \notin Lock
        BY Zenon
      <3>4. QED
        BY <3>1, <3>2, <3>3, Zenon
    <2>4. QED
      BY <2>1, <2>2, <2>3, LockFrame, Zenon
  <1>4. CASE SignalUp(t)
    <2>1. /\ pc[t] \in {"signal_up", "broadcast_up"} /\ UNCHANGED holder
          /\ value' = [value EXCEPT ![peer[t]] = @ + 1]
          /\ \E p \in {"run", "broadcast"} : \E o : Goto(t, p, o)
      BY <1>4, Zenon DEF SignalUp, UpStep, Return
    <2>2. peer[t] \in Thread
      BY <1>0, <2>1, Zenon DEF PlaceAt
    <2>3. /\ pc'[t] \in {"run", "broadcast"}
          /\ \A u \in Thread : u # t => pc'[u] = pc[u] /\ obj'[u] = obj[u]
      BY <1>0, <2>1, Zenon DEF Goto, TypeOK
    <2>4. \A l \in Lock : value'[l] = value[l]
      BY <1>0, <2>1, <2>2 DEF TypeOK, AllSema
    <2>5. QED
      BY <2>1, <2>3, <2>4, LockFrame, Zenon
  <1>5. QED
    BY <1>1, <1>2, <1>3, <1>4, Zenon DEF CondStep

LEMMA ThreadStepLockInv ==
  ASSUME IInv, LockInv, NEW t \in Thread, ThreadStep(t)
  PROVE  LockInv'
  <1> USE ThreadsAssumption, ObjectsAreDistinct DEF Between, LockAt, Running
  <1>0. TypeOK /\ PlaceAt(t) /\ LockAt(t) /\ FreeInv
    BY Zenon DEF IInv, PlaceInv, LockInv
  <1>1. ASSUME NEW u \in Thread, ThreadCreate(t, u) \/ ThreadStart(t, u) PROVE LockInv'
    <2>1. pc[t] \in {"run", "boot"} /\ pc[u] = "free" /\ UNCHANGED <<holder, value>>
      BY <1>0, <1>1, Zenon DEF ThreadCreate, ThreadStart, FreePage, FreeInv
    <2>2. /\ pc'[t] \in {"lock_down", "sema_down"} /\ pc'[u] \in {"run", "idle_init"}
          /\ \A x \in Thread : x \notin {t, u} => pc'[x] = pc[x] /\ obj'[x] = obj[x]
      BY <1>0, <1>1, <2>1 DEF ThreadCreate, ThreadStart, TypeOK
    <2>3. \A x \in Thread : x \in {t, u} => pc[x] \notin Between /\ pc'[x] \notin Between /\ LockAt(x)'
      BY <2>1, <2>2, Zenon
    <2>4. QED
      BY <2>1, <2>2, <2>3, LockFrame, Zenon
  <1>2. CASE TidRead(t) \/ TidWrite(t)
    <2>1. /\ pc[t] \in {"tid_read", "tid_write"} /\ UNCHANGED <<holder, value>>
          /\ Goto(t, "tid_write", TidLock) \/ Goto(t, "lock_release", TidLock)
      BY <1>2, Zenon DEF TidRead, TidWrite
    <2>2. /\ pc'[t] \in {"tid_write", "lock_release"} /\ obj'[t] = TidLock
          /\ \A x \in Thread : x # t => pc'[x] = pc[x] /\ obj'[x] = obj[x]
      BY <1>0, <2>1, Zenon DEF Goto, TypeOK
    <2>3. holder'[TidLock] = t /\ LockOf(t)' = TidLock
      BY <1>0, <2>1, <2>2, Zenon DEF LockOf
    <2>4. QED
      BY <2>1, <2>2, <2>3, LockFrame, Zenon
  <1>3. CASE UnblockChild(t) \/ ThreadExit(t) \/ IdleInit(t) \/ IdleBlock(t) \/ IdleUp(t)
    <2>1. /\ pc[t] \in {"unblock", "run", "idle_init", "idle_block", "idle_up"} /\ UNCHANGED holder
          /\ \E p \in {"run", "free", "idle_up", "idle_block", "idle_hlt"} : Goto(t, p, NULL)
      BY <1>3, Zenon DEF UnblockChild, ThreadExit, IdleInit, IdleBlock, IdleUp, Return
    <2>2. /\ pc'[t] \in {"run", "free", "idle_up", "idle_block", "idle_hlt"}
          /\ \A x \in Thread : x # t => pc'[x] = pc[x] /\ obj'[x] = obj[x]
      BY <1>0, <2>1, Zenon DEF Goto, TypeOK
    <2>3. \A l \in Lock : value'[l] = value[l]
      BY <1>0, <1>3, Zenon DEF UnblockChild, ThreadExit, IdleInit, IdleBlock, IdleUp, UpStep, TypeOK, AllSema
    <2>4. QED
      BY <2>1, <2>2, <2>3, LockFrame, Zenon
  <1>4. CASE ThreadYield(t)
    <2>1. UNCHANGED <<holder, value, pc, obj>>
      BY <1>4, Zenon DEF ThreadYield, place
    <2>2. QED
      BY <2>1, LockFrame, Zenon
  <1>5. QED
    BY <1>1, <1>2, <1>3, <1>4, Zenon DEF ThreadStep

LEMMA InterruptLockInv == ASSUME IInv, LockInv, Interrupt PROVE LockInv'
  <1> USE ThreadsAssumption, ObjectsAreDistinct DEF Between, LockAt
  <1>1. TypeOK
    BY Zenon DEF IInv
  <1>2. EndHlt /\ UNCHANGED <<holder, obj>>
    BY Zenon DEF Interrupt, TimerInterrupt, DeviceInterrupt
  <1>3. \A u \in Thread : \/ pc'[u] = pc[u] /\ obj'[u] = obj[u]
                          \/ pc[u] = "idle_hlt" /\ pc'[u] = "idle_block"
    BY <1>1, <1>2, Zenon DEF EndHlt, TypeOK
  <1>4. \A l \in Lock : value'[l] = value[l]
    BY <1>1 DEF Interrupt, TimerInterrupt, DeviceInterrupt, UpStep, TypeOK, AllSema
  <1>5. QED
    BY <1>2, <1>3, <1>4, LockFrame, Zenon

LEMMA NextLockInv == IInv /\ LockInv /\ [Next]_vars => LockInv'
  <1> SUFFICES ASSUME IInv, LockInv, [Next]_vars PROVE LockInv'
    BY Zenon
  <1>1. ASSUME NEW t \in Thread, Step(t) PROVE LockInv'
    BY <1>1, SemaStepLockInv, LockStepLockInv, CondStepLockInv, ThreadStepLockInv, Zenon DEF Step
  <1>2. CASE UNCHANGED vars
    BY <1>2, LockFrame, Zenon DEF vars, place
  <1>3. QED
    BY <1>1, <1>2, InterruptLockInv, Zenon DEF Next

(* A lock has at most one owner, from the sema_down of lock_acquire to the   *)
(* sema_up of lock_release, and its semaphore is 1 exactly when it has none. *)
THEOREM MutualExclusionHolds == Spec => []MutualExclusion
  <1>1. LockInv => MutualExclusion
    BY Zenon DEF LockInv
  <1>2. QED
    BY <1>1, InitLockInv, NextLockInv, Invariance, PTL DEF Spec
-----------------------------------------------------------------------------
(* Condition variables. *)

(* The labels of cond_signal and cond_broadcast with a waiter in hand, and   *)
(* the ones of cond_wait up to the end of its sleep.                         *)
SigLabel == {"signal_up", "broadcast_up"}
CondLabel == {"lock_release", "lock_up", "cond_sleep"}

Takes(u, t, c) == pc[u] \in SigLabel /\ obj[u] = c /\ peer[u] = t
InCond(t, c) == pc[t] \in CondLabel /\ obj[t] = c
Pending(t, c) == In(t, cond_waiters[c]) \/ \E u \in Thread : Takes(u, t, c)

(* A thread is on a condition's list, or in the hands of one signaller, only *)
(* while it is inside cond_wait, and its own semaphore counts whether it has *)
(* been signalled since.                                                     *)
SigInv ==
  \A t \in Thread, c \in Cond :
    /\ NoDuplicates(cond_waiters[c])
    /\ Pending(t, c) => InCond(t, c)
    /\ \A u \in Thread : Takes(u, t, c) =>
         ~ In(t, cond_waiters[c]) /\ \A v \in Thread : Takes(v, t, c) => v = u
    /\ InCond(t, c) => value[t] = IF Pending(t, c) THEN 0 ELSE 1

LEMMA InitSigInv == Init => SigInv
  <1> SUFFICES ASSUME Init PROVE SigInv
    BY Zenon
  <1>1. \A t \in Thread : pc[t] \notin SigLabel \cup CondLabel
    BY Zenon DEF Init, SigLabel, CondLabel
  <1>2. \A c \in Cond : cond_waiters[c] = <<>>
    BY Zenon DEF Init
  <1>3. QED
    BY <1>1, <1>2, EmptyList, Zenon DEF SigInv, Takes, InCond, Pending

(* Thread u is neither inside cond_wait's sleep nor has it a waiter in hand. *)
CondQuiet(u) == pc[u] \notin SigLabel /\ (pc[u] \in CondLabel => obj[u] \notin Cond)

(* A step that leaves the conditions' lists and the waiters' semaphores      *)
(* alone, and moves threads only outside cond_wait and cond_signal, or       *)
(* forward through cond_wait.                                                *)
CondFrame ==
  /\ UNCHANGED cond_waiters
  /\ \A u \in Thread : value'[u] = value[u]
  /\ \A u \in Thread :
       \/ pc'[u] = pc[u] /\ obj'[u] = obj[u] /\ peer'[u] = peer[u]
       \/ CondQuiet(u) /\ CondQuiet(u)'
       \/ pc[u] \in CondLabel /\ pc'[u] \in CondLabel /\ obj'[u] = obj[u]

LEMMA SigFrame ==
  ASSUME SigInv, CondFrame
  PROVE  SigInv'
  <1>1. \A u, t \in Thread, c \in Cond : Takes(u, t, c)' <=> Takes(u, t, c)
    BY Zenon DEF CondFrame, CondQuiet, Takes, SigLabel, CondLabel
  <1>2. \A t \in Thread, c \in Cond : InCond(t, c)' <=> InCond(t, c)
    BY Zenon DEF CondFrame, CondQuiet, InCond, SigLabel, CondLabel
  <1>3. \A t \in Thread, c \in Cond : Pending(t, c)' <=> Pending(t, c)
    BY <1>1, Zenon DEF CondFrame, Pending
  <1>4. cond_waiters' = cond_waiters /\ \A u \in Thread : value'[u] = value[u]
    BY Zenon DEF CondFrame
  <1>5. QED
    BY <1>1, <1>2, <1>3, <1>4 DEF SigInv

(* A step of the current thread by Goto. *)
LEMMA GotoFrame ==
  ASSUME IInv, NEW t \in Thread, NEW l \in Label, NEW o \in AllSema \cup Cond \cup {NULL},
         Goto(t, l, o), UNCHANGED <<cond_waiters, peer>>,
         \A u \in Thread : value'[u] = value[u],
         \/ CondQuiet(t) /\ l \notin SigLabel /\ (l \in CondLabel => o \notin Cond)
         \/ pc[t] \in CondLabel /\ l \in CondLabel /\ o = obj[t]
  PROVE  CondFrame
  <1>1. /\ pc'[t] = l /\ obj'[t] = o
        /\ \A u \in Thread : u # t => pc'[u] = pc[u] /\ obj'[u] = obj[u]
    BY GotoLemma, Zenon DEF IInv
  <1>2. QED
    BY <1>1, Zenon DEF CondFrame, CondQuiet

(* Semaphores other than the waiters' own. *)
LEMMA OtherSema ==
  ASSUME IInv, NEW s \in AllSema \ Thread, UpStep(s) \/ value' = value
           \/ value' = [value EXCEPT ![s] = @ - 1]
  PROVE  \A u \in Thread : value'[u] = value[u]
  <1>1. value \in [AllSema -> Nat] /\ Thread \subseteq AllSema
    BY Zenon DEF IInv, TypeOK, AllSema
  <1>2. QED
    BY <1>1, Zenon DEF UpStep

LEMMA SemaStepFrame ==
  ASSUME IInv, NEW t \in Thread, SemaStep(t)
  PROVE  CondFrame
  <1> USE ObjectsAreDistinct
  <1>0. Sema \cup {IdleStarted} \subseteq AllSema \ Thread
    BY Zenon DEF AllSema
  <1>1. ASSUME NEW s \in Sema \cup {IdleStarted}, SemaDown(t, s) PROVE CondFrame
    <2>1. /\ pc[t] \in {"run", "sema_down"}
          /\ UNCHANGED <<cond_waiters, peer>>
          /\ value' = value \/ value' = [value EXCEPT ![s] = @ - 1]
      BY <1>1, Zenon DEF SemaDown, DownStep
    <2>2. \A u \in Thread : value'[u] = value[u]
      BY <1>0, <2>1, OtherSema, Zenon
    <2>3. CondQuiet(t)
      BY <2>1, Zenon DEF CondQuiet, SigLabel, CondLabel
    <2>4. Goto(t, "sema_down", s) \/ Goto(t, "run", NULL)
      BY <1>1, Zenon DEF SemaDown, DownStep
    <2>5. QED
      BY <1>0, <2>1, <2>2, <2>3, <2>4, GotoFrame, Zenon DEF Label, SigLabel, CondLabel
  <1>2. ASSUME NEW s \in Sema, SemaTryDown(t, s) \/ SemaUp(t, s) PROVE CondFrame
    <2>1. /\ UNCHANGED <<pc, obj, peer, cond_waiters>>
          /\ UpStep(s) \/ value' = [value EXCEPT ![s] = @ - 1]
      BY <1>2, Zenon DEF SemaTryDown, SemaUp, place
    <2>2. \A u \in Thread : value'[u] = value[u]
      BY <1>0, <2>1, OtherSema, Zenon
    <2>3. QED
      BY <2>1, <2>2, Zenon DEF CondFrame
  <1>3. QED
    BY <1>1, <1>2, Zenon DEF SemaStep

LEMMA LockStepFrame ==
  ASSUME IInv, NEW t \in Thread, LockStep(t)
  PROVE  CondFrame
  <1> USE ThreadsAssumption, ObjectsAreDistinct
  <1>0. Lock \subseteq AllSema \ Thread /\ PlaceAt(t) /\ TypeOK
    BY Zenon DEF AllSema, IInv, PlaceInv
  <1>1. ASSUME NEW l \in Lock, LockDown(t, l) PROVE CondFrame
    <2>1. /\ pc[t] \in {"run", "lock_down"}
          /\ UNCHANGED <<cond_waiters, peer>>
          /\ value' = value \/ value' = [value EXCEPT ![l] = @ - 1]
      BY <1>1, Zenon DEF LockDown, DownStep
    <2>2. \A u \in Thread : value'[u] = value[u]
      BY <1>0, <2>1, OtherSema, Zenon
    <2>3. CondQuiet(t)
      BY <2>1, Zenon DEF CondQuiet, SigLabel, CondLabel
    <2>4. PICK k \in {"lock_down", "lock_set"}, o \in AllSema \cup Cond : Goto(t, k, o)
      BY <1>0, <1>1, Zenon DEF LockDown, DownStep, PlaceAt
    <2>5. QED
      BY <2>1, <2>2, <2>3, <2>4, GotoFrame DEF Label, SigLabel, CondLabel
  <1>2. ASSUME NEW l \in Lock, LockTryAcquire(t, l) PROVE CondFrame
    <2>1. /\ pc[t] = "run" /\ Goto(t, "lock_set", l)
          /\ UNCHANGED <<cond_waiters, peer>>
          /\ value' = [value EXCEPT ![l] = @ - 1]
      BY <1>2, Zenon DEF LockTryAcquire
    <2>2. \A u \in Thread : value'[u] = value[u]
      BY <1>0, <2>1, OtherSema, Zenon
    <2>3. CondQuiet(t) /\ l \in AllSema
      BY <1>0, <2>1, Zenon DEF CondQuiet, SigLabel, CondLabel
    <2>4. QED
      BY <2>1, <2>2, <2>3, GotoFrame, Zenon DEF Label, SigLabel, CondLabel
  <1>3. CASE LockSetHolder(t)
    <2>1. /\ pc[t] = "lock_set" /\ UNCHANGED <<cond_waiters, peer, value>>
          /\ Goto(t, "tid_read", TidLock) \/ Goto(t, "run", NULL)
      BY <1>3, Zenon DEF LockSetHolder, Return
    <2>2. CondQuiet(t) /\ TidLock \in AllSema
      BY <1>0, <2>1, Zenon DEF CondQuiet, SigLabel, CondLabel
    <2>3. QED
      BY <2>1, <2>2, GotoFrame, Zenon DEF Label, SigLabel, CondLabel
  <1>4. ASSUME NEW l \in Lock, LockRelease(t, l) PROVE CondFrame
    <2>1. UNCHANGED <<cond_waiters, peer, value>>
      BY <1>4, Zenon DEF LockRelease
    <2>2. CASE pc[t] = "run" /\ Goto(t, "lock_up", l)
      <3>1. CondQuiet(t) /\ l \in AllSema /\ l \notin Cond
        BY <1>0, <2>2, Zenon DEF CondQuiet, SigLabel, CondLabel
      <3>2. QED
        BY <2>1, <2>2, <3>1, GotoFrame, Zenon DEF Label, SigLabel, CondLabel
    <2>3. CASE pc[t] = "lock_release" /\ Goto(t, "lock_up", obj[t])
      <3>1. obj[t] \in AllSema \cup Cond
        BY <1>0, <2>3, Zenon DEF PlaceAt
      <3>2. QED
        BY <2>1, <2>3, <3>1, GotoFrame, Zenon DEF Label, CondLabel
    <2>4. QED
      BY <1>4, <2>2, <2>3, Zenon DEF LockRelease
  <1>5. CASE LockUp(t)
    <2>1. /\ pc[t] = "lock_up" /\ UpStep(LockOf(t)) /\ UNCHANGED <<cond_waiters, peer>>
      BY <1>5, Zenon DEF LockUp
    <2>2. \A u \in Thread : value'[u] = value[u]
      BY <1>0, <2>1, LockOfType, OtherSema, Zenon
    <2>3. CASE obj[t] \in Cond /\ Goto(t, "cond_sleep", obj[t])
      BY <2>1, <2>2, <2>3, GotoFrame, Zenon DEF Label, CondLabel
    <2>4. CASE obj[t] \in Lock /\ (Goto(t, "unblock", NULL) \/ Goto(t, "run", NULL))
      <3>1. CondQuiet(t)
        BY <2>1, <2>4, Zenon DEF CondQuiet, SigLabel
      <3>2. QED
        BY <2>1, <2>2, <2>4, <3>1, GotoFrame, Zenon DEF Label, SigLabel, CondLabel
    <2>5. QED
      BY <1>5, <2>3, <2>4, Zenon DEF LockUp, Return
  <1>6. QED
    BY <1>1, <1>2, <1>3, <1>4, <1>5, Zenon DEF LockStep

LEMMA ThreadStepFrame ==
  ASSUME IInv, NEW t \in Thread, ThreadStep(t)
  PROVE  CondFrame
  <1> USE ThreadsAssumption, ObjectsAreDistinct
  <1>0. TypeOK /\ FreeInv /\ IdleStarted \in AllSema \ Thread /\ TidLock \in AllSema
    BY Zenon DEF IInv, AllSema
  <1>1. ASSUME NEW u \in Thread, ThreadCreate(t, u) \/ ThreadStart(t, u) PROVE CondFrame
    <2>1. /\ pc[t] \in {"run", "boot"} /\ pc[u] = "free"
          /\ UNCHANGED <<value, cond_waiters>>
          /\ pc'[t] \in {"lock_down", "sema_down", "run", "idle_init"}
          /\ pc'[u] \in {"run", "idle_init"}
          /\ \A x \in Thread : x \notin {t, u} =>
               pc'[x] = pc[x] /\ obj'[x] = obj[x] /\ peer'[x] = peer[x]
      BY <1>0, <1>1 DEF ThreadCreate, ThreadStart, FreePage, FreeInv, TypeOK
    <2>2. \A x \in {t, u} : CondQuiet(x) /\ CondQuiet(x)'
      BY <2>1, Zenon DEF CondQuiet, SigLabel, CondLabel
    <2>3. QED
      BY <2>1, <2>2, Zenon DEF CondFrame
  <1>2. ASSUME NEW l \in Label, NEW o \in AllSema \cup {NULL}, Goto(t, l, o),
               CondQuiet(t), l \notin SigLabel, UNCHANGED <<value, cond_waiters, peer>>
        PROVE  CondFrame
    <2>1. o \notin Cond
      BY <1>2, Zenon DEF AllSema
    <2>2. QED
      BY <1>2, <2>1, GotoFrame, Zenon
  <1>3. CASE TidRead(t)
    BY <1>0, <1>2, <1>3, Zenon DEF TidRead, Label, CondQuiet, SigLabel, CondLabel
  <1>4. CASE TidWrite(t)
    BY <1>0, <1>2, <1>4, Zenon DEF TidWrite, Label, CondQuiet, SigLabel, CondLabel
  <1>5. CASE UnblockChild(t)
    <2>1. /\ pc[t] = "unblock" /\ pc'[t] = "run" /\ UNCHANGED <<value, cond_waiters>>
          /\ \A x \in Thread : x # t => pc'[x] = pc[x] /\ obj'[x] = obj[x] /\ peer'[x] = peer[x]
      BY <1>0, <1>5, Zenon DEF UnblockChild, Return, Goto, TypeOK
    <2>2. CondQuiet(t) /\ CondQuiet(t)'
      BY <2>1, Zenon DEF CondQuiet, SigLabel, CondLabel
    <2>3. QED
      BY <2>1, <2>2, Zenon DEF CondFrame
  <1>6. CASE ThreadExit(t)
    BY <1>2, <1>6, Zenon DEF ThreadExit, Return, Label, CondQuiet, SigLabel, CondLabel
  <1>7. CASE ThreadYield(t)
    BY <1>7, Zenon DEF ThreadYield, CondFrame, place
  <1>8. CASE IdleInit(t)
    BY <1>2, <1>8, Zenon DEF IdleInit, Return, Label, CondQuiet, SigLabel, CondLabel
  <1>9. CASE IdleUp(t)
    <2>1. /\ pc[t] = "idle_up" /\ pc'[t] = "idle_block" /\ UpStep(IdleStarted)
          /\ UNCHANGED <<cond_waiters, peer>>
          /\ \A x \in Thread : x # t => pc'[x] = pc[x] /\ obj'[x] = obj[x]
      BY <1>0, <1>9, Zenon DEF IdleUp, Return, Goto, TypeOK
    <2>2. \A u \in Thread : value'[u] = value[u]
      BY <1>0, <2>1, OtherSema, Zenon
    <2>3. CondQuiet(t) /\ CondQuiet(t)'
      BY <2>1, Zenon DEF CondQuiet, SigLabel, CondLabel
    <2>4. QED
      BY <2>1, <2>2, <2>3, Zenon DEF CondFrame
  <1>10. CASE IdleBlock(t)
    BY <1>2, <1>10, Zenon DEF IdleBlock, Return, Label, CondQuiet, SigLabel, CondLabel
  <1>11. QED
    BY <1>1, <1>3, <1>4, <1>5, <1>6, <1>7, <1>8, <1>9, <1>10, Zenon DEF ThreadStep

LEMMA InterruptFrame ==
  ASSUME IInv, Interrupt
  PROVE  CondFrame
  <1>0. TypeOK
    BY Zenon DEF IInv
  <1>1. EndHlt /\ UNCHANGED <<cond_waiters, obj, peer>>
    BY Zenon DEF Interrupt, TimerInterrupt, DeviceInterrupt
  <1>2. \A u \in Thread : pc'[u] = pc[u] \/ (pc[u] = "idle_hlt" /\ pc'[u] = "idle_block")
    BY <1>0, <1>1, Zenon DEF EndHlt, TypeOK
  <1>3. \A u \in Thread : pc'[u] = pc[u] \/ (CondQuiet(u) /\ CondQuiet(u)')
    BY <1>2, Zenon DEF CondQuiet, SigLabel, CondLabel
  <1>4. \A u \in Thread : value'[u] = value[u]
    <2>1. CASE TimerInterrupt
      BY <2>1, Zenon DEF TimerInterrupt
    <2>2. ASSUME NEW s \in IrqSema, DeviceInterrupt(s) PROVE \A u \in Thread : value'[u] = value[u]
      <3>1. s \in AllSema \ Thread /\ UpStep(s)
        BY <2>2, ThreadsAssumption, ObjectsAreDistinct, Zenon DEF DeviceInterrupt, AllSema
      <3>2. QED
        BY <3>1, OtherSema, Zenon
    <2>3. QED
      BY <2>1, <2>2, Zenon DEF Interrupt
  <1>5. QED
    BY <1>1, <1>3, <1>4, Zenon DEF CondFrame
-----------------------------------------------------------------------------
(* The operations on condition variables. *)

(* cond_wait joins the list with a new semaphore. *)
LEMMA CondWaitSigInv ==
  ASSUME IInv, SigInv, NEW t \in Thread, NEW c \in Cond, CondWait(t, c)
  PROVE  SigInv'
  <1>0. /\ TypeOK /\ cond_waiters \in [Cond -> Seq(Thread)] /\ value \in [AllSema -> Nat]
        /\ Thread \subseteq AllSema
    BY Zenon DEF IInv, TypeOK, AllSema
  <1>1. /\ pc[t] = "run" /\ value' = [value EXCEPT ![t] = 0] /\ Goto(t, "lock_release", c)
        /\ cond_waiters' = [cond_waiters EXCEPT ![c] = Append(@, t)] /\ UNCHANGED peer
    BY Zenon DEF CondWait
  <1>2. /\ pc'[t] = "lock_release" /\ obj'[t] = c
        /\ \A u \in Thread : u # t => pc'[u] = pc[u] /\ obj'[u] = obj[u]
    BY <1>0, <1>1, Zenon DEF Goto, TypeOK
  <1>3. \A x \in Cond : ~ InCond(t, x) /\ ~ Pending(t, x)
    BY <1>1, Zenon DEF SigInv, InCond, CondLabel
  <1>4. \A u, x \in Thread, d \in Cond : Takes(u, x, d)' <=> Takes(u, x, d)
    BY <1>1, <1>2, Zenon DEF Takes, SigLabel
  <1>5. \A x \in Thread, d \in Cond : InCond(x, d)' <=> InCond(x, d) \/ (x = t /\ d = c)
    BY <1>2, <1>3, Zenon DEF InCond, CondLabel
  <1>6. \A d \in Cond : cond_waiters'[d] = IF d = c THEN Append(cond_waiters[c], t) ELSE cond_waiters[d]
    BY <1>0, <1>1, Zenon
  <1>7. \A x \in Thread, d \in Cond :
          In(x, cond_waiters'[d]) <=> In(x, cond_waiters[d]) \/ (x = t /\ d = c)
    BY <1>0, <1>6, InAppend
  <1>8. \A x \in Thread, d \in Cond : Pending(x, d)' <=> Pending(x, d) \/ (x = t /\ d = c)
    BY <1>4, <1>7, Zenon DEF Pending
  <1>9. \A d \in Cond : NoDuplicates(cond_waiters'[d])
    <2>1. NoDuplicates(Append(cond_waiters[c], t))
      BY <1>0, <1>3, NoDuplicatesAppend, Zenon DEF SigInv, Pending
    <2>2. QED
      BY <1>6, <2>1, Zenon DEF SigInv
  <1>10. \A x \in Thread : value'[x] = IF x = t THEN 0 ELSE value[x]
    BY <1>0, <1>1, Zenon
  <1>11. ASSUME NEW x \in Thread, NEW d \in Cond, NEW u \in Thread, Takes(u, x, d)
         PROVE  x # t /\ ~ In(x, cond_waiters'[d]) /\ \A v \in Thread : Takes(v, x, d) => v = u
    BY <1>3, <1>7, <1>11 DEF SigInv, Pending
  <1>12. ASSUME NEW x \in Thread, NEW d \in Cond, InCond(x, d)'
         PROVE  value'[x] = IF Pending(x, d)' THEN 0 ELSE 1
    <2>1. CASE x = t
      BY <1>2, <1>8, <1>10, <1>12, <2>1, Zenon DEF InCond
    <2>2. CASE x # t
      BY <1>5, <1>8, <1>10, <1>12, <2>2, Zenon DEF SigInv
    <2>3. QED
      BY <2>1, <2>2, Zenon
  <1>13. QED
    BY <1>4, <1>5, <1>8, <1>9, <1>11, <1>12 DEF SigInv

(* cond_signal and cond_broadcast take the first waiter off the list. *)
LEMMA PopWaiterSigInv ==
  ASSUME IInv, SigInv, NEW t \in Thread, NEW c \in Cond, NEW l \in SigLabel,
         pc[t] \in {"run", "broadcast"}, PopWaiter(t, c, l), UNCHANGED value
  PROVE  SigInv'
  <1> DEFINE h == Head(cond_waiters[c])
  <1>0. TypeOK /\ cond_waiters \in [Cond -> Seq(Thread)] /\ cond_waiters[c] # <<>>
    BY Zenon DEF IInv, TypeOK, PopWaiter
  <1>1. /\ h \in Thread /\ Tail(cond_waiters[c]) \in Seq(Thread)
        /\ \A x : In(x, cond_waiters[c]) <=> x = h \/ In(x, Tail(cond_waiters[c]))
        /\ NoDuplicates(cond_waiters[c]) =>
             NoDuplicates(Tail(cond_waiters[c])) /\ ~ In(h, Tail(cond_waiters[c]))
    BY <1>0, PopFront, Zenon
  <1>2. /\ pc'[t] = l /\ obj'[t] = c /\ peer'[t] = h
        /\ \A u \in Thread : u # t => pc'[u] = pc[u] /\ obj'[u] = obj[u] /\ peer'[u] = peer[u]
    BY <1>0, Zenon DEF PopWaiter, Goto, TypeOK
  <1>3. \A d \in Cond : cond_waiters'[d] = IF d = c THEN Tail(cond_waiters[c]) ELSE cond_waiters[d]
    BY <1>0, Zenon DEF PopWaiter
  <1> HIDE DEF h
  <1>4. \A x \in Thread, d \in Cond : ~ Takes(t, x, d) /\ ~ InCond(t, d) /\ ~ InCond(t, d)'
    BY <1>2, Zenon DEF Takes, InCond, SigLabel, CondLabel
  <1>5. \A u, x \in Thread, d \in Cond :
          Takes(u, x, d)' <=> Takes(u, x, d) \/ (u = t /\ x = h /\ d = c)
    BY <1>1, <1>2, <1>4, Zenon DEF Takes
  <1>6. \A x \in Thread, d \in Cond : InCond(x, d)' <=> InCond(x, d)
    BY <1>2, <1>4, Zenon DEF InCond
  <1>7. \A x \in Thread, d \in Cond : In(x, cond_waiters'[d]) <=> In(x, cond_waiters[d]) /\ ~ (x = h /\ d = c)
    BY <1>1, <1>3 DEF SigInv
  <1>8. \A x \in Thread, d \in Cond : Pending(x, d)' <=> Pending(x, d)
    BY <1>1, <1>5, <1>7, Zenon DEF Pending
  <1>9. \A d \in Cond : NoDuplicates(cond_waiters'[d])
    BY <1>1, <1>3, Zenon DEF SigInv
  <1>10. \A u \in Thread : ~ Takes(u, h, c)
    BY <1>1, Zenon DEF SigInv
  <1>11. ASSUME NEW x \in Thread, NEW d \in Cond, NEW u \in Thread, Takes(u, x, d)'
         PROVE  ~ In(x, cond_waiters'[d]) /\ \A v \in Thread : Takes(v, x, d)' => v = u
    <2>1. CASE x = h /\ d = c
      BY <1>5, <1>7, <1>10, <1>11, <2>1, Zenon
    <2>2. CASE ~ (x = h /\ d = c)
      BY <1>5, <1>7, <1>11, <2>2 DEF SigInv
    <2>3. QED
      BY <2>1, <2>2, Zenon
  <1>12. \A x \in Thread : value'[x] = value[x]
    BY Zenon
  <1>13. QED
    BY <1>6, <1>8, <1>9, <1>11, <1>12, Zenon DEF SigInv

(* cond_wait's sleep ends only when the waiter has been signalled. *)
LEMMA CondSleepSigInv ==
  ASSUME IInv, SigInv, NEW t \in Thread, CondSleep(t)
  PROVE  SigInv'
  <1>0. /\ TypeOK /\ PlaceAt(t) /\ value \in [AllSema -> Nat] /\ Thread \subseteq AllSema
    BY Zenon DEF IInv, TypeOK, PlaceInv, AllSema
  <1>1. /\ pc[t] = "cond_sleep" /\ obj[t] \in Cond
        /\ UNCHANGED <<cond_waiters, peer>>
        /\ DownStep(t, t, obj[t], "cond_sleep", "lock_down")
    BY <1>0, Zenon DEF CondSleep, PlaceAt
  <1>2. CASE Goto(t, "cond_sleep", obj[t]) /\ UNCHANGED value
    <2>1. CondFrame
      BY <1>1, <1>2, GotoFrame, Zenon DEF Label, CondLabel
    <2>2. QED
      BY <2>1, SigFrame, Zenon
  <1>3. CASE value[t] > 0 /\ value' = [value EXCEPT ![t] = @ - 1] /\ Goto(t, "lock_down", obj[t])
    <2>1. /\ pc'[t] = "lock_down" /\ obj'[t] = obj[t]
          /\ \A u \in Thread : u # t => pc'[u] = pc[u] /\ obj'[u] = obj[u]
      BY <1>0, <1>3, Zenon DEF Goto, TypeOK
    <2>2. \A u, x \in Thread, d \in Cond : Takes(u, x, d)' <=> Takes(u, x, d)
      BY <1>1, <2>1, Zenon DEF Takes, SigLabel
    <2>3. \A x \in Thread, d \in Cond : Pending(x, d)' <=> Pending(x, d)
      BY <1>1, <2>2, Zenon DEF Pending
    <2>4. InCond(t, obj[t]) /\ value[t] # 0
      BY <1>0, <1>1, <1>3 DEF InCond, CondLabel
    <2>5. \A d \in Cond : ~ Pending(t, d)
      BY <1>1, <2>4, Zenon DEF SigInv, InCond
    <2>6. \A x \in Thread, d \in Cond : InCond(x, d)' <=> InCond(x, d) /\ x # t
      BY <2>1, Zenon DEF InCond, CondLabel
    <2>7. \A x \in Thread : x # t => value'[x] = value[x]
      BY <1>0, <1>3, Zenon
    <2>8. QED
      BY <1>1, <2>2, <2>3, <2>5, <2>6, <2>7 DEF SigInv
  <1>4. QED
    BY <1>1, <1>2, <1>3, Zenon DEF DownStep

(* cond_signal ups the semaphore of the waiter it took. *)
LEMMA SignalUpSigInv ==
  ASSUME IInv, SigInv, NEW t \in Thread, SignalUp(t)
  PROVE  SigInv'
  <1>0. /\ TypeOK /\ PlaceAt(t) /\ value \in [AllSema -> Nat] /\ Thread \subseteq AllSema
    BY Zenon DEF IInv, TypeOK, PlaceInv, AllSema
  <1>p. PICK h \in Thread, c \in Cond : h = peer[t] /\ c = obj[t]
    BY <1>0, Zenon DEF SignalUp, PlaceAt
  <1>1. /\ pc[t] \in SigLabel
        /\ value' = [value EXCEPT ![h] = @ + 1] /\ UNCHANGED cond_waiters
        /\ pc'[t] \in {"run", "broadcast"}
        /\ \A u \in Thread : u # t => pc'[u] = pc[u] /\ obj'[u] = obj[u] /\ peer'[u] = peer[u]
    BY <1>0, <1>p, Zenon DEF SignalUp, UpStep, Return, Goto, TypeOK, PlaceAt, SigLabel
  <1>2. /\ \A x \in Thread, d \in Cond : ~ Takes(t, x, d)' /\ ~ InCond(t, d) /\ ~ InCond(t, d)'
        /\ Takes(t, h, c)
    BY <1>1, <1>p, Zenon DEF Takes, InCond, SigLabel, CondLabel
  <1>3. \A u, x \in Thread, d \in Cond : Takes(u, x, d)' <=> Takes(u, x, d) /\ u # t
    BY <1>1, <1>2, Zenon DEF Takes
  <1>4. \A x \in Thread, d \in Cond : InCond(x, d)' <=> InCond(x, d)
    BY <1>1, <1>2, Zenon DEF InCond
  <1>5. \A x \in Thread, d \in Cond : Takes(t, x, d) => x = h /\ d = c
    BY <1>p, Zenon DEF Takes
  <1>6. \A x \in Thread, d \in Cond : ~ (x = h /\ d = c) => (Pending(x, d)' <=> Pending(x, d))
    BY <1>1, <1>3, <1>5, Zenon DEF Pending
  <1>7. Pending(h, c) /\ ~ Pending(h, c)'
    <2>1. \A v \in Thread : Takes(v, h, c) => v = t
      BY <1>1, <1>2, Zenon DEF SigInv
    <2>2. ~ In(h, cond_waiters[c])
      BY <1>1, <1>2, Zenon DEF SigInv
    <2>3. \A v \in Thread : ~ Takes(v, h, c)'
      BY <1>1, <1>3, <2>1, Zenon
    <2>4. Pending(h, c)
      BY <1>2, Zenon DEF Pending
    <2>5. In(h, cond_waiters'[c]) <=> In(h, cond_waiters[c])
      BY <1>1, Zenon
    <2>6. ~ Pending(h, c)'
      BY <2>2, <2>3, <2>5, Zenon DEF Pending
    <2>7. QED
      BY <2>4, <2>6, Zenon
  <1>8. \A x \in Thread : value'[x] = IF x = h THEN value[h] + 1 ELSE value[x]
    BY <1>0, <1>1, Zenon
  <1>9. ASSUME NEW x \in Thread, NEW d \in Cond, InCond(x, d)'
        PROVE  value'[x] = IF Pending(x, d)' THEN 0 ELSE 1
    <2>1. CASE x # h
      BY <1>4, <1>6, <1>8, <1>9, <2>1, Zenon DEF SigInv
    <2>2. CASE x = h
      <3>1. InCond(h, c) /\ InCond(h, d)
        BY <1>4, <1>7, <1>9, <2>2, Zenon DEF SigInv
      <3>2. d = c /\ value[h] = 0
        BY <1>7, <3>1, Zenon DEF SigInv, InCond
      <3>3. QED
        BY <1>7, <1>8, <2>2, <3>2
    <2>3. QED
      BY <2>1, <2>2, Zenon
  <1>10. \A x \in Thread, d \in Cond : Pending(x, d)' => Pending(x, d)
    BY <1>1, <1>3, Zenon DEF Pending
  <1>11. ASSUME NEW x \in Thread, NEW d \in Cond, NEW u \in Thread, Takes(u, x, d)'
         PROVE  ~ In(x, cond_waiters'[d]) /\ \A v \in Thread : Takes(v, x, d)' => v = u
    <2>1. Takes(u, x, d)
      BY <1>3, <1>11, Zenon
    <2>2. ~ In(x, cond_waiters[d]) /\ \A v \in Thread : Takes(v, x, d) => v = u
      BY <2>1, Zenon DEF SigInv
    <2>3. QED
      BY <1>1, <1>3, <2>2, Zenon
  <1>12. \A x \in Thread, d \in Cond :
           NoDuplicates(cond_waiters'[d]) /\ (Pending(x, d)' => InCond(x, d)')
    BY <1>1, <1>4, <1>10, Zenon DEF SigInv
  <1>13. QED
    BY <1>9, <1>11, <1>12, Zenon DEF SigInv

LEMMA CondStepSigInv ==
  ASSUME IInv, SigInv, NEW t \in Thread, CondStep(t)
  PROVE  SigInv'
  <1>1. ASSUME NEW c \in Cond, CondSignal(t, c) \/ CondBroadcast(t, c) PROVE SigInv'
    <2>1. UNCHANGED value
      BY <1>1, Zenon DEF CondSignal, CondBroadcast
    <2>2. CASE pc[t] \in {"run", "broadcast"} /\ \E l \in SigLabel : PopWaiter(t, c, l)
      BY <2>1, <2>2, PopWaiterSigInv, Zenon
    <2>3. CASE pc[t] = "broadcast" /\ Goto(t, "run", NULL) /\ UNCHANGED <<cond_waiters, peer>>
      <3>1. CondFrame
        BY <2>1, <2>3, GotoFrame, Zenon DEF Label, CondQuiet, SigLabel, CondLabel
      <3>2. QED
        BY <3>1, SigFrame, Zenon
    <2>4. QED
      BY <1>1, <2>2, <2>3, Zenon DEF CondSignal, CondBroadcast, Return, SigLabel
  <1>2. QED
    BY <1>1, CondWaitSigInv, CondSleepSigInv, SignalUpSigInv, Zenon DEF CondStep

LEMMA NextSigInv == IInv /\ SigInv /\ [Next]_vars => SigInv'
  <1> SUFFICES ASSUME IInv, SigInv, [Next]_vars PROVE SigInv'
    BY Zenon
  <1>1. ASSUME NEW t \in Thread, Step(t) PROVE SigInv'
    BY <1>1, SemaStepFrame, LockStepFrame, ThreadStepFrame, SigFrame, CondStepSigInv, Zenon DEF Step
  <1>2. CASE UNCHANGED vars
    <2>1. CondFrame
      BY <1>2, Zenon DEF vars, place, CondFrame
    <2>2. QED
      BY <2>1, SigFrame, Zenon
  <1>3. QED
    BY <1>1, <1>2, InterruptFrame, SigFrame, Zenon DEF Next

(* No signal is lost or delivered twice: a thread asleep in cond_wait is on  *)
(* the condition's list, or in the hands of one cond_signal, and then its    *)
(* own semaphore is 0; or it is neither and its semaphore is 1.              *)
THEOREM SignalNotLostHolds == Spec => []SignalNotLost
  <1>1. SigInv => SignalNotLost
    BY DEF SigInv, SignalNotLost, Pending, Takes, InCond, SigLabel, CondLabel
  <1>2. QED
    BY <1>1, InitSigInv, NextSigInv, Invariance, PTL DEF Spec
-----------------------------------------------------------------------------
(* The refinement of module Monitor. *)

(* A thread that joins a condition's list is the last on it until it has     *)
(* released the lock, because nobody else can wait or signal meanwhile; and  *)
(* cond_broadcast has the lock from its first waiter to its last.            *)
BroadLabel == {"broadcast", "broadcast_up"}

IsLast(t, q) == q # <<>> /\ q[Len(q)] = t

JoinAt(t, c) ==
  /\ Joining(t, c) => IsLast(t, cond_waiters[c])
  /\ pc[t] \in BroadLabel /\ obj[t] = c => holder[CondLock[c]] = t

JoinInv == \A t \in Thread, c \in Cond : JoinAt(t, c)

(* Joining and broadcasting threads have the condition's lock. *)
LEMMA BusyOwns ==
  ASSUME LockInv, JoinInv, NEW t \in Thread, NEW c \in Cond,
         Joining(t, c) \/ (pc[t] \in BroadLabel /\ obj[t] = c)
  PROVE  Owns(t, CondLock[c])
  <1>1. CASE Joining(t, c)
    BY <1>1, Zenon DEF LockInv, LockAt, Joining, Owns, LockOf
  <1>2. CASE pc[t] \in BroadLabel /\ obj[t] = c
    BY <1>2, Zenon DEF JoinInv, JoinAt, Owns
  <1>3. QED
    BY <1>1, <1>2, Zenon

(* Who has a lock. *)
LEMMA OwnerIs ==
  ASSUME MutualExclusion, NEW t \in Thread, NEW l \in Lock, Owns(t, l)
  PROVE  OwnerOf(l) = t
  BY Zenon DEF MutualExclusion, OwnerOf

LEMMA OwnerIsPrime ==
  ASSUME MutualExclusion', NEW t \in Thread, NEW l \in Lock, Owns(t, l)'
  PROVE  OwnerOf(l)' = t
  BY Zenon DEF MutualExclusion, OwnerOf

LEMMA OwnerSame ==
  ASSUME MutualExclusion, MutualExclusion', NEW l \in Lock,
         \A t \in Thread : Owns(t, l)' <=> Owns(t, l)
  PROVE  OwnerOf(l)' = OwnerOf(l)
  <1>1. CASE \E t \in Thread : Owns(t, l)
    BY <1>1, OwnerIs, OwnerIsPrime, Zenon
  <1>2. CASE ~ \E t \in Thread : Owns(t, l)
    BY <1>2, Zenon DEF OwnerOf
  <1>3. QED
    BY <1>1, <1>2, Zenon

(* Thread u is in no operation on a condition variable that the monitor      *)
(* shows.                                                                    *)
MonQuiet(u) ==
  /\ pc[u] \notin BroadLabel
  /\ pc[u] \in CondLabel \cup {"lock_down"} => obj[u] \notin Cond

(* A step that changes no condition variable, as the monitor shows it. *)
MonFrame ==
  /\ UNCHANGED cond_waiters
  /\ \A u \in Thread :
       \/ pc'[u] = pc[u] /\ obj'[u] = obj[u]
       \/ MonQuiet(u) /\ MonQuiet(u)'
       \/ /\ obj'[u] = obj[u]
          /\ \E L \in {BroadLabel, {"lock_release", "lock_up"}, {"cond_sleep", "lock_down"}} :
               pc[u] \in L /\ pc'[u] \in L

(* A list without its last element. *)
LEMMA FrontLemma ==
  ASSUME NEW S, NEW q \in Seq(S)
  PROVE  /\ Front(q) \in Seq(S)
         /\ \A x : In(x, Front(q)) => In(x, q)
         /\ q # <<>> => q = Append(Front(q), q[Len(q)])
         /\ \A x \in S : Front(Append(q, x)) = q
  <1>1. \A x \in S : Front(Append(q, x)) = q
    BY DEF Front
  <1>2. CASE q = <<>>
    <2>1. Front(q) = <<>>
      BY <1>2 DEF Front
    <2>2. QED
      BY <1>1, <1>2, <2>1, Zenon
  <1>3. CASE q # <<>>
    BY <1>1, <1>3 DEF Front, In
  <1>4. QED
    BY <1>2, <1>3, Zenon

LEMMA MonFrameSame ==
  ASSUME MonFrame
  PROVE  /\ \A t \in Thread, c \in Cond : Joining(t, c)' <=> Joining(t, c)
         /\ \A t \in Thread, c \in Cond :
              pc'[t] \in BroadLabel /\ obj'[t] = c <=> pc[t] \in BroadLabel /\ obj[t] = c
         /\ waiting' = waiting
         /\ resuming' = resuming
  <1>1. ASSUME NEW t \in Thread
        PROVE  /\ \A c \in Cond : Joining(t, c)' <=> Joining(t, c)
               /\ \A c \in Cond :
                    pc'[t] \in BroadLabel /\ obj'[t] = c <=> pc[t] \in BroadLabel /\ obj[t] = c
               /\ \A c \in Cond : pc'[t] \in {"cond_sleep", "lock_down"} /\ obj'[t] = c
                    <=> pc[t] \in {"cond_sleep", "lock_down"} /\ obj[t] = c
    BY Zenon DEF MonFrame, MonQuiet, Joining, BroadLabel, CondLabel
  <1>2. \A c \in Cond : Broadcasting(c)' <=> Broadcasting(c)
    BY <1>1, Zenon DEF Broadcasting, BroadLabel
  <1>3. \A c \in Cond : WaitingOn(c)' = WaitingOn(c)
    BY <1>1, <1>2, Zenon DEF WaitingOn, MonFrame
  <1>4. \A t \in Thread : ResumingFrom(t)' = ResumingFrom(t)
    BY <1>1, <1>3, Zenon DEF ResumingFrom
  <1>5. QED
    BY <1>1, <1>3, <1>4, Zenon DEF waiting, resuming

(* The waiting threads are on the condition's list. *)
LEMMA WaitingSub ==
  ASSUME IInv, NEW c \in Cond, NEW t, In(t, WaitingOn(c))
  PROVE  In(t, cond_waiters[c])
  <1>0. cond_waiters[c] \in Seq(Thread)
    BY Zenon DEF IInv, TypeOK
  <1>1. CASE WaitingOn(c) = <<>>
    BY <1>1, EmptyList, Zenon
  <1>2. CASE WaitingOn(c) = cond_waiters[c]
    BY <1>2, Zenon
  <1>3. CASE WaitingOn(c) = Front(cond_waiters[c])
    BY <1>0, <1>3, FrontLemma, Zenon
  <1>4. QED
    BY <1>1, <1>2, <1>3, Zenon DEF WaitingOn

(* What every step is to be shown to do. *)
MonStep == JoinInv' /\ [M!Next]_(M!vars)

LEMMA MonStutter ==
  ASSUME LockInv, MutualExclusion', JoinInv, MonFrame,
         \A t \in Thread, l \in Lock : Owns(t, l)' <=> Owns(t, l),
         \A t \in Thread, c \in Cond :
           pc[t] \in BroadLabel /\ obj[t] = c => holder'[CondLock[c]] = holder[CondLock[c]]
  PROVE  MonStep
  <1>1. /\ \A t \in Thread, c \in Cond : Joining(t, c)' <=> Joining(t, c)
        /\ \A t \in Thread, c \in Cond :
             pc'[t] \in BroadLabel /\ obj'[t] = c <=> pc[t] \in BroadLabel /\ obj[t] = c
        /\ waiting' = waiting /\ resuming' = resuming
    BY MonFrameSame, Zenon
  <1>2. cond_waiters' = cond_waiters
    BY Zenon DEF MonFrame
  <1>3. JoinInv'
    <2> SUFFICES ASSUME NEW u \in Thread, NEW d \in Cond PROVE JoinAt(u, d)'
      BY Zenon DEF JoinInv
    <2>1. JoinAt(u, d)
      BY Zenon DEF JoinInv
    <2>2. QED
      BY <1>1, <1>2, <2>1 DEF JoinAt
  <1>4. \A l \in Lock : OwnerOf(l)' = OwnerOf(l)
    BY OwnerSame, Zenon DEF LockInv
  <1>5. owner' = owner
    BY <1>4, Zenon DEF owner
  <1>6. QED
    BY <1>1, <1>3, <1>5, Zenon DEF MonStep, M!vars

(* Steps that have nothing to do with locks and condition variables. *)
LEMMA QuietStutter ==
  ASSUME LockInv, MutualExclusion', JoinInv, UNCHANGED <<holder, cond_waiters>>,
         \A u \in Thread :
           \/ pc'[u] = pc[u] /\ obj'[u] = obj[u]
           \/ /\ MonQuiet(u) /\ MonQuiet(u)'
              /\ pc[u] \notin Between /\ pc'[u] \notin Between
  PROVE  MonStep
  <1>1. MonFrame
    BY Zenon DEF MonFrame
  <1>2. \A t \in Thread, l \in Lock : Owns(t, l)' <=> Owns(t, l)
    BY Zenon DEF Owns, LockOf, Between
  <1>3. QED
    BY <1>1, <1>2, MonStutter, Zenon

(* The labels outside the operations on locks and condition variables. *)
OutLabel == {"free", "boot", "run", "sema_down", "tid_read", "tid_write", "unblock",
             "idle_init", "idle_up", "idle_block", "idle_hlt"}

LEMMA OutQuiet ==
  /\ \A u \in Thread : pc[u] \in OutLabel => MonQuiet(u) /\ pc[u] \notin Between
  /\ \A u \in Thread : pc'[u] \in OutLabel => MonQuiet(u)' /\ pc'[u] \notin Between
  BY Zenon DEF OutLabel, MonQuiet, BroadLabel, CondLabel, Between

LEMMA SemaStepMon ==
  ASSUME IInv, LockInv, MutualExclusion', JoinInv, NEW t \in Thread, SemaStep(t)
  PROVE  MonStep
  <1>0. pc \in [Thread -> Label] /\ obj \in [Thread -> AllSema \cup Cond \cup {NULL}]
    BY Zenon DEF IInv, TypeOK
  <1>1. UNCHANGED <<holder, cond_waiters>>
    BY Zenon DEF SemaStep, SemaDown, SemaTryDown, SemaUp
  <1>2. \/ UNCHANGED <<pc, obj>>
        \/ pc[t] \in OutLabel /\ \E l \in OutLabel : \E o : Goto(t, l, o)
    BY Zenon DEF SemaStep, SemaDown, SemaTryDown, SemaUp, DownStep, place, OutLabel
  <1>3. \A u \in Thread : \/ pc'[u] = pc[u] /\ obj'[u] = obj[u]
                          \/ pc[u] \in OutLabel /\ pc'[u] \in OutLabel
    BY <1>0, <1>2, Zenon DEF Goto
  <1>4. QED
    BY <1>1, <1>3, OutQuiet, QuietStutter, Zenon

LEMMA ThreadStepMon ==
  ASSUME IInv, LockInv, MutualExclusion', JoinInv, NEW t \in Thread, ThreadStep(t)
  PROVE  MonStep
  <1> USE ThreadsAssumption, ObjectsAreDistinct
  <1>0. /\ pc \in [Thread -> Label] /\ obj \in [Thread -> AllSema \cup Cond \cup {NULL}]
        /\ FreeInv /\ TidLock \notin Cond
    BY Zenon DEF IInv, TypeOK
  <1>1. UNCHANGED <<holder, cond_waiters>>
    BY Zenon DEF ThreadStep, ThreadCreate, ThreadStart, TidRead, TidWrite, UnblockChild, ThreadExit,
           ThreadYield, IdleInit, IdleUp, IdleBlock
  <1>2. ASSUME NEW u \in Thread, ThreadCreate(t, u) \/ ThreadStart(t, u)
        PROVE  \A x \in Thread : \/ pc'[x] = pc[x] /\ obj'[x] = obj[x]
                                 \/ pc[x] \in OutLabel /\ pc'[x] \in OutLabel
                                 \/ pc[x] \in OutLabel /\ pc'[x] = "lock_down" /\ obj'[x] = TidLock
    BY <1>0, <1>2 DEF ThreadCreate, ThreadStart, FreePage, FreeInv, OutLabel
  <1>3. ASSUME ~ \E u \in Thread : ThreadCreate(t, u) \/ ThreadStart(t, u)
        PROVE  \A x \in Thread : \/ pc'[x] = pc[x] /\ obj'[x] = obj[x]
                                 \/ pc[x] \in OutLabel /\ pc'[x] \in OutLabel
                                 \/ pc[x] \in OutLabel /\ pc'[x] = "lock_release" /\ obj'[x] = TidLock
    <2>1. \/ UNCHANGED <<pc, obj>>
          \/ pc[t] \in OutLabel /\ \E l \in OutLabel : \E o : Goto(t, l, o)
          \/ pc[t] \in OutLabel /\ Goto(t, "lock_release", TidLock)
      BY <1>3, Zenon DEF ThreadStep, TidRead, TidWrite, UnblockChild, ThreadExit, ThreadYield, IdleInit,
                  IdleUp, IdleBlock, Return, place, OutLabel
    <2>2. QED
      BY <1>0, <2>1, Zenon DEF Goto
  <1>4. \A x \in Thread :
          pc'[x] \in {"lock_down", "lock_release"} /\ obj'[x] = TidLock =>
            MonQuiet(x)' /\ pc'[x] \notin Between
    BY <1>0, Zenon DEF MonQuiet, BroadLabel, CondLabel, Between
  <1>5. \A x \in Thread : \/ pc'[x] = pc[x] /\ obj'[x] = obj[x]
                          \/ /\ MonQuiet(x) /\ MonQuiet(x)'
                             /\ pc[x] \notin Between /\ pc'[x] \notin Between
    BY <1>2, <1>3, <1>4, OutQuiet, Zenon
  <1>6. QED
    BY <1>1, <1>5, QuietStutter, Zenon

LEMMA InterruptMon ==
  ASSUME IInv, LockInv, MutualExclusion', JoinInv, Interrupt
  PROVE  MonStep
  <1>0. pc \in [Thread -> Label]
    BY Zenon DEF IInv, TypeOK
  <1>1. EndHlt /\ UNCHANGED <<holder, cond_waiters, obj>>
    BY Zenon DEF Interrupt, TimerInterrupt, DeviceInterrupt
  <1>2. \A u \in Thread : pc'[u] = pc[u] \/ (pc[u] \in OutLabel /\ pc'[u] \in OutLabel)
    BY <1>0, <1>1, Zenon DEF EndHlt, OutLabel
  <1>3. QED
    BY <1>1, <1>2, OutQuiet, QuietStutter, Zenon
-----------------------------------------------------------------------------
(* Locks. *)

(* Nobody but its owner joins or broadcasts on a condition with lock l. *)
LEMMA TakeMon ==
  ASSUME IInv, LockInv, MutualExclusion', SigInv, JoinInv,
         NEW t \in Thread, NEW l \in Lock, NEW o \in Lock \cup Cond,
         l = IF o \in Cond THEN CondLock[o] ELSE o,
         \/ pc[t] = "run" /\ o = l
         \/ pc[t] = "lock_down" /\ obj[t] = o,
         value[l] > 0, Goto(t, "lock_set", o), UNCHANGED <<holder, cond_waiters>>
  PROVE  MonStep
  <1> USE ThreadsAssumption, ObjectsAreDistinct
  <1>0. pc \in [Thread -> Label] /\ obj \in [Thread -> AllSema \cup Cond \cup {NULL}]
    BY Zenon DEF IInv, TypeOK
  <1>1. /\ pc'[t] = "lock_set" /\ obj'[t] = o
        /\ \A u \in Thread : u # t => pc'[u] = pc[u] /\ obj'[u] = obj[u]
    BY <1>0, Zenon DEF Goto
  <1>2. \A u \in Thread, k \in Lock : Owns(u, k)' <=> Owns(u, k) \/ (u = t /\ k = l)
    BY <1>1, Zenon DEF Owns, LockOf
  <1>3. \A u \in Thread : ~ Owns(u, l)
    <2>1. value[l] = 1 /\ MutualExclusion
      BY DEF LockInv
    <2>2. QED
      BY <2>1, Zenon DEF MutualExclusion
  <1>4. owner' = [owner EXCEPT ![l] = t] /\ owner[l] = NULL
    <2>1. OwnerOf(l)' = t
      BY <1>2, OwnerIsPrime, Zenon
    <2>2. \A k \in Lock : k # l => OwnerOf(k)' = OwnerOf(k)
      BY <1>2, OwnerSame, Zenon DEF LockInv
    <2>3. OwnerOf(l) = NULL
      BY <1>3, Zenon DEF OwnerOf
    <2>4. QED
      BY <2>1, <2>2, <2>3, Zenon DEF owner
  <1>5. JoinInv'
    BY <1>1, Zenon DEF JoinInv, JoinAt, Joining, BroadLabel
  <1>6. \A c \in Cond : ~ In(t, WaitingOn(c))
    <2> SUFFICES ASSUME NEW c \in Cond PROVE ~ In(t, WaitingOn(c))
      BY Zenon
    <2>1. ~ In(t, cond_waiters[c])
      BY Zenon DEF SigInv, Pending, InCond, CondLabel
    <2>2. QED
      BY <2>1, WaitingSub, Zenon
  <1>7. CASE o \in Lock
    <2>1. MonFrame
      BY <1>1, <1>7, Zenon DEF MonFrame, MonQuiet, BroadLabel, CondLabel
    <2>2. waiting' = waiting /\ resuming' = resuming
      BY <2>1, MonFrameSame, Zenon
    <2>3. resuming[t] = NULL
      BY <1>7, Zenon DEF resuming, ResumingFrom
    <2>4. ~ M!InCondWait(t)
      BY <1>6, <2>3, Zenon DEF M!InCondWait, waiting, In
    <2>5. M!Acquire(t, l)
      BY <1>4, <2>2, <2>4, Zenon DEF M!Acquire
    <2>6. QED
      BY <1>5, <2>5, Zenon DEF MonStep, M!Next
  <1>8. CASE o \in Cond
    <2>1. \A u \in Thread, c \in Cond : Joining(u, c)' <=> Joining(u, c)
      BY <1>1, <1>8, Zenon DEF Joining
    <2>2. \A c \in Cond : Broadcasting(c)' <=> Broadcasting(c)
      BY <1>1, <1>8, Zenon DEF Broadcasting
    <2>3. \A c \in Cond : WaitingOn(c)' = WaitingOn(c)
      BY <2>1, <2>2, Zenon DEF WaitingOn
    <2>4. ResumingFrom(t) = o /\ ResumingFrom(t)' = NULL
      BY <1>1, <1>6, <1>8, Zenon DEF ResumingFrom
    <2>5. \A u \in Thread : u # t => ResumingFrom(u)' = ResumingFrom(u)
      BY <1>1, <2>3, Zenon DEF ResumingFrom
    <2>6. waiting' = waiting /\ resuming[t] = o /\ resuming' = [resuming EXCEPT ![t] = NULL]
      BY <2>3, <2>4, <2>5, Zenon DEF waiting, resuming
    <2>7. M!Resume(t, o)
      BY <1>4, <1>8, <2>6, Zenon DEF M!Resume
    <2>8. QED
      BY <1>5, <1>8, <2>7, Zenon DEF MonStep, M!Next
  <1>9. QED
    BY <1>7, <1>8, Zenon

(* lock_release's sema_up gives the lock away, and begins cond_wait's sleep. *)
LEMMA LockUpMon ==
  ASSUME IInv, LockInv, MutualExclusion', SigInv, JoinInv, NEW t \in Thread, LockUp(t)
  PROVE  MonStep
  <1> USE ThreadsAssumption, ObjectsAreDistinct
  <1>0. /\ pc \in [Thread -> Label] /\ obj \in [Thread -> AllSema \cup Cond \cup {NULL}]
        /\ cond_waiters \in [Cond -> Seq(Thread)]
    BY Zenon DEF IInv, TypeOK
  <1>1. PICK l \in Lock : l = LockOf(t)
    BY LockOfType, Zenon DEF LockUp
  <1>2. /\ pc[t] = "lock_up" /\ UNCHANGED <<holder, cond_waiters>>
        /\ \/ obj[t] \in Lock /\ pc'[t] \in {"unblock", "run"}
           \/ obj[t] \in Cond /\ pc'[t] = "cond_sleep" /\ obj'[t] = obj[t]
        /\ \A u \in Thread : u # t => pc'[u] = pc[u] /\ obj'[u] = obj[u]
    BY <1>0, Zenon DEF LockUp, Return, Goto
  <1>3. Owns(t, l) /\ holder[l] = NULL
    BY <1>1, <1>2, Zenon DEF LockInv, LockAt, Between, Owns
  <1>4. \A u \in Thread, k \in Lock : Owns(u, k)' <=> Owns(u, k) /\ ~ (u = t /\ k = l)
    BY <1>1, <1>2, <1>3 DEF Owns, LockOf
  <1>5. \A u \in Thread : ~ Owns(u, l)'
    BY <1>3, <1>4, Zenon DEF LockInv, MutualExclusion
  <1>6. owner' = [owner EXCEPT ![l] = NULL] /\ owner[l] = t
    <2>1. OwnerOf(l)' = NULL
      BY <1>5, Zenon DEF OwnerOf
    <2>2. \A k \in Lock : k # l => OwnerOf(k)' = OwnerOf(k)
      BY <1>4, OwnerSame, Zenon DEF LockInv
    <2>3. OwnerOf(l) = t
      BY <1>3, OwnerIs, Zenon DEF LockInv
    <2>4. QED
      BY <2>1, <2>2, <2>3, Zenon DEF owner
  <1>7. JoinInv'
    BY <1>2, Zenon DEF JoinInv, JoinAt, Joining, BroadLabel
  <1>8. CASE obj[t] \in Lock
    <2>1. MonFrame
      BY <1>2, <1>8, Zenon DEF MonFrame, MonQuiet, BroadLabel, CondLabel
    <2>2. waiting' = waiting /\ resuming' = resuming
      BY <2>1, MonFrameSame, Zenon
    <2>3. M!Release(t, l)
      BY <1>6, <2>2, Zenon DEF M!Release
    <2>4. QED
      BY <1>7, <2>3, Zenon DEF MonStep, M!Next
  <1>9. CASE obj[t] \in Cond
    <2>1. PICK c \in Cond : obj[t] = c /\ obj'[t] = c /\ pc'[t] = "cond_sleep" /\ l = CondLock[c]
      BY <1>1, <1>2, <1>9, Zenon DEF LockOf
    <2>2. /\ Joining(t, c) /\ ~ Joining(t, c)'
          /\ \A u \in Thread : u # t => ~ Joining(u, c) /\ ~ Joining(u, c)'
      <3>1. Joining(t, c) /\ ~ Joining(t, c)'
        BY <1>2, <2>1, Zenon DEF Joining
      <3>2. \A u \in Thread : u # t => ~ Joining(u, c)
        BY <1>3, <2>1, BusyOwns, Zenon DEF LockInv, MutualExclusion
      <3>3. QED
        BY <1>2, <3>1, <3>2, Zenon DEF Joining
    <2>3. ~ Broadcasting(c) /\ ~ Broadcasting(c)'
      <3>1. \A u \in Thread : ~ (pc[u] \in BroadLabel /\ obj[u] = c)
        <4>1. pc[t] \notin BroadLabel
          BY <1>2, Zenon DEF BroadLabel
        <4>2. QED
          BY <1>3, <2>1, <4>1, BusyOwns, Zenon DEF LockInv, MutualExclusion
      <3>2. QED
        BY <1>2, <2>1, <3>1, Zenon DEF Broadcasting, BroadLabel
    <2>4. \A d \in Cond : d # c => WaitingOn(d)' = WaitingOn(d)
      <3> SUFFICES ASSUME NEW d \in Cond, d # c PROVE WaitingOn(d)' = WaitingOn(d)
        BY Zenon
      <3>1. \A u \in Thread : Joining(u, d)' <=> Joining(u, d)
        BY <1>2, <2>1, Zenon DEF Joining
      <3>2. Broadcasting(d)' <=> Broadcasting(d)
        BY <1>2, <2>1, Zenon DEF Broadcasting
      <3>3. QED
        BY <1>2, <3>1, <3>2, Zenon DEF WaitingOn
    <2>5. /\ WaitingOn(c) = Front(cond_waiters[c])
          /\ WaitingOn(c)' = cond_waiters[c]
      BY <1>2, <2>2, <2>3, Zenon DEF WaitingOn
    <2>6. cond_waiters[c] = Append(Front(cond_waiters[c]), t) /\ Front(cond_waiters[c]) \in Seq(Thread)
      <3>1. IsLast(t, cond_waiters[c])
        BY <2>2, Zenon DEF JoinInv, JoinAt
      <3>2. QED
        BY <1>0, <3>1, FrontLemma DEF IsLast
    <2>7. waiting' = [waiting EXCEPT ![c] = Append(@, t)]
      BY <2>4, <2>5, <2>6, Zenon DEF waiting
    <2>8. resuming' = resuming
      <3>0. \A u : In(u, cond_waiters[c]) <=> In(u, Front(cond_waiters[c])) \/ u = t
        <4>1. PICK q \in Seq(Thread) : q = Front(cond_waiters[c])
          BY <2>6, Zenon
        <4>2. \A u : In(u, Append(q, t)) <=> In(u, q) \/ u = t
          BY InAppend, Zenon
        <4>3. QED
          BY <2>6, <4>1, <4>2, Zenon
      <3>1. In(t, WaitingOn(c)')
        BY <2>5, <3>0
      <3>2. ResumingFrom(t)' = NULL /\ ResumingFrom(t) = NULL
        BY <1>2, <2>1, <3>1, Zenon DEF ResumingFrom
      <3>3. ASSUME NEW u \in Thread, u # t PROVE ResumingFrom(u)' = ResumingFrom(u)
        <4>0. In(u, cond_waiters[c]) <=> In(u, Front(cond_waiters[c]))
          BY <3>0, <3>3, Zenon
        <4>1. In(u, WaitingOn(c)') <=> In(u, WaitingOn(c))
          BY <2>5, <4>0, Zenon
        <4>2. QED
          BY <1>2, <2>4, <3>3, <4>1, Zenon DEF ResumingFrom
      <3>4. QED
        BY <3>2, <3>3, Zenon DEF resuming
    <2>9. M!Wait(t, c)
      BY <1>6, <2>1, <2>7, <2>8, Zenon DEF M!Wait
    <2>10. QED
      BY <1>7, <2>9, Zenon DEF MonStep, M!Next
  <1>10. QED
    BY <1>2, <1>8, <1>9, Zenon

LEMMA LockStepMon ==
  ASSUME IInv, LockInv, MutualExclusion', SigInv, JoinInv, NEW t \in Thread, LockStep(t)
  PROVE  MonStep
  <1> USE ThreadsAssumption, ObjectsAreDistinct
  <1>0. /\ pc \in [Thread -> Label] /\ obj \in [Thread -> AllSema \cup Cond \cup {NULL}]
        /\ holder \in [Lock -> Thread \cup {NULL}] /\ PlaceAt(t)
    BY Zenon DEF IInv, TypeOK, PlaceInv
  <1>1. ASSUME NEW l \in Lock, LockDown(t, l) PROVE MonStep
    <2>1. PICK o \in Lock \cup Cond :
            /\ l = IF o \in Cond THEN CondLock[o] ELSE o
            /\ \/ pc[t] = "run" /\ o = l
               \/ pc[t] = "lock_down" /\ obj[t] = o
            /\ DownStep(t, l, o, "lock_down", "lock_set")
            /\ UNCHANGED <<holder, cond_waiters>>
      BY <1>0, <1>1, Zenon DEF LockDown, PlaceAt, LockOf
    <2>2. CASE Goto(t, "lock_down", o)
      <3>1. /\ pc'[t] = "lock_down" /\ obj'[t] = o
            /\ \A u \in Thread : u # t => pc'[u] = pc[u] /\ obj'[u] = obj[u]
        BY <1>0, <2>2, Zenon DEF Goto
      <3>2. pc[t] = "run" => MonQuiet(t) /\ MonQuiet(t)'
        BY <2>1, <3>1, Zenon DEF MonQuiet, BroadLabel, CondLabel
      <3>3. \A u \in Thread : \/ pc'[u] = pc[u] /\ obj'[u] = obj[u]
                              \/ /\ MonQuiet(u) /\ MonQuiet(u)'
                                 /\ pc[u] \notin Between /\ pc'[u] \notin Between
        BY <2>1, <3>1, <3>2, Zenon DEF Between
      <3>4. QED
        BY <2>1, <3>3, QuietStutter, Zenon
    <2>3. CASE value[l] > 0 /\ Goto(t, "lock_set", o)
      BY <2>1, <2>3, TakeMon, Zenon
    <2>4. QED
      BY <2>1, <2>2, <2>3, Zenon DEF DownStep
  <1>2. ASSUME NEW l \in Lock, LockTryAcquire(t, l) PROVE MonStep
    BY <1>2, TakeMon, Zenon DEF LockTryAcquire
  <1>3. CASE LockSetHolder(t)
    <2>1. PICK l \in Lock : l = LockOf(t)
      BY <1>3, LockOfType, Zenon DEF LockSetHolder
    <2>2. /\ pc[t] = "lock_set" /\ pc'[t] \in OutLabel
          /\ holder' = [holder EXCEPT ![l] = t] /\ UNCHANGED cond_waiters
          /\ \A u \in Thread : u # t => pc'[u] = pc[u] /\ obj'[u] = obj[u]
      BY <1>0, <1>3, <2>1, Zenon DEF LockSetHolder, Return, Goto, OutLabel
    <2>3. holder[l] = NULL /\ \A u \in Thread : Owns(u, l) => u = t
      <3>1. LockAt(t) /\ MutualExclusion
        BY Zenon DEF LockInv
      <3>2. holder[l] = NULL /\ Owns(t, l)
        BY <2>1, <2>2, <3>1, Zenon DEF LockAt, Between, Owns
      <3>3. QED
        BY <3>1, <3>2, Zenon DEF MutualExclusion
    <2>4. \A u \in Thread, k \in Lock : Owns(u, k)' <=> Owns(u, k)
      BY <1>0, <2>1, <2>2, <2>3 DEF Owns, LockOf, OutLabel
    <2>5. MonQuiet(t) /\ MonQuiet(t)'
      BY <2>2, OutQuiet, Zenon DEF MonQuiet, BroadLabel, CondLabel
    <2>6. MonFrame
      BY <2>2, <2>5, Zenon DEF MonFrame
    <2>7. \A u \in Thread, c \in Cond :
            pc[u] \in BroadLabel /\ obj[u] = c => holder'[CondLock[c]] = holder[CondLock[c]]
      <3> SUFFICES ASSUME NEW u \in Thread, NEW c \in Cond, pc[u] \in BroadLabel /\ obj[u] = c
                   PROVE  holder'[CondLock[c]] = holder[CondLock[c]]
        BY Zenon
      <3>1. holder[CondLock[c]] = u
        BY Zenon DEF JoinInv, JoinAt
      <3>2. CondLock[c] # l
        BY <2>3, <3>1, Zenon
      <3>3. QED
        BY <1>0, <2>2, <3>2, Zenon
    <2>8. QED
      BY <2>4, <2>6, <2>7, MonStutter, Zenon
  <1>4. ASSUME NEW l \in Lock, LockRelease(t, l) PROVE MonStep
    <2>1. /\ pc'[t] = "lock_up"
          /\ \/ pc[t] = "run" /\ obj'[t] = l
             \/ pc[t] = "lock_release" /\ obj'[t] = obj[t] /\ LockOf(t) = l
          /\ holder' = [holder EXCEPT ![l] = NULL] /\ UNCHANGED cond_waiters
          /\ \A u \in Thread : u # t => pc'[u] = pc[u] /\ obj'[u] = obj[u]
      BY <1>0, <1>4, Zenon DEF LockRelease, Goto
    <2>2. holder[l] = t
      BY <1>4, Zenon DEF LockRelease, LockInv, LockAt
    <2>3. \A u \in Thread, k \in Lock : Owns(u, k)' <=> Owns(u, k)
      <3>1. \A k \in Lock : holder'[k] = IF k = l THEN NULL ELSE holder[k]
        BY <1>0, <2>1, Zenon
      <3>2. \A k \in Lock : Owns(t, k)' <=> Owns(t, k)
        BY <2>1, <2>2, <3>1 DEF Owns, LockOf
      <3>3. ASSUME NEW u \in Thread, NEW k \in Lock, u # t PROVE Owns(u, k)' <=> Owns(u, k)
        <4>1. holder'[k] = u <=> holder[k] = u
          BY <2>2, <3>1, <3>3, Zenon
        <4>2. pc'[u] = pc[u] /\ (LockOf(u)' = k <=> LockOf(u) = k)
          BY <2>1, <3>3, Zenon DEF LockOf
        <4>3. QED
          BY <4>1, <4>2, Zenon DEF Owns
      <3>4. QED
        BY <3>2, <3>3, Zenon
    <2>4. MonFrame
      BY <2>1, Zenon DEF MonFrame, MonQuiet, BroadLabel, CondLabel
    <2>5. \A u \in Thread, c \in Cond :
            pc[u] \in BroadLabel /\ obj[u] = c => holder'[CondLock[c]] = holder[CondLock[c]]
      <3> SUFFICES ASSUME NEW u \in Thread, NEW c \in Cond, pc[u] \in BroadLabel /\ obj[u] = c
                   PROVE  holder'[CondLock[c]] = holder[CondLock[c]]
        BY Zenon
      <3>1. holder[CondLock[c]] = u /\ u # t
        BY <2>1, Zenon DEF JoinInv, JoinAt, BroadLabel
      <3>2. CondLock[c] # l
        BY <2>2, <3>1, Zenon
      <3>3. QED
        BY <1>0, <2>1, <3>2, Zenon
    <2>6. QED
      BY <2>3, <2>4, <2>5, MonStutter, Zenon
  <1>5. QED
    BY <1>1, <1>2, <1>3, <1>4, LockUpMon, Zenon DEF LockStep
-----------------------------------------------------------------------------
(* Condition variables. *)

(* The holder of its lock is alone in the operations on a condition. *)
LEMMA Alone ==
  ASSUME LockInv, JoinInv, NEW t \in Thread, NEW c \in Cond, holder[CondLock[c]] = t,
         pc[t] \in {"run", "broadcast"}
  PROVE  /\ \A u \in Thread : ~ Joining(u, c)
         /\ \A u \in Thread : u # t => ~ (pc[u] \in BroadLabel /\ obj[u] = c)
  <1>1. CondLock[c] \in Lock
    BY ThreadsAssumption, Zenon
  <1>2. \A u \in Thread : Owns(u, CondLock[c]) => u = t
    BY <1>1, Zenon DEF LockInv, MutualExclusion, Owns
  <1>3. ~ Joining(t, c)
    BY Zenon DEF Joining
  <1>4. QED
    BY <1>2, <1>3, BusyOwns, Zenon

LEMMA CondWaitMon ==
  ASSUME IInv, LockInv, MutualExclusion', JoinInv, NEW t \in Thread, NEW c \in Cond, CondWait(t, c)
  PROVE  MonStep
  <1>0. /\ pc \in [Thread -> Label] /\ obj \in [Thread -> AllSema \cup Cond \cup {NULL}]
        /\ cond_waiters \in [Cond -> Seq(Thread)]
    BY Zenon DEF IInv, TypeOK
  <1>1. /\ pc[t] = "run" /\ holder[CondLock[c]] = t
        /\ cond_waiters' = [cond_waiters EXCEPT ![c] = Append(@, t)]
        /\ pc'[t] = "lock_release" /\ obj'[t] = c /\ UNCHANGED holder
        /\ \A u \in Thread : u # t => pc'[u] = pc[u] /\ obj'[u] = obj[u]
    BY <1>0, Zenon DEF CondWait, Goto
  <1>2. /\ \A u \in Thread : ~ Joining(u, c)
        /\ \A u \in Thread : u # t => ~ (pc[u] \in BroadLabel /\ obj[u] = c)
    BY <1>1, Alone, Zenon
  <1>3. \A d \in Cond : cond_waiters'[d] = IF d = c THEN Append(cond_waiters[c], t) ELSE cond_waiters[d]
    BY <1>0, <1>1, Zenon
  <1>4. \A u \in Thread, d \in Cond : Joining(u, d)' <=> Joining(u, d) \/ (u = t /\ d = c)
    BY <1>1, Zenon DEF Joining
  <1>5. \A u \in Thread, d \in Cond :
          pc'[u] \in BroadLabel /\ obj'[u] = d <=> pc[u] \in BroadLabel /\ obj[u] = d
    BY <1>1, Zenon DEF BroadLabel
  <1>6. ~ Broadcasting(c) /\ \A d \in Cond : Broadcasting(d)' <=> Broadcasting(d)
    BY <1>1, <1>2, <1>5, Zenon DEF Broadcasting, BroadLabel
  <1>7. \A d \in Cond : WaitingOn(d)' = WaitingOn(d)
    <2>1. Front(Append(cond_waiters[c], t)) = cond_waiters[c]
      BY <1>0, FrontLemma, Zenon
    <2>2. WaitingOn(c)' = WaitingOn(c)
      BY <1>2, <1>3, <1>4, <1>6, <2>1, Zenon DEF WaitingOn
    <2>3. \A d \in Cond : d # c => WaitingOn(d)' = WaitingOn(d)
      BY <1>3, <1>4, <1>6, Zenon DEF WaitingOn
    <2>4. QED
      BY <2>2, <2>3, Zenon
  <1>8. \A u \in Thread : ResumingFrom(u)' = ResumingFrom(u)
    BY <1>1, <1>7, Zenon DEF ResumingFrom
  <1>9. \A u \in Thread, l \in Lock : Owns(u, l)' <=> Owns(u, l)
    BY <1>1, Zenon DEF Owns, LockOf
  <1>10. \A l \in Lock : OwnerOf(l)' = OwnerOf(l)
    BY <1>9, OwnerSame, Zenon DEF LockInv
  <1>11. UNCHANGED M!vars
    BY <1>7, <1>8, <1>10, Zenon DEF M!vars, owner, waiting, resuming
  <1>12. JoinInv'
    <2> SUFFICES ASSUME NEW u \in Thread, NEW d \in Cond PROVE JoinAt(u, d)'
      BY Zenon DEF JoinInv
    <2>1. IsLast(t, Append(cond_waiters[c], t))
      <3>1. PICK q \in Seq(Thread) : q = cond_waiters[c]
        BY <1>0, Zenon
      <3>2. Append(q, t) # <<>> /\ Append(q, t)[Len(Append(q, t))] = t
        OBVIOUS
      <3>3. QED
        BY <3>1, <3>2, Zenon DEF IsLast
    <2>2. Joining(u, d)' => IsLast(u, cond_waiters'[d])
      BY <1>2, <1>3, <1>4, <2>1, Zenon DEF JoinInv, JoinAt
    <2>3. pc'[u] \in BroadLabel /\ obj'[u] = d => holder'[CondLock[d]] = u
      <3>1. JoinAt(u, d)
        BY Zenon DEF JoinInv
      <3>2. QED
        BY <1>1, <1>5, <3>1, Zenon DEF JoinAt
    <2>4. QED
      BY <2>2, <2>3, Zenon DEF JoinAt
  <1>13. QED
    BY <1>11, <1>12, Zenon DEF MonStep

(* cond_signal, and one turn of cond_broadcast. *)
LEMMA PopWaiterMon ==
  ASSUME IInv, LockInv, MutualExclusion', SigInv, JoinInv, NEW t \in Thread, NEW c \in Cond,
         NEW l \in SigLabel, holder[CondLock[c]] = t,
         \/ pc[t] = "run"
         \/ pc[t] = "broadcast" /\ obj[t] = c /\ l = "broadcast_up",
         PopWaiter(t, c, l), UNCHANGED holder
  PROVE  MonStep
  <1>0. /\ pc \in [Thread -> Label] /\ obj \in [Thread -> AllSema \cup Cond \cup {NULL}]
        /\ cond_waiters \in [Cond -> Seq(Thread)]
    BY Zenon DEF IInv, TypeOK
  <1>1. PICK h, q : h = Head(cond_waiters[c]) /\ q = Tail(cond_waiters[c])
    BY Zenon
  <1>2. /\ pc[t] \in {"run", "broadcast"} /\ cond_waiters[c] # <<>>
        /\ pc'[t] = l /\ obj'[t] = c
        /\ \A d \in Cond : cond_waiters'[d] = IF d = c THEN q ELSE cond_waiters[d]
        /\ \A u \in Thread : u # t => pc'[u] = pc[u] /\ obj'[u] = obj[u]
    BY <1>0, <1>1, Zenon DEF PopWaiter, Goto
  <1>3. /\ h \in Thread
        /\ \A x : In(x, cond_waiters[c]) <=> x = h \/ In(x, q)
        /\ ~ In(h, q)
    BY <1>0, <1>1, <1>2, PopFront, Zenon DEF SigInv
  <1>4. /\ \A u \in Thread : ~ Joining(u, c)
        /\ \A u \in Thread : u # t => ~ (pc[u] \in BroadLabel /\ obj[u] = c)
    BY <1>2, Alone
  <1>5. \A u \in Thread, d \in Cond : Joining(u, d)' <=> Joining(u, d)
    BY <1>2, Zenon DEF Joining, SigLabel
  <1>6. \A u \in Thread, d \in Cond :
          pc'[u] \in BroadLabel /\ obj'[u] = d <=>
            \/ u # t /\ pc[u] \in BroadLabel /\ obj[u] = d
            \/ u = t /\ d = c /\ l = "broadcast_up"
    BY <1>2, Zenon DEF SigLabel, BroadLabel
  <1>7. JoinInv'
    <2> SUFFICES ASSUME NEW u \in Thread, NEW d \in Cond PROVE JoinAt(u, d)'
      BY Zenon DEF JoinInv
    <2>1. JoinAt(u, d)
      BY Zenon DEF JoinInv
    <2>2. Joining(u, d)' => IsLast(u, cond_waiters'[d])
      BY <1>2, <1>4, <1>5, <2>1, Zenon DEF JoinAt
    <2>3. pc'[u] \in BroadLabel /\ obj'[u] = d => holder'[CondLock[d]] = u
      BY <1>6, <2>1, Zenon DEF JoinAt
    <2>4. QED
      BY <2>2, <2>3, Zenon DEF JoinAt
  <1>8. owner' = owner /\ owner[CondLock[c]] = t
    <2>1. \A u \in Thread, k \in Lock : Owns(u, k)' <=> Owns(u, k)
      BY <1>2, Zenon DEF Owns, LockOf, SigLabel
    <2>2. CondLock[c] \in Lock /\ Owns(t, CondLock[c])
      BY ThreadsAssumption, Zenon DEF Owns
    <2>3. \A k \in Lock : OwnerOf(k)' = OwnerOf(k)
      BY <2>1, OwnerSame, Zenon DEF LockInv
    <2>4. OwnerOf(CondLock[c]) = t
      BY <2>2, OwnerIs, Zenon DEF LockInv
    <2>5. QED
      BY <2>2, <2>3, <2>4, Zenon DEF owner
  <1>9. \A d \in Cond : d # c => WaitingOn(d)' = WaitingOn(d)
    <2> SUFFICES ASSUME NEW d \in Cond, d # c PROVE WaitingOn(d)' = WaitingOn(d)
      BY Zenon
    <2>1. Broadcasting(d)' <=> Broadcasting(d)
      BY <1>2, <1>6, Zenon DEF Broadcasting, BroadLabel
    <2>2. QED
      BY <1>2, <1>5, <2>1, Zenon DEF WaitingOn
  <1>10. /\ Broadcasting(c) <=> pc[t] = "broadcast"
         /\ Broadcasting(c)' <=> l = "broadcast_up"
    <2>1. Broadcasting(c) <=> pc[t] = "broadcast"
      BY <1>2, <1>4, Zenon DEF Broadcasting, BroadLabel
    <2>2. Broadcasting(c)' <=> l = "broadcast_up"
      BY <1>4, <1>6, Zenon DEF Broadcasting, BroadLabel
    <2>3. QED
      BY <2>1, <2>2, Zenon
  <1>11. /\ WaitingOn(c) = IF pc[t] = "broadcast" THEN <<>> ELSE cond_waiters[c]
         /\ WaitingOn(c)' = IF l = "broadcast_up" THEN <<>> ELSE q
    BY <1>2, <1>4, <1>5, <1>10, Zenon DEF WaitingOn
  <1>12. ResumingFrom(t)' = NULL /\ ResumingFrom(t) = NULL
    BY <1>2, Zenon DEF ResumingFrom, SigLabel
  <1>13. \A u \in Thread : In(u, cond_waiters[c]) => u # t /\ pc[u] = "cond_sleep" /\ obj[u] = c
    BY <1>2, <1>4, Zenon DEF SigInv, Pending, InCond, CondLabel, Joining
  <1>14. CASE pc[t] = "broadcast"
    <2>1. \A d \in Cond : WaitingOn(d)' = WaitingOn(d)
      BY <1>9, <1>11, <1>14, Zenon
    <2>2. \A u \in Thread : ResumingFrom(u)' = ResumingFrom(u)
      BY <1>2, <1>12, <2>1, Zenon DEF ResumingFrom
    <2>3. UNCHANGED M!vars
      BY <1>8, <2>1, <2>2, Zenon DEF M!vars, waiting, resuming
    <2>4. QED
      BY <1>7, <2>3, Zenon DEF MonStep
  <1>15. CASE pc[t] = "run" /\ l = "signal_up"
    <2>1. WaitingOn(c) = cond_waiters[c] /\ WaitingOn(c)' = q
      BY <1>11, <1>15, Zenon
    <2>2. waiting[c] = cond_waiters[c] /\ waiting' = [waiting EXCEPT ![c] = q]
      BY <1>9, <2>1, Zenon DEF waiting
    <2>3. \A u \in Thread : ResumingFrom(u)' = IF u = h THEN c ELSE ResumingFrom(u)
      <3> SUFFICES ASSUME NEW u \in Thread
                   PROVE  ResumingFrom(u)' = IF u = h THEN c ELSE ResumingFrom(u)
        BY Zenon
      <3>1. CASE u = h
        <4>1. pc'[h] = "cond_sleep" /\ obj'[h] = c
          BY <1>2, <1>3, <1>13, Zenon
        <4>2. ~ In(h, WaitingOn(c)')
          BY <1>3, <2>1, Zenon
        <4>3. QED
          BY <3>1, <4>1, <4>2, Zenon DEF ResumingFrom
      <3>2. CASE u = t /\ u # h
        BY <1>12, <3>2, Zenon
      <3>3. CASE u # t /\ u # h
        <4>1. In(u, WaitingOn(c)') <=> In(u, WaitingOn(c))
          BY <1>3, <2>1, <3>3, Zenon
        <4>2. QED
          BY <1>2, <1>9, <3>3, <4>1, Zenon DEF ResumingFrom
      <3>4. QED
        BY <3>1, <3>2, <3>3, Zenon
    <2>4. resuming' = [resuming EXCEPT ![h] = c]
      BY <1>3, <2>3, Zenon DEF resuming
    <2>5. M!Signal(t, c)
      BY <1>1, <1>2, <1>8, <2>2, <2>4, Zenon DEF M!Signal
    <2>6. QED
      BY <1>7, <2>5, Zenon DEF MonStep, M!Next
  <1>16. CASE pc[t] = "run" /\ l = "broadcast_up"
    <2>1. WaitingOn(c) = cond_waiters[c] /\ WaitingOn(c)' = <<>>
      BY <1>11, <1>16, Zenon
    <2>2. waiting[c] = cond_waiters[c] /\ waiting' = [waiting EXCEPT ![c] = <<>>]
      BY <1>9, <2>1, Zenon DEF waiting
    <2>3. \A u \in Thread :
            ResumingFrom(u)' = IF In(u, cond_waiters[c]) THEN c ELSE ResumingFrom(u)
      <3> SUFFICES ASSUME NEW u \in Thread
                   PROVE  ResumingFrom(u)' = IF In(u, cond_waiters[c]) THEN c ELSE ResumingFrom(u)
        BY Zenon
      <3>0. ~ In(u, WaitingOn(c)')
        BY <2>1, EmptyList, Zenon
      <3>1. CASE In(u, cond_waiters[c])
        <4>1. pc'[u] = "cond_sleep" /\ obj'[u] = c
          BY <1>2, <1>13, <3>1, Zenon
        <4>2. QED
          BY <3>0, <3>1, <4>1, Zenon DEF ResumingFrom
      <3>2. CASE u = t /\ ~ In(u, cond_waiters[c])
        BY <1>12, <3>2, Zenon
      <3>3. CASE u # t /\ ~ In(u, cond_waiters[c])
        <4>1. In(u, WaitingOn(c)') <=> In(u, WaitingOn(c))
          BY <2>1, <3>0, <3>3, Zenon
        <4>2. QED
          BY <1>2, <1>9, <3>3, <4>1, Zenon DEF ResumingFrom
      <3>4. QED
        BY <3>1, <3>2, <3>3, Zenon
    <2>4. resuming' = [u \in Thread |-> IF \E i \in 1 .. Len(waiting[c]) : waiting[c][i] = u
                                        THEN c ELSE resuming[u]]
      BY <2>2, <2>3 DEF resuming, In
    <2>5. M!Broadcast(t, c)
      BY <1>2, <1>8, <2>2, <2>4, Zenon DEF M!Broadcast
    <2>6. QED
      BY <1>7, <2>5, Zenon DEF MonStep, M!Next
  <1>17. QED
    BY <1>14, <1>15, <1>16, Zenon DEF SigLabel

LEMMA CondStepMon ==
  ASSUME IInv, LockInv, MutualExclusion', SigInv, JoinInv, NEW t \in Thread, CondStep(t)
  PROVE  MonStep
  <1>0. /\ pc \in [Thread -> Label] /\ obj \in [Thread -> AllSema \cup Cond \cup {NULL}]
    BY Zenon DEF IInv, TypeOK
  <1>1. ASSUME NEW c \in Cond, CondSignal(t, c) PROVE MonStep
    BY <1>1, PopWaiterMon, Zenon DEF CondSignal, SigLabel
  <1>2. ASSUME NEW c \in Cond, CondBroadcast(t, c) PROVE MonStep
    <2>1. UNCHANGED holder /\ pc[t] \in {"run", "broadcast"}
      BY <1>2, Zenon DEF CondBroadcast
    <2>2. CASE pc[t] = "run" /\ holder[CondLock[c]] = t /\ PopWaiter(t, c, "broadcast_up")
      BY <2>1, <2>2, PopWaiterMon, Zenon DEF SigLabel
    <2>3. CASE pc[t] = "broadcast" /\ obj[t] = c /\ PopWaiter(t, c, "broadcast_up")
      <3>1. holder[CondLock[c]] = t
        BY <2>3, Zenon DEF JoinInv, JoinAt, BroadLabel
      <3>2. QED
        BY <2>1, <2>3, <3>1, PopWaiterMon, Zenon DEF SigLabel
    <2>4. CASE pc[t] = "broadcast" /\ obj[t] = c /\ cond_waiters[c] = <<>> /\ Return(t, "run")
               /\ UNCHANGED <<cond_waiters, peer>>
      <3>1. /\ pc'[t] = "run" /\ holder[CondLock[c]] = t
            /\ \A u \in Thread : u # t => pc'[u] = pc[u] /\ obj'[u] = obj[u]
        BY <1>0, <2>4, Zenon DEF Return, Goto, JoinInv, JoinAt, BroadLabel
      <3>2. /\ \A u \in Thread : ~ Joining(u, c)
            /\ \A u \in Thread : u # t => ~ (pc[u] \in BroadLabel /\ obj[u] = c)
        BY <2>1, <3>1, Alone, Zenon
      <3>3. \A u \in Thread, d \in Cond : Joining(u, d)' <=> Joining(u, d)
        BY <2>4, <3>1, Zenon DEF Joining
      <3>4. \A d \in Cond : d # c => (Broadcasting(d)' <=> Broadcasting(d))
        BY <2>4, <3>1, Zenon DEF Broadcasting
      <3>5. WaitingOn(c) = <<>> /\ WaitingOn(c)' = <<>>
        BY <2>4, <3>2, <3>3, Zenon DEF WaitingOn
      <3>6. \A d \in Cond : WaitingOn(d)' = WaitingOn(d)
        BY <2>4, <3>3, <3>4, <3>5, Zenon DEF WaitingOn
      <3>7. \A u \in Thread : ResumingFrom(u)' = ResumingFrom(u)
        BY <2>4, <3>1, <3>6, Zenon DEF ResumingFrom
      <3>8. \A u \in Thread, k \in Lock : Owns(u, k)' <=> Owns(u, k)
        BY <2>1, <2>4, <3>1, Zenon DEF Owns, LockOf
      <3>9. \A k \in Lock : OwnerOf(k)' = OwnerOf(k)
        BY <3>8, OwnerSame, Zenon DEF LockInv
      <3>10. UNCHANGED M!vars
        BY <3>6, <3>7, <3>9, Zenon DEF M!vars, owner, waiting, resuming
      <3>11. JoinInv'
        BY <2>1, <2>4, <3>1, <3>3, Zenon DEF JoinInv, JoinAt, BroadLabel
      <3>12. QED
        BY <3>10, <3>11, Zenon DEF MonStep
    <2>5. QED
      BY <1>2, <2>2, <2>3, <2>4, Zenon DEF CondBroadcast
  <1>3. ASSUME CondSleep(t) \/ SignalUp(t) PROVE MonStep
    <2>1. /\ UNCHANGED <<holder, cond_waiters>>
          /\ \/ /\ pc[t] = "cond_sleep" /\ pc'[t] \in {"cond_sleep", "lock_down"}
                /\ obj'[t] = obj[t]
             \/ pc[t] = "signal_up" /\ pc'[t] = "run"
             \/ pc[t] = "broadcast_up" /\ pc'[t] = "broadcast" /\ obj'[t] = obj[t]
          /\ \A u \in Thread : u # t => pc'[u] = pc[u] /\ obj'[u] = obj[u]
      BY <1>0, <1>3, Zenon DEF CondSleep, SignalUp, DownStep, Return, Goto
    <2>2. MonFrame
      BY <2>1, Zenon DEF MonFrame, MonQuiet, BroadLabel, CondLabel
    <2>3. \A u \in Thread, k \in Lock : Owns(u, k)' <=> Owns(u, k)
      BY <2>1, Zenon DEF Owns, LockOf
    <2>4. QED
      BY <2>1, <2>2, <2>3, MonStutter, Zenon
  <1>4. QED
    BY <1>1, <1>2, <1>3, CondWaitMon, Zenon DEF CondStep

LEMMA NextMon ==
  ASSUME IInv, LockInv, MutualExclusion', SigInv, JoinInv, [Next]_vars
  PROVE  MonStep
  <1>1. ASSUME NEW t \in Thread, Step(t) PROVE MonStep
    BY <1>1, SemaStepMon, LockStepMon, CondStepMon, ThreadStepMon, Zenon DEF Step
  <1>2. CASE UNCHANGED vars
    BY <1>2, QuietStutter, Zenon DEF vars, place
  <1>3. QED
    BY <1>1, <1>2, InterruptMon, Zenon DEF Next

LEMMA InitMon == Init => JoinInv /\ M!Init
  <1> SUFFICES ASSUME Init PROVE JoinInv /\ M!Init
    BY Zenon
  <1>1. \A t \in Thread : pc[t] \in {"boot", "free"} /\ obj[t] = NULL
    BY Zenon DEF Init
  <1>2. (\A l \in Lock : holder[l] = NULL) /\ \A c \in Cond : cond_waiters[c] = <<>>
    BY Zenon DEF Init
  <1>3. \A t \in Thread, c \in Cond : ~ Joining(t, c) /\ pc[t] \notin BroadLabel
    BY <1>1, Zenon DEF Joining, BroadLabel
  <1>4. \A l \in Lock : OwnerOf(l) = NULL
    BY <1>1, <1>2, ThreadsAssumption, Zenon DEF OwnerOf, Owns
  <1>5. \A c \in Cond : WaitingOn(c) = <<>>
    BY <1>2, <1>3, Zenon DEF WaitingOn, Broadcasting, BroadLabel
  <1>6. \A t \in Thread : ResumingFrom(t) = NULL
    BY <1>1, Zenon DEF ResumingFrom
  <1>7. QED
    BY <1>3, <1>4, <1>5, <1>6, Zenon DEF JoinInv, JoinAt, M!Init, owner, waiting, resuming

(* The locks and condition variables of synch.c implement monitors: what     *)
(* lock_acquire, lock_release, cond_wait, cond_signal and cond_broadcast do  *)
(* in several steps, with the scheduler and interrupts in between, is what   *)
(* the atomic operations of module Monitor do.                               *)
THEOREM MonitorRefinement == Spec => ImplementsMonitor
  <1> DEFINE All == IInv /\ LockInv /\ SigInv /\ JoinInv
  <1>1. Init => All /\ M!Init
    BY InitIInv, InitLockInv, InitSigInv, InitMon, Zenon
  <1>2. All /\ [Next]_vars => All' /\ [M!Next]_(M!vars)
    <2> SUFFICES ASSUME All, [Next]_vars PROVE All' /\ [M!Next]_(M!vars)
      BY Zenon
    <2>1. IInv' /\ LockInv' /\ SigInv'
      BY NextIInv, NextLockInv, NextSigInv, Zenon
    <2>2. MutualExclusion'
      BY <2>1, Zenon DEF LockInv
    <2>3. MonStep
      BY <2>2, NextMon, Zenon
    <2>4. QED
      BY <2>1, <2>3, Zenon DEF MonStep
  <1> HIDE DEF All
  <1>3. QED
    BY <1>1, <1>2, PTL DEF Spec, ImplementsMonitor, M!Spec
=============================================================================
