------------------------------ MODULE Threads ------------------------------
(***************************************************************************)
(* Kernel threads: the round-robin scheduler of threads/thread.c and the   *)
(* semaphores, locks and condition variables of threads/synch.c.           *)
(*                                                                         *)
(* Pintos runs on one processor.  Only the current thread takes steps, and *)
(* a stretch of code that runs with interrupts off is one step; between    *)
(* two steps the timer, or another device, may interrupt.  pc[t] is the    *)
(* place in the kernel where thread t continues the next time it runs:     *)
(* "run" is the thread's own code, from which it may call any operation.   *)
(* obj[t] is the object of the call t is in, peer[t] the other thread it   *)
(* deals with (the thread being created, the waiter being signalled).      *)
(***************************************************************************)
EXTENDS Naturals, Sequences, FiniteSets

CONSTANTS
  Thread,       \* pages that can hold a struct thread
  Main,         \* the page of the initial thread
  NULL,         \* the null pointer
  Sema,         \* semaphores the threads use directly
  IrqSema,      \* the ones that an interrupt handler ups
  IdleStarted,  \* the semaphore on which thread_start waits for the idle thread
  Lock,         \* locks
  TidLock,      \* tid_lock, private to allocate_tid
  Cond,         \* condition variables
  CondLock,     \* the lock each condition variable goes with
  TIME_SLICE,   \* timer ticks that a thread may run
  MaxValue,     \* bound: sema_up is called only below this value
  MaxTid        \* bound: threads are created while next_tid is at most this

ASSUME ThreadsAssumption ==
  /\ Main \in Thread
  /\ NULL \notin Thread
  /\ IrqSema \subseteq Sema
  /\ TidLock \in Lock
  /\ CondLock \in [Cond -> Lock \ {TidLock}]
  /\ TIME_SLICE \in Nat \ {0}
  /\ MaxValue \in Nat \ {0}
  /\ MaxTid \in Nat \ {0}

(* The pages are those of a machine with bounded memory. *)
ASSUME FiniteMemory == IsFiniteSet(Thread)

(* Every semaphore there is.  The semaphore of a lock is named by the lock, *)
(* the one that cond_wait keeps on thread t's stack by t.                   *)
ASSUME ObjectsAreDistinct ==
  /\ Thread \cap (Sema \cup Lock \cup Cond \cup {IdleStarted, NULL}) = {}
  /\ Lock \cap (Sema \cup Cond \cup {IdleStarted, NULL}) = {}
  /\ Sema \cap (Cond \cup {IdleStarted, NULL}) = {}
  /\ Cond \cap {IdleStarted, NULL} = {}
  /\ IdleStarted # NULL

AllSema == Sema \cup Lock \cup Thread \cup {IdleStarted}

VARIABLES
  current,       \* the running thread
  status,        \* struct thread's status, "FREE" for a page that holds none
  ready_list,
  idle_thread,
  thread_ticks,  \* timer ticks since the last thread switch
  value,         \* semaphore values
  waiters,       \* semaphore wait lists
  holder,        \* lock holders
  cond_waiters,  \* condition variables' wait lists
  pc, obj, peer, \* where each thread is (see above)
  tid,           \* struct thread's tid
  next_tid

sched == <<current, status, ready_list, thread_ticks>>
place == <<pc, obj, peer>>
tids  == <<tid, next_tid>>
vars  == <<sched, idle_thread, value, waiters, holder, cond_waiters, place, tids>>

Label == {"free", "boot", "run", "sema_down", "lock_down", "lock_set",
          "lock_release", "lock_up", "cond_sleep", "signal_up", "broadcast",
          "broadcast_up", "tid_read", "tid_write", "unblock",
          "idle_init", "idle_up", "idle_block", "idle_hlt"}

(* Just after thread_init: the initial thread alone, interrupts off. *)
Init ==
  /\ current = Main
  /\ status = [t \in Thread |-> IF t = Main THEN "RUNNING" ELSE "FREE"]
  /\ ready_list = <<>>
  /\ idle_thread = NULL
  /\ thread_ticks = 0
  /\ value = [s \in AllSema |-> IF s \in Lock THEN 1 ELSE 0]
  /\ waiters = [s \in AllSema |-> <<>>]
  /\ holder = [l \in Lock |-> NULL]
  /\ cond_waiters = [c \in Cond |-> <<>>]
  /\ pc = [t \in Thread |-> IF t = Main THEN "boot" ELSE "free"]
  /\ obj = [t \in Thread |-> NULL]
  /\ peer = [t \in Thread |-> NULL]
  /\ tid = [t \in Thread |-> IF t = Main THEN 1 ELSE 0]
  /\ next_tid = 2
-----------------------------------------------------------------------------
(* The scheduler. *)

Running(t) == current = t

(* next_thread_to_run. *)
NextToRun(rl) == IF rl = <<>> THEN idle_thread ELSE Head(rl)

(* thread_schedule_tail destroys the thread it switched from if that one is  *)
(* dying; the initial thread's page did not come from palloc and stays.      *)
AfterSwitch(t, s) == IF s = "DYING" /\ t # Main THEN "FREE" ELSE s

(* schedule: the current thread has left the RUNNING state (st) and, if it   *)
(* can still run, is in the run queue (rl).                                  *)
Schedule(st, rl) ==
  LET next == NextToRun(rl)
  IN  /\ current' = next
      /\ ready_list' = IF rl = <<>> THEN rl ELSE Tail(rl)
      /\ status' = [t \in Thread |-> IF t = next THEN "RUNNING"
                                     ELSE IF t = current THEN AfterSwitch(t, st[t])
                                     ELSE st[t]]
      /\ thread_ticks' = 0

(* thread_block. *)
Block(t) == Schedule([status EXCEPT ![t] = "BLOCKED"], ready_list)

(* Mutant: the thread that yields goes to the front of the run queue. *)
YieldToFront(t) ==
  Schedule([status EXCEPT ![t] = "READY"],
           IF t = idle_thread THEN ready_list ELSE <<t>> \o ready_list)

(* thread_yield. *)
Yield(t) ==
  Schedule([status EXCEPT ![t] = "READY"],
           IF t = idle_thread THEN ready_list ELSE Append(ready_list, t))

(* thread_unblock. *)
Unblock(t) ==
  /\ ready_list' = Append(ready_list, t)
  /\ status' = [status EXCEPT ![t] = "READY"]
  /\ UNCHANGED <<current, thread_ticks>>

(* Thread t moves to label l, in a call on object o. *)
Goto(t, l, o) ==
  /\ pc' = [pc EXCEPT ![t] = l]
  /\ obj' = [obj EXCEPT ![t] = o]

Return(t, l) == Goto(t, l, NULL)
-----------------------------------------------------------------------------
(* Semaphores. *)

(* Mutant: a woken thread takes a unit without testing the value again. *)
DownStepNoRetest(t, s, o, wait, done) ==
  \/ /\ value[s] = 0 /\ pc[t] # wait
     /\ waiters' = [waiters EXCEPT ![s] = Append(@, t)]
     /\ Block(t)
     /\ Goto(t, wait, o)
     /\ UNCHANGED value
  \/ /\ value[s] > 0 \/ pc[t] = wait
     /\ value' = [value EXCEPT ![s] = IF @ = 0 THEN 0 ELSE @ - 1]
     /\ Goto(t, done, IF done = "run" THEN NULL ELSE o)
     /\ UNCHANGED <<sched, waiters>>

(* Mutant: the thread blocks without joining the wait list. *)
DownStepNoPush(t, s, o, wait, done) ==
  \/ /\ value[s] = 0
     /\ Block(t)
     /\ Goto(t, wait, o)
     /\ UNCHANGED <<value, waiters>>
  \/ /\ value[s] > 0
     /\ value' = [value EXCEPT ![s] = @ - 1]
     /\ Goto(t, done, IF done = "run" THEN NULL ELSE o)
     /\ UNCHANGED <<sched, waiters>>

(* One turn of sema_down's loop on s, in a call on o: the thread waits at    *)
(* label wait, where it tests the value again when it is woken, or takes one *)
(* unit and goes on at label done.                                           *)
DownStep(t, s, o, wait, done) ==
  \/ /\ value[s] = 0
     /\ waiters' = [waiters EXCEPT ![s] = Append(@, t)]
     /\ Block(t)
     /\ Goto(t, wait, o)
     /\ UNCHANGED value
  \/ /\ value[s] > 0
     /\ value' = [value EXCEPT ![s] = @ - 1]
     /\ Goto(t, done, IF done = "run" THEN NULL ELSE o)
     /\ UNCHANGED <<sched, waiters>>

(* Mutant: the woken thread stays on the wait list. *)
UpStepNoPop(s) ==
  /\ value' = [value EXCEPT ![s] = @ + 1]
  /\ UNCHANGED waiters
  /\ IF waiters[s] = <<>> THEN UNCHANGED sched ELSE Unblock(Head(waiters[s]))

(* Mutant: only the step from 0 to 1 wakes a waiter. *)
UpStepWakeFromZero(s) ==
  /\ value' = [value EXCEPT ![s] = @ + 1]
  /\ IF waiters[s] = <<>> \/ value[s] > 0
     THEN UNCHANGED <<sched, waiters>>
     ELSE /\ Unblock(Head(waiters[s]))
          /\ waiters' = [waiters EXCEPT ![s] = Tail(@)]

(* The body of sema_up: wake the first waiter, then count up. *)
UpStep(s) ==
  /\ value' = [value EXCEPT ![s] = @ + 1]
  /\ IF waiters[s] = <<>>
     THEN UNCHANGED <<sched, waiters>>
     ELSE /\ Unblock(Head(waiters[s]))
          /\ waiters' = [waiters EXCEPT ![s] = Tail(@)]

(* sema_down, called from the thread's code or resumed after a wait. *)
SemaDown(t, s) ==
  /\ Running(t)
  /\ (pc[t] = "run" /\ s \in Sema) \/ (pc[t] = "sema_down" /\ obj[t] = s)
  /\ DownStep(t, s, s, "sema_down", "run")
  /\ UNCHANGED <<idle_thread, holder, cond_waiters, peer, tids>>

(* sema_try_down; when it fails it changes nothing. *)
SemaTryDown(t, s) ==
  /\ Running(t)
  /\ pc[t] = "run"
  /\ value[s] > 0
  /\ value' = [value EXCEPT ![s] = @ - 1]
  /\ UNCHANGED <<sched, idle_thread, waiters, holder, cond_waiters, place, tids>>

SemaUp(t, s) ==
  /\ Running(t)
  /\ pc[t] = "run"
  /\ value[s] < MaxValue
  /\ UpStep(s)
  /\ UNCHANGED <<idle_thread, holder, cond_waiters, place, tids>>
-----------------------------------------------------------------------------
(* Locks. *)

(* The lock of the call t is in. *)
LockOf(t) == IF obj[t] \in Cond THEN CondLock[obj[t]] ELSE obj[t]

(* lock_acquire's sema_down, called from the thread's code on a lock that it *)
(* does not hold, resumed, or called by cond_wait.                           *)
LockDown(t, l) ==
  /\ Running(t)
  /\ \/ /\ pc[t] = "run"
        /\ l # TidLock
        /\ holder[l] # t
        /\ DownStep(t, l, l, "lock_down", "lock_set")
     \/ /\ pc[t] = "lock_down"
        /\ LockOf(t) = l
        /\ DownStep(t, l, obj[t], "lock_down", "lock_set")
  /\ UNCHANGED <<idle_thread, holder, cond_waiters, peer, tids>>

(* The rest of lock_acquire: record the holder. *)
LockSetHolder(t) ==
  /\ Running(t)
  /\ pc[t] = "lock_set"
  /\ holder' = [holder EXCEPT ![LockOf(t)] = t]
  /\ IF obj[t] = TidLock THEN Goto(t, "tid_read", TidLock) ELSE Return(t, "run")
  /\ UNCHANGED <<sched, idle_thread, value, waiters, cond_waiters, peer, tids>>

(* lock_try_acquire; when it fails it changes nothing. *)
LockTryAcquire(t, l) ==
  /\ Running(t)
  /\ pc[t] = "run"
  /\ l # TidLock
  /\ holder[l] # t
  /\ value[l] > 0
  /\ value' = [value EXCEPT ![l] = @ - 1]
  /\ Goto(t, "lock_set", l)
  /\ UNCHANGED <<sched, idle_thread, waiters, holder, cond_waiters, peer, tids>>

(* lock_release clears the holder, ... *)
LockRelease(t, l) ==
  /\ Running(t)
  /\ \/ pc[t] = "run" /\ l # TidLock /\ holder[l] = t /\ Goto(t, "lock_up", l)
     \/ pc[t] = "lock_release" /\ l = LockOf(t) /\ Goto(t, "lock_up", obj[t])
  /\ holder' = [holder EXCEPT ![l] = NULL]
  /\ UNCHANGED <<sched, idle_thread, value, waiters, cond_waiters, peer, tids>>

(* ... then ups the semaphore, and returns to its caller. *)
LockUp(t) ==
  /\ Running(t)
  /\ pc[t] = "lock_up"
  /\ UpStep(LockOf(t))
  /\ \/ obj[t] = TidLock /\ Return(t, "unblock")
     \/ obj[t] \in Cond /\ Goto(t, "cond_sleep", obj[t])
     \/ obj[t] \in Lock \ {TidLock} /\ Return(t, "run")
  /\ UNCHANGED <<idle_thread, holder, cond_waiters, peer, tids>>
-----------------------------------------------------------------------------
(* Condition variables. *)

(* cond_wait up to its call of lock_release; the waiter's semaphore is new. *)
CondWait(t, c) ==
  /\ Running(t)
  /\ pc[t] = "run"
  /\ holder[CondLock[c]] = t
  /\ value' = [value EXCEPT ![t] = 0]
  /\ waiters' = [waiters EXCEPT ![t] = <<>>]
  /\ cond_waiters' = [cond_waiters EXCEPT ![c] = Append(@, t)]
  /\ Goto(t, "lock_release", c)
  /\ UNCHANGED <<sched, idle_thread, holder, peer, tids>>

(* Mutant: cond_wait returns without taking the lock back. *)
CondSleepNoReacquire(t) ==
  /\ Running(t)
  /\ pc[t] = "cond_sleep"
  /\ DownStep(t, t, obj[t], "cond_sleep", "run")
  /\ UNCHANGED <<idle_thread, holder, cond_waiters, peer, tids>>

(* cond_wait's sema_down on its own semaphore, then on to lock_acquire. *)
CondSleep(t) ==
  /\ Running(t)
  /\ pc[t] = "cond_sleep"
  /\ DownStep(t, t, obj[t], "cond_sleep", "lock_down")
  /\ UNCHANGED <<idle_thread, holder, cond_waiters, peer, tids>>

(* Mutant: the signalled waiter stays on the list. *)
PopWaiterNoPop(t, c, l) ==
  /\ cond_waiters[c] # <<>>
  /\ peer' = [peer EXCEPT ![t] = Head(cond_waiters[c])]
  /\ Goto(t, l, c)
  /\ UNCHANGED cond_waiters

(* The waiter that cond_signal takes off the list, to be upped at label l. *)
PopWaiter(t, c, l) ==
  /\ cond_waiters[c] # <<>>
  /\ cond_waiters' = [cond_waiters EXCEPT ![c] = Tail(@)]
  /\ peer' = [peer EXCEPT ![t] = Head(cond_waiters[c])]
  /\ Goto(t, l, c)

(* cond_signal; with no waiters it changes nothing. *)
CondSignal(t, c) ==
  /\ Running(t)
  /\ pc[t] = "run"
  /\ holder[CondLock[c]] = t
  /\ PopWaiter(t, c, "signal_up")
  /\ UNCHANGED <<sched, idle_thread, value, waiters, holder, tids>>

(* One test of cond_broadcast's loop. *)
CondBroadcast(t, c) ==
  /\ Running(t)
  /\ \/ pc[t] = "run" /\ holder[CondLock[c]] = t /\ PopWaiter(t, c, "broadcast_up")
     \/ pc[t] = "broadcast" /\ obj[t] = c /\ PopWaiter(t, c, "broadcast_up")
     \/ /\ pc[t] = "broadcast" /\ obj[t] = c /\ cond_waiters[c] = <<>>
        /\ Return(t, "run")
        /\ UNCHANGED <<cond_waiters, peer>>
  /\ UNCHANGED <<sched, idle_thread, value, waiters, holder, tids>>

(* cond_signal's sema_up of the waiter it took off the list. *)
SignalUp(t) ==
  /\ Running(t)
  /\ \/ pc[t] = "signal_up" /\ Return(t, "run")
     \/ pc[t] = "broadcast_up" /\ Goto(t, "broadcast", obj[t])
  /\ UpStep(peer[t])
  /\ peer' = [peer EXCEPT ![t] = NULL]
  /\ UNCHANGED <<idle_thread, holder, cond_waiters, tids>>
-----------------------------------------------------------------------------
(* Thread creation and destruction. *)

(* palloc_get_page yields page u; when none is free thread_create changes    *)
(* nothing.                                                                  *)
FreePage(u) == status[u] = "FREE" /\ next_tid <= MaxTid

(* thread_create up to allocate_tid, whose lock_acquire comes next: u is a   *)
(* blocked thread without a tid that will start in its own code.             *)
ThreadCreate(t, u) ==
  /\ Running(t)
  /\ pc[t] = "run"
  /\ FreePage(u)
  /\ status' = [status EXCEPT ![u] = "BLOCKED"]
  /\ pc' = [pc EXCEPT ![t] = "lock_down", ![u] = "run"]
  /\ obj' = [obj EXCEPT ![t] = TidLock]
  /\ peer' = [peer EXCEPT ![t] = u]
  /\ tid' = [tid EXCEPT ![u] = 0]
  /\ UNCHANGED <<current, ready_list, thread_ticks, idle_thread, value, waiters,
                 holder, cond_waiters, next_tid>>

(* allocate_tid's "tid = next_tid++": the read and the write. *)
TidRead(t) ==
  /\ Running(t)
  /\ pc[t] = "tid_read"
  /\ tid' = [tid EXCEPT ![peer[t]] = next_tid]
  /\ Goto(t, "tid_write", TidLock)
  /\ UNCHANGED <<sched, idle_thread, value, waiters, holder, cond_waiters, peer, next_tid>>

TidWrite(t) ==
  /\ Running(t)
  /\ pc[t] = "tid_write"
  /\ next_tid' = tid[peer[t]] + 1
  /\ Goto(t, "lock_release", TidLock)
  /\ UNCHANGED <<sched, idle_thread, value, waiters, holder, cond_waiters, peer, tid>>

(* The end of thread_create: the new thread becomes ready. *)
UnblockChild(t) ==
  /\ Running(t)
  /\ pc[t] = "unblock"
  /\ Unblock(peer[t])
  /\ peer' = [peer EXCEPT ![t] = NULL]
  /\ Return(t, "run")
  /\ UNCHANGED <<idle_thread, value, waiters, holder, cond_waiters, tids>>

(* The end of thread_exit (what a process does before is in module Process). *)
(* Nothing in it tests that the thread holds no lock: that is taken for      *)
(* granted here, and Syscall has a process that dies with filesys_lock.      *)
ThreadExit(t) ==
  /\ Running(t)
  /\ pc[t] = "run"
  /\ \A l \in Lock : holder[l] # t
  /\ Schedule([status EXCEPT ![t] = "DYING"], ready_list)
  /\ Return(t, "free")
  /\ tid' = [tid EXCEPT ![t] = 0]
  /\ UNCHANGED <<idle_thread, value, waiters, holder, cond_waiters, peer, next_tid>>

ThreadYield(t) ==
  /\ Running(t)
  /\ pc[t] = "run"
  /\ Yield(t)
  /\ UNCHANGED <<idle_thread, value, waiters, holder, cond_waiters, place, tids>>
-----------------------------------------------------------------------------
(* Start-up and the idle thread. *)

(* thread_start, interrupts off: thread_create of the idle thread, then      *)
(* interrupts on and sema_down of idle_started (its first test comes next).  *)
ThreadStart(t, u) ==
  /\ Running(t)
  /\ pc[t] = "boot"
  /\ FreePage(u)
  /\ tid' = [tid EXCEPT ![u] = next_tid]
  /\ next_tid' = next_tid + 1
  /\ ready_list' = Append(ready_list, u)
  /\ status' = [status EXCEPT ![u] = "READY"]
  /\ pc' = [pc EXCEPT ![t] = "sema_down", ![u] = "idle_init"]
  /\ obj' = [obj EXCEPT ![t] = IdleStarted]
  /\ UNCHANGED <<current, thread_ticks, idle_thread, value, waiters, holder,
                 cond_waiters, peer>>

(* idle: publish itself, ... *)
IdleInit(t) ==
  /\ Running(t)
  /\ pc[t] = "idle_init"
  /\ idle_thread' = t
  /\ Return(t, "idle_up")
  /\ UNCHANGED <<sched, value, waiters, holder, cond_waiters, peer, tids>>

(* ... let thread_start continue, ... *)
IdleUp(t) ==
  /\ Running(t)
  /\ pc[t] = "idle_up"
  /\ UpStep(IdleStarted)
  /\ Return(t, "idle_block")
  /\ UNCHANGED <<idle_thread, holder, cond_waiters, peer, tids>>

(* ... then block until nobody else can run, and halt until an interrupt. *)
IdleBlock(t) ==
  /\ Running(t)
  /\ pc[t] = "idle_block"
  /\ Block(t)
  /\ Return(t, "idle_hlt")
  /\ UNCHANGED <<idle_thread, value, waiters, holder, cond_waiters, peer, tids>>
-----------------------------------------------------------------------------
(* Interrupts.  They come between any two steps once they are enabled, and   *)
(* end the idle thread's HLT.                                                *)

InterruptsOn == pc[current] # "boot"

EndHlt ==
  pc' = [pc EXCEPT ![current] = IF @ = "idle_hlt" THEN "idle_block" ELSE @]

(* timer_interrupt's thread_tick, and intr_handler's yield on return. *)
TimerInterrupt ==
  /\ InterruptsOn
  /\ EndHlt
  /\ IF thread_ticks + 1 >= TIME_SLICE
     THEN Yield(current)
     ELSE /\ thread_ticks' = thread_ticks + 1
          /\ UNCHANGED <<current, status, ready_list>>
  /\ UNCHANGED <<idle_thread, value, waiters, holder, cond_waiters, obj, peer, tids>>

(* A device's handler ups a semaphore. *)
DeviceInterrupt(s) ==
  /\ InterruptsOn
  /\ value[s] < MaxValue
  /\ EndHlt
  /\ UpStep(s)
  /\ UNCHANGED <<idle_thread, holder, cond_waiters, obj, peer, tids>>
-----------------------------------------------------------------------------
SemaStep(t) ==
  \/ \E s \in Sema \cup {IdleStarted} : SemaDown(t, s)
  \/ \E s \in Sema : SemaTryDown(t, s) \/ SemaUp(t, s)

LockStep(t) ==
  \/ \E l \in Lock : LockDown(t, l) \/ LockTryAcquire(t, l) \/ LockRelease(t, l)
  \/ LockSetHolder(t)
  \/ LockUp(t)

CondStep(t) ==
  \/ \E c \in Cond : CondWait(t, c) \/ CondSignal(t, c) \/ CondBroadcast(t, c)
  \/ CondSleep(t)
  \/ SignalUp(t)

ThreadStep(t) ==
  \/ \E u \in Thread : ThreadCreate(t, u) \/ ThreadStart(t, u)
  \/ TidRead(t) \/ TidWrite(t) \/ UnblockChild(t)
  \/ ThreadExit(t) \/ ThreadYield(t)
  \/ IdleInit(t) \/ IdleUp(t) \/ IdleBlock(t)

Step(t) == SemaStep(t) \/ LockStep(t) \/ CondStep(t) \/ ThreadStep(t)

Interrupt == TimerInterrupt \/ \E s \in IrqSema : DeviceInterrupt(s)

Next == (\E t \in Thread : Step(t)) \/ Interrupt

Spec == Init /\ [][Next]_vars

(* The timer keeps ticking, and a thread inside a kernel operation that gets *)
(* the processor again and again takes its next step: a time slice is worth  *)
(* many instructions.  A thread's own code may do nothing forever.           *)
KernelStep(t) == pc[t] # "run" /\ Step(t)

Fairness == WF_vars(TimerInterrupt) /\ \A t \in Thread : SF_vars(KernelStep(t))

FairSpec == Spec /\ Fairness
-----------------------------------------------------------------------------
(* Properties. *)

Status == {"FREE", "RUNNING", "READY", "BLOCKED", "DYING"}

(* Every variable has its type; in particular schedule() always finds a      *)
(* thread to run, which it asserts with is_thread (next).                    *)
TypeOK ==
  /\ current \in Thread
  /\ status \in [Thread -> Status]
  /\ ready_list \in Seq(Thread)
  /\ idle_thread \in Thread \cup {NULL}
  /\ thread_ticks \in 0 .. TIME_SLICE - 1
  /\ value \in [AllSema -> Nat]
  /\ waiters \in [AllSema -> Seq(Thread)]
  /\ holder \in [Lock -> Thread \cup {NULL}]
  /\ cond_waiters \in [Cond -> Seq(Thread)]
  /\ pc \in [Thread -> Label]
  /\ obj \in [Thread -> AllSema \cup Cond \cup {NULL}]
  /\ peer \in [Thread -> Thread \cup {NULL}]
  /\ tid \in [Thread -> Nat]
  /\ next_tid \in Nat

In(x, q) == \E i \in 1 .. Len(q) : q[i] = x
NoDuplicates(q) == \A i, j \in 1 .. Len(q) : q[i] = q[j] => i = j

(* The semaphore whose wait list a thread may be on: the one it is inside    *)
(* sema_down of.                                                             *)
WaitsIn(t, s) ==
  \/ pc[t] = "sema_down" /\ obj[t] = s
  \/ pc[t] = "lock_down" /\ LockOf(t) = s
  \/ pc[t] = "cond_sleep" /\ t = s

(* The list element `elem' of a thread is on one list at most: "only a       *)
(* thread in the ready state is on the run queue, whereas only a thread in   *)
(* the blocked state is on a semaphore wait list" (thread.h), and no list    *)
(* holds a thread twice.                                                     *)
ElemOnOneList ==
  /\ NoDuplicates(ready_list)
  /\ \A t \in Thread : In(t, ready_list) => status[t] = "READY"
  /\ \A s \in AllSema :
       /\ NoDuplicates(waiters[s])
       /\ \A t \in Thread : In(t, waiters[s]) => status[t] = "BLOCKED" /\ WaitsIn(t, s)

Creating(u) ==
  \E t \in Thread : /\ peer[t] = u
                    /\ \/ pc[t] \in {"lock_down", "lock_set", "lock_release", "lock_up"}
                          /\ obj[t] = TidLock
                       \/ pc[t] \in {"tid_read", "tid_write", "unblock"}

(* No thread drops out of the scheduler's sight: a ready thread is on the    *)
(* run queue and a blocked one where somebody will find it to wake it (a     *)
(* wait list, or the thread_create that is making it).  Only the idle        *)
(* thread, which next_thread_to_run falls back on, is on no list.            *)
NoThreadLost ==
  \A t \in Thread : t # idle_thread =>
    /\ status[t] = "READY" => In(t, ready_list)
    /\ status[t] = "BLOCKED" => Creating(t) \/ \E s \in AllSema : In(t, waiters[s])

(* The idle thread, once it has run, "never appears in the ready list", nor  *)
(* on a wait list (comment of idle).                                         *)
IdleNeverQueued ==
  idle_thread # NULL =>
    ~ In(idle_thread, ready_list) /\ \A s \in AllSema : ~ In(idle_thread, waiters[s])

(* The threads that have the lock: past the sema_down of lock_acquire and    *)
(* not yet past the sema_up of lock_release.                                 *)
Owns(t, l) ==
  \/ holder[l] = t
  \/ pc[t] \in {"lock_set", "lock_up"} /\ LockOf(t) = l

(* "A lock can be held by at most a single thread at any given time"         *)
(* (lock_init), also while lock_acquire and lock_release are under way and   *)
(* the holder field does not say who it is; and the lock is taken exactly    *)
(* when somebody has it.                                                     *)
MutualExclusion ==
  \A l \in Lock :
    /\ \A t, u \in Thread : Owns(t, l) /\ Owns(u, l) => t = u
    /\ value[l] = 1 <=> \A t \in Thread : ~ Owns(t, l)

(* Threads that sema_up has taken off the wait list of s and that have not   *)
(* tested the value again yet.                                               *)
Woken(s) == {t \in Thread : WaitsIn(t, s) /\ status[t] \in {"READY", "RUNNING"}}

(* No wakeup is lost: while threads wait on a semaphore whose value is       *)
(* positive, one thread at least is awake to take each unit.                 *)
NoLostWakeup ==
  \A s \in AllSema : waiters[s] # <<>> => value[s] <= Cardinality(Woken(s))

(* cond_wait releases the lock and waits "atomically": a thread that sleeps  *)
(* in cond_wait is on the condition's list, or is the waiter that one        *)
(* cond_signal is about to up, or has been signalled, and exactly one of     *)
(* these, so that no signal is lost or delivered twice.                      *)
SignalNotLost ==
  \A t \in Thread, c \in Cond :
    LET listed == In(t, cond_waiters[c])
        taken  == \E u \in Thread : peer[u] = t /\ obj[u] = c
                                    /\ pc[u] \in {"signal_up", "broadcast_up"}
    IN  /\ ~ (listed /\ taken)
        /\ NoDuplicates(cond_waiters[c])
        /\ pc[t] = "cond_sleep" /\ obj[t] = c =>
             value[t] = IF listed \/ taken THEN 0 ELSE 1

(* Round robin: a thread on the run queue gets the processor, whatever the   *)
(* other threads do, because thread_tick takes it from them.                 *)
ReadyRuns == \A t \in Thread : In(t, ready_list) ~> Running(t)

(* A positive semaphore does not keep its waiters asleep for good.           *)
WaitersServed ==
  \A s \in Sema : value[s] > 0 /\ waiters[s] # <<>> ~> value[s] = 0 \/ waiters[s] = <<>>
=============================================================================
