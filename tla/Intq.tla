-------------------------------- MODULE Intq --------------------------------
(***************************************************************************)
(* The interrupt queue of devices/intq.c: a circular buffer between kernel *)
(* threads and interrupt handlers.  Interrupts are off in every operation, *)
(* so that a thread runs on until it blocks: in lock_acquire of the        *)
(* queue's lock (pc "lock") or in wait's thread_block (pc "wait", and      *)
(* "woken" once signal has unblocked it).                                  *)
(***************************************************************************)
EXTENDS Naturals, Sequences, FiniteSets

CONSTANTS
  Reader,         \* threads that call intq_getc
  Writer,         \* threads that call intq_putc
  HandlerPuts,    \* whether an interrupt handler puts bytes (the input buffer)
  HandlerGets,    \* whether an interrupt handler gets bytes (the serial port)
  Byte, NULL,
  INTQ_BUFSIZE

Thread == Reader \cup Writer

ASSUME IntqAssumption ==
  /\ INTQ_BUFSIZE \in Nat /\ INTQ_BUFSIZE >= 2
  /\ Reader \cap Writer = {}
  /\ NULL \notin Thread
  /\ HandlerPuts \in BOOLEAN /\ HandlerGets \in BOOLEAN
  /\ Byte # {}

VARIABLES
  buf, head, tail,
  not_full, not_empty,  \* the waiting threads
  lock,                 \* the holder of the queue's lock
  pc,                   \* where each thread is
  byte,                 \* the byte that a writer is putting
  given,                \* the byte that was put last
  taken,                \* the byte that intq_getc returned last
  panic                 \* an assertion has failed, the kernel has stopped

queue == <<buf, head, tail>>
vars  == <<queue, not_full, not_empty, lock, pc, byte, given, taken, panic>>

Pos == 0 .. INTQ_BUFSIZE - 1

(* intq_init; the buffer is not cleared. *)
Init ==
  /\ buf \in [Pos -> Byte]
  /\ head = 0 /\ tail = 0
  /\ not_full = NULL /\ not_empty = NULL
  /\ lock = NULL
  /\ pc = [t \in Thread |-> "out"]
  /\ byte \in [Writer -> Byte]
  /\ given \in Byte /\ taken \in Byte
  /\ panic = FALSE

next(pos) == (pos + 1) % INTQ_BUFSIZE

intq_empty == head = tail

intq_full == next(head) = tail

(* Mutant: nobody is woken. *)
signalLost(waiter, p) == p

(* signal: the program counters p, with the waiter, if any, unblocked. *)
signal(waiter, p) == [t \in Thread |-> IF t = waiter THEN "woken" ELSE p[t]]

(* The rest of intq_getc and of intq_putc, once there is a byte or room; p   *)
(* are the program counters when the calling thread is done.                 *)
Take(p) ==
  /\ taken' = buf[tail]
  /\ tail' = next(tail)
  /\ pc' = signal(not_full, p)
  /\ not_full' = NULL
  /\ UNCHANGED <<buf, head, not_empty, given>>

(* Mutant: the byte is stored after the head has moved. *)
StoreAfter(b, p) ==
  /\ buf' = [buf EXCEPT ![next(head)] = b]
  /\ head' = next(head)
  /\ pc' = signal(not_empty, p)
  /\ not_empty' = NULL
  /\ given' = b
  /\ UNCHANGED <<tail, not_full, taken>>

Store(b, p) ==
  /\ buf' = [buf EXCEPT ![head] = b]
  /\ head' = next(head)
  /\ pc' = signal(not_empty, p)
  /\ not_empty' = NULL
  /\ given' = b
  /\ UNCHANGED <<tail, not_full, taken>>

(* What thread t waits for has not come yet. *)
MustWait(t) == IF t \in Reader THEN intq_empty ELSE intq_full

(* Mutant: a thread that finds the lock free sleeps without registering. *)
SleepUnregistered(t) ==
  /\ lock' = t
  /\ pc' = [pc EXCEPT ![t] = "wait"]
  /\ UNCHANGED <<queue, given, taken, not_empty, not_full>>

(* wait, by thread t which has just taken the lock: register and block. *)
Sleep(t) ==
  /\ lock' = t
  /\ pc' = [pc EXCEPT ![t] = "wait"]
  /\ IF t \in Reader THEN not_empty' = t /\ UNCHANGED not_full
                     ELSE not_full' = t /\ UNCHANGED not_empty
  /\ UNCHANGED <<queue, given, taken>>

(* The lock once thread t is past the lock_release of its last wait, if any. *)
LockLeft(t) == IF pc[t] = "woken" THEN NULL ELSE lock

(* The loop finds that t must wait; lock_acquire comes first. *)
WaitLoop(t) ==
  \/ LockLeft(t) = NULL /\ Sleep(t)
  \/ /\ LockLeft(t) # NULL
     /\ pc' = [pc EXCEPT ![t] = "lock"]
     /\ UNCHANGED <<queue, given, taken, not_empty, not_full, lock>>

(* intq_getc, when it is called and when it resumes after a wait. *)
Getc(t) ==
  /\ pc[t] \in {"out", "woken"}
  /\ \/ MustWait(t) /\ WaitLoop(t)
     \/ ~ MustWait(t) /\ lock' = LockLeft(t) /\ Take([pc EXCEPT ![t] = "out"])
  /\ UNCHANGED <<byte, panic>>

(* intq_putc of b, when it is called and when it resumes after a wait. *)
Putc(t, b) ==
  /\ pc[t] = "out" \/ (pc[t] = "woken" /\ byte[t] = b)
  /\ byte' = [byte EXCEPT ![t] = b]
  /\ \/ MustWait(t) /\ WaitLoop(t)
     \/ ~ MustWait(t) /\ lock' = LockLeft(t) /\ Store(b, [pc EXCEPT ![t] = "out"])
  /\ UNCHANGED panic

(* A thread blocked in lock_acquire gets the lock and calls wait, which      *)
(* asserts that there is still something to wait for.                        *)
LockThenWait(t) ==
  /\ pc[t] = "lock"
  /\ lock = NULL
  /\ \/ MustWait(t) /\ Sleep(t) /\ UNCHANGED panic
     \/ /\ ~ MustWait(t)
        /\ panic' = TRUE
        /\ lock' = t
        /\ UNCHANGED <<queue, given, taken, not_empty, not_full, pc>>
  /\ UNCHANGED byte

(* Handlers put only when the queue is not full, and get only when it is not *)
(* empty.                                                                    *)
HandlerPut(b) ==
  /\ HandlerPuts /\ ~ intq_full
  /\ Store(b, pc)
  /\ UNCHANGED <<lock, byte, panic>>

HandlerGet ==
  /\ HandlerGets /\ ~ intq_empty
  /\ Take(pc)
  /\ UNCHANGED <<lock, byte, panic>>

(* serial_putc called with interrupts off does not wait: when the queue is   *)
(* full it first takes a byte out, and sends it by polling.                  *)
PutOff(b) ==
  /\ HandlerGets
  /\ \/ ~ intq_full /\ Store(b, pc)
     \/ /\ intq_full
        /\ taken' = buf[tail]
        /\ tail' = next(tail)
        /\ buf' = [buf EXCEPT ![head] = b]
        /\ head' = next(head)
        /\ given' = b
        /\ pc' = signal(not_empty, signal(not_full, pc))
        /\ not_full' = NULL /\ not_empty' = NULL
  /\ UNCHANGED <<lock, byte, panic>>

ThreadStep(t) ==
  \/ t \in Reader /\ Getc(t)
  \/ t \in Writer /\ \E b \in Byte : Putc(t, b)
  \/ LockThenWait(t)

Next ==
  /\ ~ panic
  /\ \/ \E t \in Thread : ThreadStep(t)
     \/ HandlerGet
     \/ \E b \in Byte : HandlerPut(b) \/ PutOff(b)

Spec == Init /\ [][Next]_vars

(* A thread inside a call that can run does; a device that can give a byte,  *)
(* or take one, does.                                                        *)
FairSpec ==
  /\ Spec
  /\ \A t \in Thread : WF_vars(pc[t] # "out" /\ ThreadStep(t) /\ ~ panic)
  /\ WF_vars(HandlerGet /\ ~ panic)
  /\ WF_vars(\E b \in Byte : HandlerPut(b) /\ ~ panic)
-----------------------------------------------------------------------------
(* Properties. *)

(* Every variable keeps its type; head and tail stay inside the buffer.       *)
TypeOK ==
  /\ buf \in [Pos -> Byte]
  /\ head \in Pos /\ tail \in Pos
  /\ not_full \in Writer \cup {NULL} /\ not_empty \in Reader \cup {NULL}
  /\ lock \in Thread \cup {NULL}
  /\ pc \in [Thread -> {"out", "lock", "wait", "woken"}]
  /\ byte \in [Writer -> Byte]
  /\ given \in Byte /\ taken \in Byte
  /\ panic \in BOOLEAN

(* A thread sleeps in wait only while it has something to wait for, and      *)
(* where signal will find it: no wakeup is lost between the test of the      *)
(* queue and thread_block, whoever changes the queue meanwhile.              *)
SleepsOnlyWhileItMust ==
  \A t \in Thread : pc[t] = "wait" =>
    /\ MustWait(t)
    /\ lock = t
    /\ t \in Reader => not_empty = t
    /\ t \in Writer => not_full = t

(* wait's assertion that the condition is still false holds: with one        *)
(* thread on the threads' side of the queue nothing can change it between    *)
(* the test and the wait.                                                    *)
NoPanic == ~ panic

(* The bytes inside, oldest first. *)
Count == (INTQ_BUFSIZE + head - tail) % INTQ_BUFSIZE
Contents == [i \in 1 .. Count |-> buf[(tail + i - 1) % INTQ_BUFSIZE]]

BQ == INSTANCE BoundedQueue WITH q <- Contents, Capacity <- INTQ_BUFSIZE - 1

(* The circular buffer implements a bounded first-in first-out queue: bytes  *)
(* leave in the order in which they came, none is lost or seen twice, at     *)
(* whatever point the buffer wraps around and whoever gets and puts.         *)
ImplementsBoundedQueue == BQ!Spec

(* A thread that sleeps in wait is unblocked sooner or later, if the device  *)
(* keeps giving, or taking, bytes.                                           *)
SleepersWake == \A t \in Thread : pc[t] = "wait" ~> pc[t] # "wait"
=============================================================================
