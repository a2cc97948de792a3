----------------------------- MODULE IntqProofs -----------------------------
(***************************************************************************)
(* Proofs about module Intq for a buffer of any size, any bytes and any    *)
(* threads: the invariants of the waiting threads, and that the circular   *)
(* buffer implements a bounded first-in first-out queue.                   *)
(***************************************************************************)
EXTENDS Intq, TLAPS

N == INTQ_BUFSIZE

(* The number N of positions is at least 2. *)
LEMMA NType == N \in Nat /\ N >= 2
  BY IntqAssumption, Zenon DEF N

(* Arithmetic modulo n of what at most one turn around the buffer reaches. *)
LEMMA ModSmall ==
  ASSUME NEW x \in Nat, NEW n \in Nat \ {0}, x < n
  PROVE  x % n = x
  OBVIOUS

LEMMA ModOnce ==
  ASSUME NEW x \in Nat, NEW n \in Nat \ {0}, n <= x, x < 2 * n
  PROVE  x % n = x - n
  OBVIOUS

(* next moves one position on and wraps around at the end. *)
LEMMA NextPos ==
  ASSUME NEW p \in Pos
  PROVE  /\ next(p) \in Pos
         /\ next(p) = IF p = N - 1 THEN 0 ELSE p + 1
<1>1. p \in Nat /\ p < N
  BY NType DEF Pos, N
<1>2. CASE p = N - 1
  <2>1. (p + 1) % N = (p + 1) - N
    BY <1>1, <1>2, NType, ModOnce
  <2> QED
    BY <1>2, <2>1, NType DEF next, Pos, N
<1>3. CASE p # N - 1
  <2>1. (p + 1) % N = p + 1
    BY <1>1, <1>3, NType, ModSmall
  <2> QED
    BY <1>1, <1>3, <2>1, NType DEF next, Pos, N
<1> QED
  BY <1>2, <1>3, Zenon
-----------------------------------------------------------------------------
(* The inductive invariant. *)

(* The lock belongs to the thread inside wait, or back from it and not yet   *)
(* running; the registered waiters are asleep in wait.                       *)
LockInv ==
  /\ \A t \in Thread : pc[t] \in {"wait", "woken"} => lock = t
  /\ ~ panic /\ lock # NULL => pc[lock] \in {"wait", "woken"}

WaiterInv ==
  /\ not_empty # NULL => pc[not_empty] = "wait"
  /\ not_full # NULL => pc[not_full] = "wait"

IInv == TypeOK /\ LockInv /\ WaiterInv /\ SleepsOnlyWhileItMust

LEMMA InitIInv == Init => IInv
<1> SUFFICES ASSUME Init PROVE IInv
  BY Zenon
<1>1. TypeOK
  <2>1. 0 \in Pos
    BY NType DEF Pos, N
  <2> QED
    BY <2>1, Zenon DEF Init, TypeOK
<1>2. LockInv /\ WaiterInv /\ SleepsOnlyWhileItMust
  BY Zenon DEF Init, LockInv, WaiterInv, SleepsOnlyWhileItMust
<1> QED
  BY <1>1, <1>2, Zenon DEF IInv

(* A thread that starts to sleep. *)
LEMMA SleepIInv ==
  ASSUME IInv, NEW t \in Thread, Sleep(t), MustWait(t),
         pc[t] \notin {"wait"},
         lock = NULL \/ lock = t,
         byte' \in [Writer -> Byte], UNCHANGED panic
  PROVE  IInv'
<1> USE DEF IInv, Thread
<1>1. TypeOK'
  BY IntqAssumption, Zenon DEF Sleep, TypeOK, queue
<1>2. LockInv'
  BY IntqAssumption, Zenon DEF Sleep, LockInv, TypeOK
<1>3. \A u \in Thread : u # t => pc[u] # "wait"
  BY IntqAssumption, Zenon DEF LockInv, TypeOK
<1>4. WaiterInv'
  BY IntqAssumption, <1>3, Zenon DEF Sleep, WaiterInv, TypeOK
<1>5. SleepsOnlyWhileItMust'
  BY IntqAssumption, <1>3, Zenon
  DEF Sleep, SleepsOnlyWhileItMust, TypeOK, queue, MustWait, intq_empty, intq_full, next
<1> QED
  BY <1>1, <1>2, <1>4, <1>5, Zenon

(* The program counters p and the lock that a caller of Take or Store leaves. *)
Left(p) ==
  /\ p \in [Thread -> {"out", "lock", "wait", "woken"}]
  /\ lock' \in Thread \cup {NULL}
  /\ \A u \in Thread : p[u] = "wait" <=> pc[u] = "wait"
  /\ \A u \in Thread : p[u] \in {"wait", "woken"} => lock' = u
  /\ ~ panic /\ lock' # NULL => p[lock'] \in {"wait", "woken"}

(* Unblocking the registered waiter keeps what Left says of the lock. *)
LEMMA SignalLeft ==
  ASSUME IInv, NEW p, Left(p), NEW w \in Thread \cup {NULL}, w # NULL => pc[w] = "wait"
  PROVE  /\ signal(w, p) \in [Thread -> {"out", "lock", "wait", "woken"}]
         /\ \A u \in Thread : signal(w, p)[u] = "wait" <=> (pc[u] = "wait" /\ u # w)
         /\ \A u \in Thread : signal(w, p)[u] \in {"wait", "woken"} => lock' = u
         /\ ~ panic /\ lock' # NULL => signal(w, p)[lock'] \in {"wait", "woken"}
  BY IntqAssumption, Zenon DEF signal, Left

LEMMA TakeIInv ==
  ASSUME IInv, NEW p, Left(p), Take(p), ~ intq_empty,
         byte' \in [Writer -> Byte], UNCHANGED panic
  PROVE  IInv'
<1> USE DEF IInv
<1>1. not_full # NULL => pc[not_full] = "wait"
  BY Zenon DEF WaiterInv
<1>2. not_full \in Thread \cup {NULL}
  BY Zenon DEF TypeOK, Thread
<1>3. /\ pc' \in [Thread -> {"out", "lock", "wait", "woken"}]
      /\ \A u \in Thread : pc'[u] = "wait" <=> (pc[u] = "wait" /\ u # not_full)
      /\ LockInv'
  BY <1>1, <1>2, SignalLeft DEF Take, LockInv
<1>4. TypeOK'
  BY <1>3, NextPos, Zenon DEF Take, TypeOK, Left
<1>5. \A u \in Thread : pc'[u] # "wait"
  BY <1>3, Zenon DEF SleepsOnlyWhileItMust, MustWait, Thread
<1>6. not_empty = NULL
  BY Zenon DEF WaiterInv, SleepsOnlyWhileItMust, MustWait, TypeOK, Thread
<1>7. WaiterInv' /\ SleepsOnlyWhileItMust'
  BY <1>5, <1>6, Zenon DEF WaiterInv, SleepsOnlyWhileItMust, Take
<1> QED
  BY <1>3, <1>4, <1>7, Zenon

LEMMA StoreIInv ==
  ASSUME IInv, NEW p, NEW b \in Byte, Left(p), Store(b, p), ~ intq_full,
         byte' \in [Writer -> Byte], UNCHANGED panic
  PROVE  IInv'
<1> USE DEF IInv
<1>1. not_empty # NULL => pc[not_empty] = "wait"
  BY Zenon DEF WaiterInv
<1>2. not_empty \in Thread \cup {NULL}
  BY Zenon DEF TypeOK, Thread
<1>3. /\ pc' \in [Thread -> {"out", "lock", "wait", "woken"}]
      /\ \A u \in Thread : pc'[u] = "wait" <=> (pc[u] = "wait" /\ u # not_empty)
      /\ LockInv'
  BY <1>1, <1>2, SignalLeft DEF Store, LockInv
<1>4. TypeOK'
  BY <1>3, NextPos, Zenon DEF Store, TypeOK, Left
<1>5. \A u \in Thread : pc'[u] # "wait"
  BY <1>3, IntqAssumption, Zenon DEF SleepsOnlyWhileItMust, MustWait, Thread
<1>6. not_full = NULL
  BY IntqAssumption, Zenon DEF WaiterInv, SleepsOnlyWhileItMust, MustWait, TypeOK, Thread
<1>7. WaiterInv' /\ SleepsOnlyWhileItMust'
  BY <1>5, <1>6, Zenon DEF WaiterInv, SleepsOnlyWhileItMust, Store
<1> QED
  BY <1>3, <1>4, <1>7, Zenon

(* What a thread that goes on leaves: it has released the lock if it had it. *)
LEMMA ThreadLeft ==
  ASSUME IInv, NEW t \in Thread, pc[t] \in {"out", "woken"}, lock' = LockLeft(t)
  PROVE  Left([pc EXCEPT ![t] = "out"])
  BY IntqAssumption, Zenon DEF IInv, LockInv, Left, LockLeft, TypeOK

(* A handler leaves threads and lock as they are. *)
LEMMA HandlerLeft ==
  ASSUME IInv, UNCHANGED lock
  PROVE  Left(pc)
  BY Zenon DEF IInv, LockInv, Left, TypeOK

(* A thread that must wait. *)
LEMMA WaitLoopIInv ==
  ASSUME IInv, NEW t \in Thread, pc[t] \in {"out", "woken"}, MustWait(t), WaitLoop(t),
         byte' \in [Writer -> Byte], UNCHANGED panic
  PROVE  IInv'
<1>1. CASE LockLeft(t) = NULL /\ Sleep(t)
  <2>1. lock = NULL \/ lock = t
    BY <1>1, Zenon DEF LockLeft, IInv, LockInv
  <2> QED
    BY <1>1, <2>1, SleepIInv, Zenon
<1>2. CASE /\ LockLeft(t) # NULL
           /\ pc' = [pc EXCEPT ![t] = "lock"]
           /\ UNCHANGED <<queue, given, taken, not_empty, not_full, lock>>
  <2>1. pc[t] = "out"
    BY <1>2, Zenon DEF LockLeft
  <2>2. TypeOK'
    BY <1>2, Zenon DEF IInv, TypeOK, queue
  <2>3. LockInv' /\ WaiterInv'
    BY <1>2, <2>1, Zenon DEF IInv, LockInv, WaiterInv, TypeOK, Thread
  <2>4. SleepsOnlyWhileItMust'
    BY <1>2, Zenon DEF IInv, SleepsOnlyWhileItMust, TypeOK, MustWait, intq_empty, intq_full, queue, next
  <2> QED
    BY <2>2, <2>3, <2>4, Zenon DEF IInv
<1> QED
  BY <1>1, <1>2, Zenon DEF WaitLoop

LEMMA LockThenWaitIInv ==
  ASSUME IInv, NEW t \in Thread, LockThenWait(t), ~ panic
  PROVE  IInv'
<1>1. byte' \in [Writer -> Byte]
  BY Zenon DEF LockThenWait, IInv, TypeOK
<1>2. CASE MustWait(t) /\ Sleep(t) /\ UNCHANGED panic
  BY <1>1, <1>2, SleepIInv, Zenon DEF LockThenWait
<1>3. CASE /\ panic' = TRUE
           /\ lock' = t
           /\ UNCHANGED <<queue, given, taken, not_empty, not_full, pc>>
  <2>1. \A u \in Thread : pc[u] \notin {"wait", "woken"}
    BY IntqAssumption, Zenon DEF LockThenWait, IInv, LockInv
  <2> QED
    BY <1>1, <1>3, <2>1, Zenon
    DEF IInv, TypeOK, LockInv, WaiterInv, SleepsOnlyWhileItMust, queue, Thread
<1> QED
  BY <1>2, <1>3, Zenon DEF LockThenWait

LEMMA PutOffIInv ==
  ASSUME IInv, NEW b \in Byte, PutOff(b)
  PROVE  IInv'
<1>1. Left(pc) /\ byte' \in [Writer -> Byte] /\ UNCHANGED panic
  BY HandlerLeft, Zenon DEF PutOff, IInv, TypeOK
<1>2. CASE ~ intq_full /\ Store(b, pc)
  BY <1>1, <1>2, StoreIInv, Zenon
<1>3. CASE /\ intq_full
           /\ tail' = next(tail)
           /\ taken' = buf[tail]
           /\ buf' = [buf EXCEPT ![head] = b]
           /\ head' = next(head)
           /\ given' = b
           /\ pc' = signal(not_empty, signal(not_full, pc))
           /\ not_full' = NULL /\ not_empty' = NULL
  <2>1. TypeOK'
    BY <1>1, <1>3, NextPos, Zenon DEF IInv, TypeOK, Left, signal
  <2>2. \A u \in Thread : pc'[u] # "wait"
    BY <1>3, Zenon DEF IInv, SleepsOnlyWhileItMust, signal, TypeOK, Thread
  <2>3. \A u \in Thread : pc'[u] = "woken" => pc[u] \in {"wait", "woken"}
    BY <1>3, IntqAssumption, Zenon DEF IInv, WaiterInv, signal, TypeOK, Thread
  <2>4. \A u \in Thread : pc[u] \in {"wait", "woken"} => pc'[u] = "woken"
    BY <1>3, IntqAssumption, <2>2, Zenon DEF IInv, WaiterInv, signal, TypeOK, Thread
  <2>5. LockInv'
    BY <1>1, <2>2, <2>3, <2>4 DEF IInv, LockInv, PutOff, TypeOK
  <2>6. WaiterInv' /\ SleepsOnlyWhileItMust'
    BY <1>3, <2>2, Zenon DEF WaiterInv, SleepsOnlyWhileItMust
  <2> QED
    BY <2>1, <2>5, <2>6, Zenon DEF IInv
<1> QED
  BY <1>2, <1>3, Zenon DEF PutOff

LEMMA NextIInv == IInv /\ [Next]_vars => IInv'
<1> SUFFICES ASSUME IInv, [Next]_vars PROVE IInv'
  BY Zenon
<1>1. ASSUME NEW t \in Thread, t \in Reader, Getc(t) PROVE IInv'
  <2>1. byte' \in [Writer -> Byte] /\ UNCHANGED panic
    BY <1>1, Zenon DEF Getc, IInv, TypeOK
  <2>2. CASE MustWait(t) /\ WaitLoop(t)
    BY <1>1, <2>1, <2>2, WaitLoopIInv, Zenon DEF Getc
  <2>3. CASE ~ MustWait(t) /\ lock' = LockLeft(t) /\ Take([pc EXCEPT ![t] = "out"])
    BY <1>1, <2>1, <2>3, TakeIInv, ThreadLeft, Zenon DEF Getc, MustWait
  <2> QED
    BY <1>1, <2>2, <2>3, Zenon DEF Getc
<1>2. ASSUME NEW t \in Thread, t \in Writer, NEW b \in Byte, Putc(t, b) PROVE IInv'
  <2>1. byte' \in [Writer -> Byte] /\ UNCHANGED panic
    BY <1>2, Zenon DEF Putc, IInv, TypeOK
  <2>2. CASE MustWait(t) /\ WaitLoop(t)
    BY <1>2, <2>1, <2>2, WaitLoopIInv, Zenon DEF Putc
  <2>3. CASE ~ MustWait(t) /\ lock' = LockLeft(t) /\ Store(b, [pc EXCEPT ![t] = "out"])
    <3>1. ~ intq_full
      BY <1>2, <2>3, IntqAssumption, Zenon DEF MustWait
    <3> QED
      BY <1>2, <2>1, <2>3, <3>1, StoreIInv, ThreadLeft, Zenon DEF Putc
  <2> QED
    BY <1>2, <2>2, <2>3, Zenon DEF Putc
<1>3. ASSUME NEW b \in Byte, HandlerPut(b) PROVE IInv'
  <2>1. byte' \in [Writer -> Byte] /\ UNCHANGED panic /\ Left(pc)
    BY <1>3, HandlerLeft, Zenon DEF HandlerPut, IInv, TypeOK
  <2> QED
    BY <1>3, <2>1, StoreIInv, Zenon DEF HandlerPut
<1>4. ASSUME HandlerGet PROVE IInv'
  <2>1. byte' \in [Writer -> Byte] /\ UNCHANGED panic /\ Left(pc)
    BY <1>4, HandlerLeft, Zenon DEF HandlerGet, IInv, TypeOK
  <2> QED
    BY <1>4, <2>1, TakeIInv, Zenon DEF HandlerGet
<1>5. CASE UNCHANGED vars
  BY <1>5, Zenon DEF vars, queue, IInv, TypeOK, LockInv, WaiterInv, SleepsOnlyWhileItMust,
              MustWait, intq_empty, intq_full, next
<1> QED
  BY <1>1, <1>2, <1>3, <1>4, <1>5, LockThenWaitIInv, PutOffIInv, Zenon DEF Next, ThreadStep

THEOREM Invariance == Spec => []IInv
  BY InitIInv, NextIInv, PTL DEF Spec

(* A thread sleeps in wait only while the queue is empty, or full, holding   *)
(* the queue's lock and registered as the waiter that signal wakes: for any  *)
(* buffer size, any threads and any interrupt handler.                       *)
THEOREM NoWakeupIsLost == Spec => []SleepsOnlyWhileItMust
<1>1. IInv => SleepsOnlyWhileItMust
  BY Zenon DEF IInv
<1> QED
  BY <1>1, Invariance, PTL

(* With one thread on the threads' side the assertion in wait holds: the     *)
(* thread never finds the lock taken, so that its test of the queue and its  *)
(* call of wait are one step.                                                *)
THEOREM OneThreadNeverPanics ==
  ASSUME \A t, u \in Thread : t = u
  PROVE  Spec => []NoPanic
<1> DEFINE J == IInv /\ NoPanic /\ \A t \in Thread : pc[t] # "lock"
<1>1. Init => J
  BY InitIInv, Zenon DEF Init, NoPanic
<1>2. J /\ [Next]_vars => J'
  <2> SUFFICES ASSUME J, [Next]_vars PROVE J'
    BY Zenon
  <2>1. IInv'
    BY NextIInv, Zenon
  <2>2. \A t \in Thread : pc[t] = "out" => lock = NULL
    BY Zenon DEF IInv, LockInv, NoPanic, TypeOK
  <2>3. \A t \in Thread : ~ LockThenWait(t)
    BY Zenon DEF LockThenWait
  <2>4. UNCHANGED panic
    BY <2>3, Zenon DEF vars, Next, ThreadStep, Getc, Putc, HandlerPut, HandlerGet, PutOff
  <2>5. ASSUME NEW t \in Thread PROVE pc'[t] # "lock"
    <3>1. ASSUME NEW u \in Thread, pc[u] \in {"out", "woken"}, WaitLoop(u) PROVE pc'[t] # "lock"
      <4>1. LockLeft(u) = NULL
        BY <2>2, <3>1, Zenon DEF LockLeft
      <4> QED
        BY <3>1, <4>1, <2>5, Zenon DEF WaitLoop, Sleep, IInv, TypeOK
    <3>2. ASSUME NEW p, \A u \in Thread : p[u] # "lock", NEW w, pc' = signal(w, p)
          PROVE  pc'[t] # "lock"
      BY <3>2, <2>5, Zenon DEF signal
    <3>3. \A u \in Thread : \A v \in Thread : [pc EXCEPT ![u] = "out"][v] # "lock"
      BY Zenon DEF IInv, TypeOK
    <3>4. \A w : \A u \in Thread : signal(w, pc)[u] # "lock"
      BY Zenon DEF signal
    <3>5. ASSUME NEW u \in Thread, ThreadStep(u) PROVE pc'[t] # "lock"
      BY <3>5, <2>3, <3>1, <3>2, <3>3, Zenon DEF ThreadStep, Getc, Putc, Take, Store
    <3>6. ASSUME HandlerGet \/ \E b \in Byte : HandlerPut(b) \/ PutOff(b) PROVE pc'[t] # "lock"
      BY <3>6, <3>2, <3>4, Zenon DEF HandlerGet, HandlerPut, PutOff, Take, Store
    <3>7. CASE UNCHANGED vars
      BY <3>7, <2>5, Zenon DEF vars
    <3> QED
      BY <3>5, <3>6, <3>7, Zenon DEF Next
  <2> QED
    BY <2>1, <2>4, <2>5, Zenon DEF NoPanic
<1>3. J => NoPanic
  BY Zenon
<1> HIDE DEF J
<1> QED
  BY <1>1, <1>2, <1>3, PTL DEF Spec
-----------------------------------------------------------------------------
(* Refinement of the bounded queue. *)

(* The number of bytes in a buffer with head h and tail t, and the position  *)
(* of the i-th of them.                                                      *)
CountOf(h, t) == IF h >= t THEN h - t ELSE N + h - t
At(t, i) == IF t + i - 1 < N THEN t + i - 1 ELSE t + i - 1 - N

LEMMA ModTurn == \A x \in Nat : N <= x /\ x < 2 * N => x % N = x - N
<1> TAKE x \in Nat
<1> HAVE N <= x /\ x < 2 * N
<1> QED
  BY NType, ModOnce

LEMMA CountIs ==
  ASSUME NEW h \in Pos, NEW t \in Pos
  PROVE  /\ (INTQ_BUFSIZE + h - t) % INTQ_BUFSIZE = CountOf(h, t)
         /\ CountOf(h, t) \in 0 .. N - 1
<1>1. h \in Nat /\ t \in Nat /\ h < N /\ t < N /\ N \in Nat \ {0}
  BY NType DEF Pos, N
<1>2. CASE h >= t
  <2>0. N + h - t \in Nat /\ N <= N + h - t /\ N + h - t < 2 * N
    BY <1>1, <1>2
  <2>1. (N + h - t) % N = N + h - t - N
    BY <1>1, <2>0, ModTurn
  <2> QED
    BY <1>1, <1>2, <2>1 DEF CountOf, N
<1>3. CASE h < t
  <2>1. (N + h - t) % N = N + h - t
    BY <1>1, <1>3, ModSmall
  <2> QED
    BY <1>1, <1>3, <2>1 DEF CountOf, N
<1> QED
  BY <1>1, <1>2, <1>3

LEMMA AtIs ==
  ASSUME NEW t \in Pos, NEW i \in 1 .. N
  PROVE  (t + i - 1) % INTQ_BUFSIZE = At(t, i) /\ At(t, i) \in Pos
<1>1. t \in Nat /\ t < N /\ N \in Nat \ {0} /\ t + i - 1 \in Nat /\ t + i - 1 < 2 * N
  BY NType DEF Pos, N
<1>2. CASE t + i - 1 < N
  <2>1. (t + i - 1) % N = t + i - 1
    BY <1>1, <1>2, ModSmall, Zenon
  <2> QED
    BY <1>1, <1>2, <2>1 DEF At, N, Pos
<1>3. CASE N <= t + i - 1
  <2>1. (t + i - 1) % N = t + i - 1 - N
    BY <1>1, <1>3, ModTurn
  <2> QED
    BY <1>1, <1>3, <2>1 DEF At, N, Pos
<1> QED
  BY <1>1, <1>2, <1>3

(* The mapped queue is a sequence of Count bytes. *)
LEMMA ContentsIs ==
  ASSUME TypeOK
  PROVE  /\ Contents = [i \in 1 .. CountOf(head, tail) |-> buf[At(tail, i)]]
         /\ Contents \in Seq(Byte)
         /\ Len(Contents) = CountOf(head, tail)
<1>1. Count = CountOf(head, tail) /\ CountOf(head, tail) \in 0 .. N - 1
  BY CountIs, Zenon DEF TypeOK, Count
<1>2. \A i \in 1 .. CountOf(head, tail) : i \in 1 .. N
  BY <1>1, NType
<1>3. \A i \in 1 .. CountOf(head, tail) :
        (tail + i - 1) % INTQ_BUFSIZE = At(tail, i) /\ At(tail, i) \in Pos
  BY <1>2, AtIs, Zenon DEF TypeOK
<1>4. Contents = [i \in 1 .. CountOf(head, tail) |-> buf[At(tail, i)]]
  BY <1>1, <1>3, Zenon DEF Contents
<1>5. \A i \in 1 .. CountOf(head, tail) : buf[At(tail, i)] \in Byte
  BY <1>3, Zenon DEF TypeOK
<1> QED
  BY <1>1, <1>4, <1>5, NType

(* Empty and full in terms of the count. *)
LEMMA EmptyFull ==
  ASSUME TypeOK
  PROVE  /\ intq_empty <=> CountOf(head, tail) = 0
         /\ intq_full <=> CountOf(head, tail) = N - 1
<1>1. head \in Nat /\ tail \in Nat /\ head < N /\ tail < N /\ N \in Nat
  BY NType DEF TypeOK, Pos, N
<1>2. next(head) = IF head = N - 1 THEN 0 ELSE head + 1
  BY NextPos, Zenon DEF TypeOK
<1> QED
  BY <1>1, <1>2, NType DEF intq_empty, intq_full, CountOf

(* Removing the byte at the tail is removing the first of the queue. *)
LEMMA TakeContents ==
  ASSUME TypeOK, TypeOK', ~ intq_empty,
         buf' = buf, head' = head, tail' = next(tail)
  PROVE  Contents # <<>> /\ Head(Contents) = buf[tail] /\ Contents' = Tail(Contents)
<1> DEFINE c == CountOf(head, tail)
<1>1. head \in Nat /\ tail \in Nat /\ head < N /\ tail < N /\ N \in Nat
  BY NType DEF TypeOK, Pos, N
<1>2. next(tail) = IF tail = N - 1 THEN 0 ELSE tail + 1
  BY NextPos, Zenon DEF TypeOK
<1>3. c \in Nat /\ 1 <= c /\ c < N /\ CountOf(head, next(tail)) = c - 1
  BY <1>1, <1>2, NType DEF CountOf, intq_empty
<1>4. \A i \in 1 .. c - 1 : At(next(tail), i) = At(tail, i + 1)
  BY <1>1, <1>2, <1>3 DEF At
<1>5. At(tail, 1) = tail
  BY <1>1 DEF At
<1>6. /\ Contents = [i \in 1 .. c |-> buf[At(tail, i)]]
      /\ Contents \in Seq(Byte) /\ Len(Contents) = c
  BY ContentsIs, Zenon
<1>7. (Contents = [i \in 1 .. CountOf(head, tail) |-> buf[At(tail, i)]])'
  BY ContentsIs, PTL
<1>8. Contents' = [i \in 1 .. c - 1 |-> buf[At(next(tail), i)]]
  BY <1>3, <1>7, Zenon DEF CountOf, At
<1> HIDE DEF c
<1>9. Contents' = [i \in 1 .. c - 1 |-> Contents[i + 1]]
  BY <1>3, <1>4, <1>6, <1>8
<1>10. Tail(Contents) = [i \in 1 .. c - 1 |-> Contents[i + 1]]
  BY <1>3, <1>6
<1> QED
  BY <1>3, <1>5, <1>6, <1>9, <1>10

(* Storing a byte at the head is appending it to the queue. *)
LEMMA StoreContents ==
  ASSUME TypeOK, TypeOK', NEW b \in Byte, ~ intq_full,
         buf' = [buf EXCEPT ![head] = b], head' = next(head), tail' = tail
  PROVE  Len(Contents) < N - 1 /\ Contents' = Append(Contents, b)
<1> DEFINE c == CountOf(head, tail)
<1>1. head \in Nat /\ tail \in Nat /\ head < N /\ tail < N /\ N \in Nat
  BY NType DEF TypeOK, Pos, N
<1>2. next(head) = IF head = N - 1 THEN 0 ELSE head + 1
  BY NextPos, Zenon DEF TypeOK
<1>3. c \in Nat /\ c < N - 1 /\ CountOf(next(head), tail) = c + 1
  BY <1>1, <1>2, NType DEF CountOf, intq_full
<1>4. At(tail, c + 1) = head /\ \A i \in 1 .. c : At(tail, i) # head
  BY <1>1, <1>3 DEF At, CountOf
<1>5. /\ Contents = [i \in 1 .. c |-> buf[At(tail, i)]]
      /\ Contents \in Seq(Byte) /\ Len(Contents) = c
  BY ContentsIs, Zenon
<1>6. (Contents = [i \in 1 .. CountOf(head, tail) |-> buf[At(tail, i)]])'
  BY ContentsIs, PTL
<1>7. Contents' = [i \in 1 .. c + 1 |-> [buf EXCEPT ![head] = b][At(tail, i)]]
  BY <1>3, <1>6 DEF CountOf, At
<1>8. \A i \in 1 .. c + 1 : At(tail, i) \in Pos
  BY <1>1, <1>3, AtIs DEF TypeOK
<1> HIDE DEF c
<1>9. \A i \in 1 .. c + 1 :
        [buf EXCEPT ![head] = b][At(tail, i)] = IF i = c + 1 THEN b ELSE Contents[i]
  BY <1>3, <1>4, <1>5, <1>8 DEF TypeOK
<1>10. Contents' = [i \in 1 .. c + 1 |-> IF i = c + 1 THEN b ELSE Contents[i]]
  BY <1>7, <1>9, Zenon
<1>11. Append(Contents, b) = [i \in 1 .. c + 1 |-> IF i = c + 1 THEN b ELSE Contents[i]]
  BY <1>3, <1>5
<1> QED
  BY <1>3, <1>5, <1>10, <1>11, Zenon

(* Sequences: what Append is, element by element. *)
LEMMA AppendIs ==
  ASSUME NEW S, NEW r \in Seq(S), NEW b \in S, NEW m \in Nat, Len(r) = m
  PROVE  Append(r, b) = [i \in 1 .. m + 1 |-> IF i = m + 1 THEN b ELSE r[i]]
<1>1. Append(r, b) \in Seq(S) /\ Len(Append(r, b)) = m + 1
  OBVIOUS
<1>2. \A i \in 1 .. m + 1 : Append(r, b)[i] = IF i = m + 1 THEN b ELSE r[i]
  OBVIOUS
<1>3. \A q \in Seq(S) : q = [i \in 1 .. Len(q) |-> q[i]]
  OBVIOUS
<1>4. Append(r, b) = [i \in 1 .. m + 1 |-> Append(r, b)[i]]
  BY <1>1, <1>3, Zenon
<1> QED
  BY <1>2, <1>4, Zenon

(* Sequences: one element leaves at the front, another one comes at the end. *)
LEMMA TailAppend ==
  ASSUME NEW S, NEW s \in Seq(S), NEW b \in S, NEW n \in Nat, n >= 1, Len(s) = n
  PROVE  Append(Tail(s), b) = [i \in 1 .. n |-> IF i = n THEN b ELSE s[i + 1]]
<1>1. Tail(s) \in Seq(S) /\ Len(Tail(s)) = n - 1
  OBVIOUS
<1>2. \A i \in 1 .. n - 1 : Tail(s)[i] = s[i + 1]
  OBVIOUS
<1>4. Append(Tail(s), b) = [i \in 1 .. n |-> IF i = n THEN b ELSE Tail(s)[i]]
  <2>1. PICK m \in Nat : m = n - 1
    OBVIOUS
  <2>2. n = m + 1 /\ Len(Tail(s)) = m
    BY <1>1, <2>1
  <2> DEFINE t == Tail(s)
  <2>3. t \in Seq(S) /\ Len(t) = m
    BY <1>1, <2>2, Zenon
  <2> HIDE DEF t
  <2>4. Append(t, b) = [i \in 1 .. m + 1 |-> IF i = m + 1 THEN b ELSE t[i]]
    BY <2>3, AppendIs
  <2> QED
    BY <2>2, <2>4, Zenon DEF t
<1>5. \A i \in 1 .. n : i # n => Tail(s)[i] = s[i + 1]
  BY <1>2
<1> QED
  BY <1>4, <1>5, Zenon

(* A full buffer that gives up its first byte and takes another one. *)
LEMMA ReplaceContents ==
  ASSUME TypeOK, TypeOK', NEW b \in Byte, intq_full,
         buf' = [buf EXCEPT ![head] = b], head' = next(head), tail' = next(tail)
  PROVE  /\ Contents # <<>> /\ Head(Contents) = buf[tail]
         /\ Contents' = Append(Tail(Contents), b)
<1>1. head \in Nat /\ tail \in Nat /\ head < N /\ tail < N /\ N \in Nat /\ N >= 2
  BY NType DEF TypeOK, Pos, N
<1>2. /\ next(head) = IF head = N - 1 THEN 0 ELSE head + 1
      /\ next(tail) = IF tail = N - 1 THEN 0 ELSE tail + 1
  BY NextPos, Zenon DEF TypeOK
<1>3. CountOf(head, tail) = N - 1 /\ CountOf(next(head), next(tail)) = N - 1
  BY <1>1, <1>2 DEF CountOf, intq_full
<1>4. \A i \in 1 .. N - 2 : At(next(tail), i) = At(tail, i + 1) /\ At(tail, i + 1) # head
  BY <1>1, <1>2 DEF At, intq_full
<1>5. At(tail, 1) = tail /\ At(next(tail), N - 1) = head
  BY <1>1, <1>2 DEF At, intq_full
<1>6. /\ Contents = [i \in 1 .. N - 1 |-> buf[At(tail, i)]]
      /\ Contents \in Seq(Byte) /\ Len(Contents) = N - 1
  BY <1>3, ContentsIs, Zenon
<1>7. (Contents = [i \in 1 .. CountOf(head, tail) |-> buf[At(tail, i)]])'
  BY ContentsIs, PTL
<1>8. Contents' = [i \in 1 .. N - 1 |-> [buf EXCEPT ![head] = b][At(next(tail), i)]]
  BY <1>3, <1>7 DEF CountOf, At
<1>9. \A i \in 1 .. N - 1 : At(next(tail), i) \in Pos
  BY <1>1, AtIs, NextPos DEF TypeOK
<1>10. \A i \in 1 .. N - 1 :
         [buf EXCEPT ![head] = b][At(next(tail), i)] = IF i = N - 1 THEN b ELSE Contents[i + 1]
  BY <1>1, <1>4, <1>5, <1>6, <1>9 DEF TypeOK
<1>11. Contents' = [i \in 1 .. N - 1 |-> IF i = N - 1 THEN b ELSE Contents[i + 1]]
  BY <1>8, <1>10, Zenon
<1>12. Append(Tail(Contents), b) = [i \in 1 .. N - 1 |-> IF i = N - 1 THEN b ELSE Contents[i + 1]]
  <2>1. Contents \in Seq(Byte) /\ b \in Byte /\ N - 1 \in Nat /\ N - 1 >= 1
    BY <1>1, <1>6
  <2> QED
    BY ONLY <1>6, <2>1, TailAppend
<1>13. Contents # <<>> /\ Head(Contents) = Contents[1]
  BY ONLY <1>1, <1>6
<1>14. Contents[1] = buf[At(tail, 1)]
  BY <1>1, <1>6
<1> QED
  BY <1>5, <1>11, <1>12, <1>13, <1>14, Zenon

(* The circular buffer of intq.c implements a bounded first-in first-out     *)
(* queue of capacity INTQ_BUFSIZE - 1, for every buffer size, all bytes, any *)
(* threads and any interrupt handler.                                        *)
THEOREM QueueRefinement == Spec => ImplementsBoundedQueue
<1>1. Init => BQ!Init
  <2> SUFFICES ASSUME Init PROVE BQ!Init
    BY Zenon
  <2>1. TypeOK
    BY InitIInv, Zenon DEF IInv
  <2>2. CountOf(head, tail) = 0
    BY <2>1, EmptyFull, Zenon DEF Init, intq_empty
  <2> QED
    BY <2>1, <2>2, ContentsIs DEF Init, BQ!Init
<1>2. IInv /\ IInv' /\ [Next]_vars => [BQ!Next]_<<Contents, given, taken>>
  <2> SUFFICES ASSUME IInv, IInv', [Next]_vars PROVE [BQ!Next]_<<Contents, given, taken>>
    BY Zenon
  <2>1. TypeOK /\ TypeOK'
    BY Zenon DEF IInv
  <2>2. ASSUME NEW p, Take(p), ~ intq_empty PROVE BQ!Get
    BY <2>1, <2>2, TakeContents, Zenon DEF Take, BQ!Get
  <2>3. ASSUME NEW p, NEW b \in Byte, Store(b, p), ~ intq_full PROVE BQ!Put(b)
    BY <2>1, <2>3, StoreContents, Zenon DEF Store, BQ!Put, N
  <2>4. ASSUME UNCHANGED <<queue, given, taken>> PROVE UNCHANGED <<Contents, given, taken>>
    BY <2>4, Zenon DEF queue, Contents, Count
  <2>5. ASSUME NEW t \in Thread, ThreadStep(t) PROVE [BQ!Next]_<<Contents, given, taken>>
    <3>1. ASSUME Sleep(t) \/ WaitLoop(t) PROVE UNCHANGED <<queue, given, taken>>
      BY <3>1, Zenon DEF Sleep, WaitLoop
    <3>2. LockThenWait(t) => UNCHANGED <<queue, given, taken>>
      BY <3>1, Zenon DEF LockThenWait
    <3>3. t \in Writer => (MustWait(t) <=> intq_full)
      BY IntqAssumption, Zenon DEF MustWait
    <3>4. t \in Reader => (MustWait(t) <=> intq_empty)
      BY Zenon DEF MustWait
    <3>5. t \in Reader /\ Getc(t) => BQ!Get \/ UNCHANGED <<queue, given, taken>>
      BY <2>2, <3>1, <3>4, Zenon DEF Getc
    <3>6. ASSUME t \in Writer, NEW b \in Byte, Putc(t, b)
          PROVE  BQ!Put(b) \/ UNCHANGED <<queue, given, taken>>
      BY <2>3, <3>1, <3>3, <3>6, Zenon DEF Putc
    <3> QED
      BY <2>4, <2>5, <3>2, <3>5, <3>6, Zenon DEF ThreadStep, BQ!Next
  <2>6. ASSUME NEW b \in Byte, PutOff(b) PROVE BQ!Next
    <3>1. CASE ~ intq_full /\ Store(b, pc)
      BY <2>3, <3>1, Zenon DEF BQ!Next
    <3>2. CASE ~ (~ intq_full /\ Store(b, pc))
      BY <2>1, <2>6, <3>2, ReplaceContents, Zenon DEF PutOff, BQ!Next, BQ!Replace
    <3> QED
      BY <3>1, <3>2, Zenon
  <2>7. HandlerGet => BQ!Next
    BY <2>2, Zenon DEF HandlerGet, BQ!Next
  <2>8. ASSUME NEW b \in Byte, HandlerPut(b) PROVE BQ!Next
    BY <2>3, <2>8, Zenon DEF HandlerPut, BQ!Next
  <2>9. UNCHANGED vars => UNCHANGED <<Contents, given, taken>>
    BY <2>4, Zenon DEF vars, queue
  <2> QED
    BY <2>5, <2>6, <2>7, <2>8, <2>9, Zenon DEF Next
<1> QED
  BY <1>1, <1>2, Invariance, PTL DEF Spec, ImplementsBoundedQueue, BQ!Spec
=============================================================================
