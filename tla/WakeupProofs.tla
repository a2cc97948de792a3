--------------------------- MODULE WakeupProofs ---------------------------
(***************************************************************************)
(* Nobody is lost and no wakeup is: NoThreadLost and NoLostWakeup of       *)
(* module Threads, for any number of threads, semaphores, locks and        *)
(* condition variables.  Every step is of one of four kinds (a thread goes *)
(* to sleep on a semaphore, takes a unit of one, ups one, or does none of  *)
(* these), and each kind preserves both.                                   *)
(***************************************************************************)
EXTENDS ThreadsProofs, FiniteSetTheorems

(* A thread under creation stays under creation until it is unblocked. *)
CreatorsKept ==
  \A u \in Thread : CreatorAt(u) =>
    (CreatorAt(u)' /\ peer'[u] = peer[u]) \/ status'[peer[u]] # "BLOCKED"

(* Thread t goes to sleep on s. *)
SleepStep(t, s) ==
  /\ value[s] = 0 /\ UNCHANGED value
  /\ \A x \in AllSema, u \in Thread :
       In(u, waiters'[x]) <=> In(u, waiters[x]) \/ (x = s /\ u = t)
  /\ \A x \in AllSema : x # s => waiters'[x] = waiters[x]
  /\ \A x \in AllSema, u \in Thread : u \in Woken(x) => u \in Woken(x)' \/ (u = t /\ x = s)
  /\ \A u \in Thread : status'[u] = "BLOCKED" => status[u] = "BLOCKED" \/ u = t
  /\ CreatorsKept
  /\ UNCHANGED idle_thread

(* Thread t takes a unit of s. *)
TakeStep(t, s) ==
  /\ value[s] > 0 /\ value' = [value EXCEPT ![s] = @ - 1]
  /\ \A x \in AllSema, u \in Thread : u \in Woken(x) => u \in Woken(x)' \/ (u = t /\ x = s)
  /\ CreatorsKept
  /\ UNCHANGED <<idle_thread, waiters, status>>

(* Somebody ups s. *)
WakeStep(s) ==
  /\ value' = [value EXCEPT ![s] = @ + 1]
  /\ \A x \in AllSema, u \in Thread : u \in Woken(x) => u \in Woken(x)'
  /\ \/ waiters[s] = <<>> /\ UNCHANGED <<waiters, status>>
     \/ \E h \in Thread :
          /\ h \notin Woken(s) /\ h \in Woken(s)'
          /\ \A x \in AllSema, u \in Thread :
               In(u, waiters[x]) => In(u, waiters'[x]) \/ u = h
          /\ waiters[s] # <<>>
          /\ \A x \in AllSema : x # s => waiters'[x] = waiters[x]
          /\ \A u \in Thread : status'[u] = "BLOCKED" => status[u] = "BLOCKED" /\ u # h
  /\ CreatorsKept
  /\ UNCHANGED idle_thread

(* No thread sleeps on a semaphore or is woken, nor does a semaphore on      *)
(* which somebody sleeps change.                                             *)
QuietStep ==
  /\ UNCHANGED waiters
  /\ \A x \in AllSema : waiters[x] # <<>> => value'[x] = value[x]
  /\ \A x \in AllSema, u \in Thread : u \in Woken(x) => u \in Woken(x)'
  /\ \A u \in Thread : status'[u] = "BLOCKED" =>
       status[u] = "BLOCKED" \/ Creating(u)' \/ u = idle_thread'
  /\ CreatorsKept
  /\ idle_thread' = idle_thread \/ idle_thread = NULL

Kind == \/ \E t \in Thread, s \in AllSema : SleepStep(t, s) \/ TakeStep(t, s)
        \/ \E s \in AllSema : WakeStep(s)
        \/ QuietStep
-----------------------------------------------------------------------------
(* What each kind of step preserves. *)

LEMMA CreatingIsCreator ==
  ASSUME NEW u \in Thread
  PROVE  Creating(u) <=> \E t \in Thread : CreatorAt(t) /\ peer[t] = u
  BY Zenon DEF Creating, CreatorAt

(* The blocked threads' half of NoThreadLost. *)
BlockedFound ==
  \A t \in Thread : status[t] = "BLOCKED" =>
    t = idle_thread \/ Creating(t) \/ \E s \in AllSema : In(t, waiters[s])

LEMMA KindBlockedFound ==
  ASSUME IInv, BlockedFound, Kind
  PROVE  BlockedFound'
  <1> SUFFICES ASSUME NEW u \in Thread, status'[u] = "BLOCKED"
               PROVE  u = idle_thread' \/ Creating(u)' \/ \E x \in AllSema : In(u, waiters'[x])
    BY Zenon DEF BlockedFound, AllSema
  <1>1. ASSUME CreatorsKept, Creating(u) PROVE Creating(u)'
    <2>1. PICK t \in Thread : CreatorAt(t) /\ peer[t] = u
      BY <1>1, CreatingIsCreator, Zenon
    <2>2. CreatorAt(t)' /\ peer'[t] = u
      BY <1>1, <2>1, Zenon DEF CreatorsKept
    <2>3. QED
      BY <2>2, Zenon DEF Creating, CreatorAt
  <1>2. ASSUME NEW t \in Thread, NEW s \in AllSema, SleepStep(t, s)
        PROVE  u = idle_thread' \/ Creating(u)' \/ \E x \in AllSema : In(u, waiters'[x])
    <2>1. CASE u = t
      BY <1>2, <2>1, Zenon DEF SleepStep
    <2>2. CASE u # t
      BY <1>1, <1>2, <2>2, Zenon DEF SleepStep, BlockedFound
    <2>3. QED
      BY <2>1, <2>2, Zenon
  <1>3. ASSUME NEW t \in Thread, NEW s \in AllSema, TakeStep(t, s)
        PROVE  u = idle_thread' \/ Creating(u)' \/ \E x \in AllSema : In(u, waiters'[x])
    BY <1>1, <1>3, Zenon DEF TakeStep, BlockedFound
  <1>4. ASSUME NEW s \in AllSema, WakeStep(s)
        PROVE  u = idle_thread' \/ Creating(u)' \/ \E x \in AllSema : In(u, waiters'[x])
    BY <1>1, <1>4, Zenon DEF WakeStep, BlockedFound
  <1>5. CASE QuietStep
    BY <1>1, <1>5, ThreadsAssumption, Zenon DEF QuietStep, BlockedFound
  <1>6. QED
    BY <1>2, <1>3, <1>4, <1>5, Zenon DEF Kind

LEMMA WokenFinite ==
  ASSUME NEW s
  PROVE  IsFiniteSet(Woken(s)) /\ Cardinality(Woken(s)) \in Nat
  BY FiniteMemory, FS_Subset, FS_CardinalityType, Zenon DEF Woken

LEMMA WokenFinitePrime ==
  ASSUME NEW s
  PROVE  IsFiniteSet(Woken(s)') /\ Cardinality(Woken(s)') \in Nat
  <1>1. Woken(s)' \subseteq Thread
    BY Zenon DEF Woken
  <1>2. QED
    BY <1>1, FiniteMemory, FS_Subset, FS_CardinalityType, Zenon

LEMMA KindNoLostWakeup ==
  ASSUME IInv, NoLostWakeup, Kind
  PROVE  NoLostWakeup'
  <1> USE DEF NoLostWakeup
  <1>0. value \in [AllSema -> Nat] /\ waiters \in [AllSema -> Seq(Thread)]
    BY Zenon DEF IInv, TypeOK
  <1> SUFFICES ASSUME NEW x \in AllSema, waiters'[x] # <<>>
               PROVE  value'[x] <= Cardinality(Woken(x)')
    BY Zenon DEF AllSema
  <1> DEFINE W  == Woken(x)
             Wp == Woken(x)'
  <1>1. /\ IsFiniteSet(W) /\ Cardinality(W) \in Nat
        /\ IsFiniteSet(Wp) /\ Cardinality(Wp) \in Nat
        /\ W \subseteq Thread
    BY WokenFinite, WokenFinitePrime, Zenon DEF Woken
  <1> HIDE DEF W, Wp
  <1>2. ASSUME W \subseteq Wp, waiters[x] # <<>>, value'[x] = value[x]
        PROVE  value'[x] <= Cardinality(Wp)
    <2>1. Cardinality(W) <= Cardinality(Wp)
      BY <1>1, <1>2, FS_Subset, Zenon
    <2>2. value[x] <= Cardinality(W) /\ value[x] \in Nat
      BY <1>0, <1>2, Zenon DEF W
    <2>3. QED
      BY <1>1, <1>2, <2>1, <2>2
  <1>3. ASSUME NEW t \in Thread, NEW s \in AllSema, SleepStep(t, s)
        PROVE  value'[x] <= Cardinality(Wp)
    <2>1. CASE x = s
      BY <1>1, <1>3, <2>1 DEF SleepStep
    <2>2. CASE x # s
      BY <1>1, <1>2, <1>3, <2>2, Zenon DEF SleepStep, W, Wp
    <2>3. QED
      BY <2>1, <2>2, Zenon
  <1>4. ASSUME NEW t \in Thread, NEW s \in AllSema, TakeStep(t, s)
        PROVE  value'[x] <= Cardinality(Wp)
    <2>1. CASE x = s
      <3>1. value[x] <= Cardinality(W) /\ value[x] \in Nat /\ value'[x] = value[x] - 1
        BY <1>0, <1>4, <2>1, Zenon DEF TakeStep, W
      <3>2. W \ {t} \subseteq Wp
        BY <1>1, <1>4, Zenon DEF TakeStep, W, Wp
      <3>3. /\ Cardinality(W \ {t}) <= Cardinality(Wp)
            /\ Cardinality(W \ {t}) \in Nat
            /\ Cardinality(W \ {t}) >= Cardinality(W) - 1
        BY <1>1, <3>2, FS_Subset, FS_RemoveElement, FS_CardinalityType
      <3>4. QED
        BY <1>1, <3>1, <3>3
    <2>2. CASE x # s
      BY <1>0, <1>1, <1>2, <1>4, <2>2, Zenon DEF TakeStep, W, Wp
    <2>3. QED
      BY <2>1, <2>2, Zenon
  <1>5. ASSUME NEW s \in AllSema, WakeStep(s)
        PROVE  value'[x] <= Cardinality(Wp)
    <2>0. W \subseteq Wp
      BY <1>1, <1>5, Zenon DEF WakeStep, W, Wp
    <2>1. CASE x = s
      <3>1. PICK h \in Thread : h \notin W /\ h \in Wp /\ waiters[s] # <<>>
        BY <1>5, <2>1, Zenon DEF WakeStep, W, Wp
      <3>2. value[x] <= Cardinality(W) /\ value[x] \in Nat /\ value'[x] = value[x] + 1
        BY <1>0, <1>5, <2>1, <3>1, Zenon DEF WakeStep, W
      <3>3. W \cup {h} \subseteq Wp
        BY <2>0, <3>1, Zenon
      <3>4. Cardinality(W \cup {h}) = Cardinality(W) + 1
        BY <1>1, <3>1, FS_AddElement, Zenon
      <3>5. Cardinality(W \cup {h}) <= Cardinality(Wp)
        BY <1>1, <3>3, FS_Subset, Zenon
      <3>6. QED
        BY <1>1, <3>2, <3>4, <3>5
    <2>2. CASE x # s
      BY <1>0, <1>2, <1>5, <2>0, <2>2, Zenon DEF WakeStep
    <2>3. QED
      BY <2>1, <2>2, Zenon
  <1>6. CASE QuietStep
    BY <1>1, <1>2, <1>6, Zenon DEF QuietStep, W, Wp
  <1>7. QED
    BY <1>3, <1>4, <1>5, <1>6, Zenon DEF Kind, Wp
-----------------------------------------------------------------------------
(* Every step is of one of these kinds. *)

(* A thread that stays where it is and awake is still there. *)
LEMMA WokenSame ==
  ASSUME NEW u \in Thread, NEW x, u \in Woken(x), pc'[u] = pc[u], obj'[u] = obj[u],
         status'[u] \in {"READY", "RUNNING"}
  PROVE  u \in Woken(x)'
  BY WaitsInSame, Zenon DEF Woken

(* One turn of sema_down's loop. *)
LEMMA DownKind ==
  ASSUME IInv, NEW t \in Thread, t = current, pc[t] \notin StartLabel,
         NEW s \in AllSema, NEW o \in AllSema \cup Cond,
         NEW wait \in Label \ StartLabel, NEW done \in Label \ StartLabel,
         DownStep(t, s, o, wait, done), UNCHANGED <<idle_thread, peer>>,
         \A x \in AllSema : WaitsIn(t, x) => x = s,
         CreatorAt(t) => wait = "lock_down" /\ done = "lock_set" /\ o = TidLock
  PROVE  SleepStep(t, s) \/ TakeStep(t, s)
  <1>0. /\ TypeOK /\ SchedOK /\ IdleInv /\ idle_thread \in Thread \cup {NULL}
        /\ value \in [AllSema -> Nat] /\ waiters \in [AllSema -> Seq(Thread)]
        /\ status[t] = "RUNNING" /\ t # idle_thread
        /\ \A u \in Thread : In(u, ready_list) => status[u] = "READY"
    BY ThreadsAssumption DEF IInv, TypeOK, SchedOK, OneRunning, RunQueue, IdleInv, StartLabel
  <1>1. ASSUME NEW l \in {wait, done}, NEW a \in AllSema \cup Cond \cup {NULL}, Goto(t, l, a),
               l = "run" \/ a = o
        PROVE  /\ CreatorsKept
               /\ \A u \in Thread : u # t => pc'[u] = pc[u] /\ obj'[u] = obj[u]
    <2>1. /\ pc'[t] = l /\ obj'[t] = a
          /\ \A u \in Thread : u # t => pc'[u] = pc[u] /\ obj'[u] = obj[u]
      BY <1>0, <1>1, GotoLemma
    <2>2. CreatorAt(t) => CreatorAt(t)'
      BY <1>1, <2>1, Zenon DEF CreatorAt
    <2>3. QED
      BY <2>1, <2>2, Zenon DEF CreatorsKept, CreatorAt
  <1>2. CASE /\ value[s] = 0
             /\ waiters' = [waiters EXCEPT ![s] = Append(@, t)]
             /\ Block(t)
             /\ Goto(t, wait, o)
             /\ UNCHANGED value
    <2>1. /\ SchedOK'
          /\ current' = idle_thread \/ In(current', ready_list)
          /\ \A u \in Thread : u # current' =>
               status'[u] = IF u = current THEN "BLOCKED" ELSE status[u]
      <3>1. ready_list # <<>> \/ idle_thread # NULL
        BY HasNext, Zenon DEF StartLabel
      <3>2. QED
        BY <1>0, <1>2, <3>1, BlockLemma, Zenon
    <2>2. current' \in Thread /\ status'[current'] = "RUNNING"
      BY <2>1, Zenon DEF SchedOK, SchedType, OneRunning
    <2>3. CreatorsKept /\ \A u \in Thread : u # t => pc'[u] = pc[u] /\ obj'[u] = obj[u]
      BY <1>1, <1>2, Zenon
    <2>4. \A x \in AllSema : waiters'[x] = IF x = s THEN Append(waiters[s], t) ELSE waiters[x]
      BY <1>0, <1>2, Zenon
    <2>5. \A x \in AllSema, u \in Thread :
            In(u, waiters'[x]) <=> In(u, waiters[x]) \/ (x = s /\ u = t)
      BY <1>0, <2>4, InAppend
    <2>6. ASSUME NEW x \in AllSema, NEW u \in Thread, u \in Woken(x), u # t
          PROVE  u \in Woken(x)'
      <3>1. status'[u] \in {"READY", "RUNNING"}
        BY <2>1, <2>2, <2>6, Zenon DEF Woken
      <3>2. QED
        BY <2>3, <2>6, <3>1, WokenSame, Zenon
    <2>7. \A u \in Thread : status'[u] = "BLOCKED" => status[u] = "BLOCKED" \/ u = t
      BY <2>1, <2>2, Zenon
    <2>8. \A x \in AllSema : t \in Woken(x) => x = s
      BY Zenon DEF Woken
    <2>9. SleepStep(t, s)
      BY <1>2, <2>3, <2>4, <2>5, <2>6, <2>7, <2>8, Zenon DEF SleepStep
    <2>10. QED
      BY <2>9, Zenon
  <1>3. CASE /\ value[s] > 0
             /\ value' = [value EXCEPT ![s] = @ - 1]
             /\ Goto(t, done, IF done = "run" THEN NULL ELSE o)
             /\ UNCHANGED <<sched, waiters>>
    <2>1. CreatorsKept /\ \A u \in Thread : u # t => pc'[u] = pc[u] /\ obj'[u] = obj[u]
      BY <1>1, <1>3, Zenon
    <2>2. UNCHANGED <<status, waiters>>
      BY <1>3, Zenon DEF sched
    <2>3. \A x \in AllSema, u \in Thread : u \in Woken(x) => u \in Woken(x)' \/ (u = t /\ x = s)
      BY <2>1, <2>2, WokenSame, Zenon DEF Woken
    <2>4. QED
      BY <1>3, <2>1, <2>2, <2>3, Zenon DEF TakeStep
  <1>4. QED
    BY <1>2, <1>3, Zenon DEF DownStep

(* sema_up, by the current thread or by an interrupt handler. *)
LEMMA UpKind ==
  ASSUME IInv, NEW s \in AllSema, UpStep(s), UNCHANGED idle_thread,
         \A u \in Thread : u # current => pc'[u] = pc[u] /\ obj'[u] = obj[u],
         \A u \in Thread, x \in AllSema : u = current /\ WaitsIn(u, x) => WaitsIn(u, x)',
         CreatorsKept
  PROVE  WakeStep(s)
  <1>0. /\ SchedOK /\ WaitLists /\ IdleInv
        /\ value \in [AllSema -> Nat] /\ waiters \in [AllSema -> Seq(Thread)]
        /\ status \in [Thread -> Status] /\ status[current] = "RUNNING"
    BY Zenon DEF IInv, TypeOK, SchedOK, OneRunning
  <1>1. value' = [value EXCEPT ![s] = @ + 1]
    BY Zenon DEF UpStep
  <1>2. ASSUME \A u \in Thread : status[u] \in {"READY", "RUNNING"} => status'[u] = status[u]
        PROVE  \A x \in AllSema, u \in Thread : u \in Woken(x) => u \in Woken(x)'
    <2> SUFFICES ASSUME NEW x \in AllSema, NEW u \in Thread, u \in Woken(x)
                 PROVE  u \in Woken(x)'
      BY Zenon
    <2>1. WaitsIn(u, x) /\ status'[u] \in {"READY", "RUNNING"}
      BY <1>2, Zenon DEF Woken
    <2>2. CASE u = current
      BY <2>1, <2>2, Zenon DEF Woken
    <2>3. CASE u # current
      BY <2>1, <2>3, WokenSame, Zenon
    <2>4. QED
      BY <2>2, <2>3, Zenon
  <1>3. CASE waiters[s] = <<>>
    <2>1. UNCHANGED <<status, waiters>>
      BY <1>3, Zenon DEF UpStep, sched
    <2>2. QED
      BY <1>1, <1>2, <1>3, <2>1, Zenon DEF WakeStep
  <1>4. CASE waiters[s] # <<>>
    <2> DEFINE h == Head(waiters[s])
    <2>1. status' = [status EXCEPT ![h] = "READY"] /\ waiters' = [waiters EXCEPT ![s] = Tail(@)]
      BY <1>4, Zenon DEF UpStep, Unblock
    <2>2. /\ h \in Thread /\ In(h, waiters[s])
          /\ \A u : In(u, waiters[s]) <=> u = h \/ In(u, Tail(waiters[s]))
      BY <1>0, <1>4, PopFront, Zenon
    <2> HIDE DEF h
    <2>3. status[h] = "BLOCKED" /\ WaitsIn(h, s) /\ h # current
      BY <1>0, <2>2, Zenon DEF WaitLists
    <2>4. \A u \in Thread : status'[u] = IF u = h THEN "READY" ELSE status[u]
      BY <1>0, <2>1, <2>2, Zenon
    <2>5. h \notin Woken(s) /\ h \in Woken(s)'
      BY <2>2, <2>3, <2>4, WaitsInSame, Zenon DEF Woken
    <2>6. \A x \in AllSema : waiters'[x] = IF x = s THEN Tail(waiters[s]) ELSE waiters[x]
      BY <1>0, <2>1, Zenon
    <2>7. \A x \in AllSema, u \in Thread : In(u, waiters[x]) => In(u, waiters'[x]) \/ u = h
      BY <2>2, <2>6, Zenon
    <2>8. \A x \in AllSema, u \in Thread : u \in Woken(x) => u \in Woken(x)'
      BY <1>2, <2>3, <2>4, Zenon
    <2>9. QED
      BY <1>1, <1>4, <2>2, <2>4, <2>5, <2>6, <2>7, <2>8, Zenon DEF WakeStep
  <1>5. QED
    BY <1>3, <1>4, Zenon

(* A step that leaves the scheduler and the wait lists alone, and moves at   *)
(* most thread t, which is in no sema_down.                                  *)
LEMMA QuietKind ==
  ASSUME NEW t \in Thread, UNCHANGED <<status, waiters>>,
         \A u \in Thread : u # t => pc'[u] = pc[u] /\ obj'[u] = obj[u] /\ peer'[u] = peer[u],
         \A x \in AllSema : ~ WaitsIn(t, x),
         CreatorAt(t) => CreatorAt(t)' /\ peer'[t] = peer[t],
         \A x \in AllSema : waiters[x] # <<>> => value'[x] = value[x],
         idle_thread' = idle_thread \/ idle_thread = NULL
  PROVE  QuietStep
  <1>1. CreatorsKept
    BY Zenon DEF CreatorsKept, CreatorAt
  <1>2. \A x \in AllSema, u \in Thread : u \in Woken(x) => u \in Woken(x)'
    BY WokenSame, Zenon DEF Woken
  <1>3. QED
    BY <1>1, <1>2, Zenon DEF QuietStep

LEMMA SemaStepKind ==
  ASSUME IInv, NEW t \in Thread, SemaStep(t)
  PROVE  Kind
  <1> USE ThreadsAssumption, ObjectsAreDistinct DEF Running, StartLabel, IdleLabel
  <1>0. TypeOK
    BY Zenon DEF IInv
  <1>1. ASSUME NEW s \in Sema \cup {IdleStarted}, SemaDown(t, s) PROVE Kind
    <2>1. /\ t = current /\ s \in AllSema /\ pc[t] \in {"run", "sema_down"}
          /\ pc[t] = "sema_down" => obj[t] = s
          /\ DownStep(t, s, s, "sema_down", "run")
          /\ UNCHANGED <<idle_thread, peer>>
      BY <1>1, Zenon DEF SemaDown, AllSema
    <2>2. "sema_down" \in Label \ StartLabel /\ "run" \in Label \ StartLabel
      BY Zenon DEF Label
    <2>3. ~ CreatorAt(t) /\ \A x \in AllSema : WaitsIn(t, x) => x = s
      BY <2>1, Zenon DEF CreatorAt, WaitsIn
    <2>4. pc[t] \notin StartLabel
      BY <2>1, Zenon
    <2> HIDE DEF StartLabel
    <2>5. SleepStep(t, s) \/ TakeStep(t, s)
      BY <2>1, <2>2, <2>3, <2>4, DownKind, Zenon
    <2>6. QED
      BY <2>1, <2>5, Zenon DEF Kind
  <1>2. ASSUME NEW s \in Sema, SemaTryDown(t, s) PROVE Kind
    <2>1. /\ s \in AllSema /\ value[s] > 0 /\ value' = [value EXCEPT ![s] = @ - 1]
          /\ UNCHANGED <<status, idle_thread, waiters, pc, obj, peer>>
      BY <1>2, Zenon DEF SemaTryDown, AllSema, place, sched
    <2>2. CreatorsKept /\ \A x \in AllSema, u \in Thread : u \in Woken(x) => u \in Woken(x)'
      BY <2>1, WokenSame, Zenon DEF CreatorsKept, CreatorAt, Woken
    <2>3. TakeStep(t, s)
      BY <2>1, <2>2, Zenon DEF TakeStep
    <2>4. QED
      BY <2>1, <2>3, Zenon DEF Kind
  <1>3. ASSUME NEW s \in Sema, SemaUp(t, s) PROVE Kind
    <2>1. /\ s \in AllSema /\ t = current /\ pc[t] = "run" /\ UpStep(s)
          /\ UNCHANGED <<idle_thread, pc, obj, peer>>
      BY <1>3, Zenon DEF SemaUp, AllSema, place
    <2>2. CreatorsKept /\ \A x \in AllSema : ~ WaitsIn(t, x)
      BY <2>1, Zenon DEF CreatorsKept, CreatorAt, WaitsIn
    <2>3. WakeStep(s)
      BY <2>1, <2>2, UpKind
    <2>4. QED
      BY <2>1, <2>3, Zenon DEF Kind
  <1>4. QED
    BY <1>1, <1>2, <1>3, Zenon DEF SemaStep

LEMMA LockStepKind ==
  ASSUME IInv, NEW t \in Thread, LockStep(t)
  PROVE  Kind
  <1> USE ThreadsAssumption, ObjectsAreDistinct DEF Running
  <1>0. TypeOK /\ PlaceAt(t) /\ Lock \subseteq AllSema
    BY Zenon DEF IInv, PlaceInv, AllSema
  <1>1. ASSUME NEW l \in Lock, LockDown(t, l) PROVE Kind
    <2>1. /\ t = current /\ l \in AllSema /\ pc[t] \in {"run", "lock_down"}
          /\ UNCHANGED <<idle_thread, peer>>
      BY <1>0, <1>1, Zenon DEF LockDown
    <2>2. PICK o \in Lock \cup Cond :
            /\ DownStep(t, l, o, "lock_down", "lock_set")
            /\ pc[t] = "lock_down" => obj[t] = o /\ LockOf(t) = l
      BY <1>0, <1>1, Zenon DEF LockDown, PlaceAt
    <2>3. "lock_down" \in Label \ StartLabel /\ "lock_set" \in Label \ StartLabel
          /\ pc[t] \notin StartLabel /\ o \in AllSema \cup Cond
      BY <1>0, <2>1, Zenon DEF Label, StartLabel, IdleLabel
    <2>4. /\ CreatorAt(t) => o = TidLock
          /\ \A x \in AllSema : WaitsIn(t, x) => x = l
      BY <2>1, <2>2, Zenon DEF CreatorAt, WaitsIn
    <2>5. SleepStep(t, l) \/ TakeStep(t, l)
      BY <2>1, <2>2, <2>3, <2>4, DownKind, Zenon
    <2>6. QED
      BY <2>1, <2>5, Zenon DEF Kind
  <1>2. ASSUME NEW l \in Lock, LockTryAcquire(t, l) PROVE Kind
    <2>1. /\ pc[t] = "run" /\ value[l] > 0 /\ value' = [value EXCEPT ![l] = @ - 1]
          /\ Goto(t, "lock_set", l)
          /\ UNCHANGED <<status, idle_thread, waiters, peer>>
      BY <1>2, Zenon DEF LockTryAcquire, sched
    <2>2. \A u \in Thread : u # t => pc'[u] = pc[u] /\ obj'[u] = obj[u]
      BY <1>0, <2>1, Zenon DEF Goto, TypeOK
    <2>3. CreatorsKept
      BY <2>1, <2>2, Zenon DEF CreatorsKept, CreatorAt
    <2>4. \A x \in AllSema, u \in Thread : u \in Woken(x) => u \in Woken(x)'
      <3> SUFFICES ASSUME NEW x \in AllSema, NEW u \in Thread, u \in Woken(x)
                   PROVE  u \in Woken(x)'
        BY Zenon
      <3>1. u # t /\ status'[u] \in {"READY", "RUNNING"}
        BY <2>1, Zenon DEF Woken, WaitsIn
      <3>2. QED
        BY <2>2, <3>1, WokenSame, Zenon
    <2>5. TakeStep(t, l)
      BY <2>1, <2>3, <2>4, Zenon DEF TakeStep
    <2>6. QED
      BY <1>0, <2>5, Zenon DEF Kind
  <1>3. ASSUME LockSetHolder(t) \/ \E l \in Lock : LockRelease(t, l) PROVE Kind
    <2>1. /\ pc[t] \in {"lock_set", "run", "lock_release"}
          /\ UNCHANGED <<status, idle_thread, waiters, value, peer>>
          /\ \E p \in {"tid_read", "run", "lock_up"} :
               \E o : /\ Goto(t, p, o)
                      /\ CreatorAt(t) => p = "tid_read" \/ (p = "lock_up" /\ o = TidLock)
      BY <1>3, Zenon DEF LockSetHolder, LockRelease, Return, sched, CreatorAt
    <2>2. /\ \A u \in Thread : u # t => pc'[u] = pc[u] /\ obj'[u] = obj[u]
          /\ CreatorAt(t) => CreatorAt(t)'
      BY <1>0, <2>1 DEF Goto, TypeOK, CreatorAt
    <2>3. \A x \in AllSema : ~ WaitsIn(t, x)
      BY <2>1, Zenon DEF WaitsIn
    <2>4. QuietStep
      BY <2>1, <2>2, <2>3, QuietKind, Zenon
    <2>5. QED
      BY <2>4, Zenon DEF Kind
  <1>4. CASE LockUp(t)
    <2>1. /\ t = current /\ pc[t] = "lock_up" /\ UpStep(LockOf(t))
          /\ UNCHANGED <<idle_thread, peer>>
          /\ \E p \in Label : \E o : Goto(t, p, o) /\ (obj[t] = TidLock => p = "unblock")
      BY <1>4, Zenon DEF LockUp, Return, Label
    <2>2. LockOf(t) \in AllSema
      BY <1>0, <2>1, LockOfType, Zenon
    <2>3. /\ \A u \in Thread : u # t => pc'[u] = pc[u] /\ obj'[u] = obj[u]
          /\ obj[t] = TidLock => pc'[t] = "unblock"
      BY <1>0, <2>1, Zenon DEF Goto, TypeOK
    <2>4. CreatorsKept
      BY <2>1, <2>3, Zenon DEF CreatorsKept, CreatorAt
    <2>5. \A x \in AllSema : ~ WaitsIn(t, x)
      BY <2>1, Zenon DEF WaitsIn
    <2> PICK s \in AllSema : s = LockOf(t)
      BY <2>2, Zenon
    <2>6. WakeStep(s)
      <3>1. UpStep(s) /\ UNCHANGED idle_thread
        BY <2>1, Zenon
      <3>2. \A u \in Thread, x \in AllSema : u = current /\ WaitsIn(u, x) => WaitsIn(u, x)'
        BY <2>1, <2>5, Zenon
      <3>3. \A u \in Thread : u # current => pc'[u] = pc[u] /\ obj'[u] = obj[u]
        BY <2>1, <2>3, Zenon
      <3>4. QED
        BY <2>4, <3>1, <3>2, <3>3, UpKind, Zenon
    <2>7. QED
      BY <2>6, Zenon DEF Kind
  <1>5. QED
    BY <1>1, <1>2, <1>3, <1>4, Zenon DEF LockStep

(* Nobody waits on the semaphore of a thread that is not in cond_wait. *)
LEMMA NoWaiters ==
  ASSUME IInv, NEW t \in Thread, pc[t] # "cond_sleep"
  PROVE  waiters[t] = <<>>
  <1>1. t \in AllSema /\ TypeOK /\ WaitLists /\ PlaceInv
    BY Zenon DEF AllSema, IInv
  <1> SUFFICES ASSUME waiters[t] # <<>> PROVE FALSE
    BY Zenon
  <1>2. PICK h \in Thread : In(h, waiters[t])
    BY <1>1, PopFront, Zenon DEF TypeOK
  <1>3. WaitsIn(h, t) /\ PlaceAt(h)
    BY <1>1, <1>2, Zenon DEF WaitLists, PlaceInv
  <1>4. QED
    BY <1>3, ThreadsAssumption, ObjectsAreDistinct, Zenon DEF WaitsIn, LockOf, PlaceAt

LEMMA CondStepKind ==
  ASSUME IInv, NEW t \in Thread, CondStep(t)
  PROVE  Kind
  <1> USE ThreadsAssumption, ObjectsAreDistinct DEF Running
  <1>0. TypeOK /\ PlaceAt(t) /\ Thread \subseteq AllSema
    BY Zenon DEF IInv, PlaceInv, AllSema
  <1>1. ASSUME NEW c \in Cond, CondWait(t, c) PROVE Kind
    <2>1. /\ pc[t] = "run" /\ Goto(t, "lock_release", c)
          /\ value' = [value EXCEPT ![t] = 0] /\ waiters' = [waiters EXCEPT ![t] = <<>>]
          /\ UNCHANGED <<status, idle_thread, peer>>
      BY <1>1, Zenon DEF CondWait, sched
    <2>2. waiters[t] = <<>>
      BY <2>1, NoWaiters, Zenon
    <2>3. UNCHANGED waiters /\ \A x \in AllSema : waiters[x] # <<>> => value'[x] = value[x]
      BY <1>0, <2>1, <2>2, Zenon DEF TypeOK
    <2>4. \A u \in Thread : u # t => pc'[u] = pc[u] /\ obj'[u] = obj[u]
      BY <1>0, <2>1, Zenon DEF Goto, TypeOK
    <2>5. ~ CreatorAt(t) /\ \A x \in AllSema : ~ WaitsIn(t, x)
      BY <2>1, Zenon DEF CreatorAt, WaitsIn
    <2>6. QuietStep
      BY <2>1, <2>3, <2>4, <2>5, QuietKind, Zenon
    <2>7. QED
      BY <2>6, Zenon DEF Kind
  <1>2. ASSUME NEW c \in Cond, CondSignal(t, c) \/ CondBroadcast(t, c) PROVE Kind
    <2>1. /\ pc[t] \in {"run", "broadcast"}
          /\ UNCHANGED <<status, idle_thread, value, waiters>>
          /\ \E l \in Label : \E o : Goto(t, l, o)
          /\ UNCHANGED peer \/ \E p : peer' = [peer EXCEPT ![t] = p]
      BY <1>2, Zenon DEF CondSignal, CondBroadcast, PopWaiter, Return, sched, Label
    <2>2. \A u \in Thread : u # t => pc'[u] = pc[u] /\ obj'[u] = obj[u] /\ peer'[u] = peer[u]
      BY <1>0, <2>1, Zenon DEF Goto, TypeOK
    <2>3. ~ CreatorAt(t) /\ \A x \in AllSema : ~ WaitsIn(t, x)
      BY <2>1, Zenon DEF CreatorAt, WaitsIn
    <2>4. QuietStep
      BY <2>1, <2>2, <2>3, QuietKind, Zenon
    <2>5. QED
      BY <2>4, Zenon DEF Kind
  <1>3. CASE CondSleep(t)
    <2>1. /\ t = current /\ pc[t] = "cond_sleep" /\ DownStep(t, t, obj[t], "cond_sleep", "lock_down")
          /\ UNCHANGED <<idle_thread, peer>>
      BY <1>3, Zenon DEF CondSleep
    <2>2. /\ t \in AllSema /\ obj[t] \in AllSema \cup Cond
          /\ pc[t] \notin StartLabel /\ {"cond_sleep", "lock_down"} \subseteq Label \ StartLabel
      BY <1>0, <2>1, Zenon DEF PlaceAt, StartLabel, IdleLabel, Label
    <2>3. ~ CreatorAt(t) /\ \A x \in AllSema : WaitsIn(t, x) => x = t
      BY <2>1, Zenon DEF CreatorAt, WaitsIn
    <2>4. SleepStep(t, t) \/ TakeStep(t, t)
      BY <2>1, <2>2, <2>3, DownKind, Zenon
    <2>5. QED
      BY <2>2, <2>4, Zenon DEF Kind
  <1>4. CASE SignalUp(t)
    <2>1. /\ t = current /\ pc[t] \in {"signal_up", "broadcast_up"} /\ UpStep(peer[t])
          /\ UNCHANGED idle_thread
          /\ \E l \in Label : \E o : Goto(t, l, o)
          /\ peer' = [peer EXCEPT ![t] = NULL]
      BY <1>4, Zenon DEF SignalUp, Return, Label
    <2>2. peer[t] \in AllSema
      BY <1>0, <2>1, Zenon DEF PlaceAt
    <2>3. \A u \in Thread : u # t => pc'[u] = pc[u] /\ obj'[u] = obj[u] /\ peer'[u] = peer[u]
      BY <1>0, <2>1 DEF Goto, TypeOK
    <2>4. CreatorsKept
      BY <2>1, <2>3, Zenon DEF CreatorsKept, CreatorAt
    <2>5. \A x \in AllSema : ~ WaitsIn(t, x)
      BY <2>1, Zenon DEF WaitsIn
    <2> PICK s \in AllSema : s = peer[t]
      BY <2>2, Zenon
    <2>6. WakeStep(s)
      <3>1. UpStep(s) /\ UNCHANGED idle_thread
        BY <2>1, Zenon
      <3>2. \A u \in Thread, x \in AllSema : u = current /\ WaitsIn(u, x) => WaitsIn(u, x)'
        BY <2>1, <2>5, Zenon
      <3>3. \A u \in Thread : u # current => pc'[u] = pc[u] /\ obj'[u] = obj[u]
        BY <2>1, <2>3, Zenon
      <3>4. QED
        BY <2>4, <3>1, <3>2, <3>3, UpKind, Zenon
    <2>7. QED
      BY <2>6, Zenon DEF Kind
  <1>5. QED
    BY <1>1, <1>2, <1>3, <1>4, Zenon DEF CondStep

(* A step in which the processor may change hands; nobody falls asleep but   *)
(* the idle thread or a thread under creation.                               *)
LEMMA SwitchKind ==
  ASSUME UNCHANGED <<value, waiters, idle_thread>>, CreatorsKept,
         \A u \in Thread : (\E x \in AllSema : WaitsIn(u, x)) => pc'[u] = pc[u] /\ obj'[u] = obj[u],
         \A u \in Thread : (\E x \in AllSema : WaitsIn(u, x)) /\ status[u] \in {"READY", "RUNNING"} =>
           status'[u] \in {"READY", "RUNNING"},
         \A u \in Thread : status'[u] = "BLOCKED" =>
           status[u] = "BLOCKED" \/ Creating(u)' \/ u = idle_thread
  PROVE  Kind
  <1>1. \A x \in AllSema, u \in Thread : u \in Woken(x) => u \in Woken(x)'
    BY WokenSame, Zenon DEF Woken
  <1>2. QuietStep
    BY <1>1, Zenon DEF QuietStep
  <1>3. QED
    BY <1>2, Zenon DEF Kind

LEMMA InterruptKind ==
  ASSUME IInv, Interrupt
  PROVE  Kind
  <1>0. TypeOK /\ SchedOK /\ idle_thread \in Thread \cup {NULL} /\ current \in Thread
    BY Zenon DEF IInv, TypeOK
  <1>1. EndHlt /\ UNCHANGED <<idle_thread, obj, peer>>
    BY Zenon DEF Interrupt, TimerInterrupt, DeviceInterrupt
  <1>2. /\ \A u \in Thread : pc[u] # "idle_hlt" => pc'[u] = pc[u]
        /\ \A u \in Thread : u # current => pc'[u] = pc[u]
    BY <1>0, <1>1, Zenon DEF EndHlt, TypeOK
  <1>3. CreatorsKept
    BY <1>1, <1>2, Zenon DEF CreatorsKept, CreatorAt
  <1>4. \A u \in Thread : (\E x \in AllSema : WaitsIn(u, x)) => pc'[u] = pc[u] /\ obj'[u] = obj[u]
    BY <1>1, <1>2, Zenon DEF WaitsIn
  <1>5. CASE TimerInterrupt
    <2>1. UNCHANGED <<value, waiters>> /\ (UNCHANGED status \/ Yield(current))
      BY <1>5, Zenon DEF TimerInterrupt
    <2>2. /\ \A u \in Thread : status[u] \in {"READY", "RUNNING"} => status'[u] \in {"READY", "RUNNING"}
          /\ \A u \in Thread : status'[u] = "BLOCKED" => status[u] = "BLOCKED"
      <3>1. CASE UNCHANGED status
        BY <3>1, Zenon
      <3>2. CASE Yield(current)
        <4>1. /\ SchedOK'
              /\ \A u \in Thread : u # current' =>
                   status'[u] = IF u = current THEN "READY" ELSE status[u]
          BY <1>0, <1>1, <3>2, YieldLemma, Zenon
        <4>2. QED
          BY <4>1, Zenon DEF SchedOK, SchedType, OneRunning
      <3>3. QED
        BY <2>1, <3>1, <3>2, Zenon
    <2>3. QED
      BY <1>1, <1>3, <1>4, <2>1, <2>2, SwitchKind, Zenon
  <1>6. ASSUME NEW s \in IrqSema, DeviceInterrupt(s) PROVE Kind
    <2>1. s \in AllSema /\ UpStep(s)
      BY <1>6, ThreadsAssumption, Zenon DEF DeviceInterrupt, AllSema
    <2>2. \A u \in Thread, x \in AllSema : u = current /\ WaitsIn(u, x) => WaitsIn(u, x)'
      BY <1>4, WaitsInSame, Zenon
    <2>3. WakeStep(s)
      BY <1>1, <1>2, <1>3, <2>1, <2>2, UpKind, Zenon
    <2>4. QED
      BY <2>1, <2>3, Zenon DEF Kind
  <1>7. QED
    BY <1>5, <1>6, Zenon DEF Interrupt

(* thread_create and thread_start make thread u of a free page. *)
LEMMA CreateKind ==
  ASSUME IInv, NEW t \in Thread, NEW u \in Thread, ThreadCreate(t, u) \/ ThreadStart(t, u)
  PROVE  Kind
  <1>0. TypeOK /\ FreeInv
    BY Zenon DEF IInv
  <1>1. /\ pc[t] \in {"run", "boot"} /\ pc[u] = "free" /\ status[u] = "FREE"
        /\ UNCHANGED <<value, waiters, idle_thread>>
    BY <1>0, Zenon DEF ThreadCreate, ThreadStart, FreePage, FreeInv
  <1>2. \A x \in Thread : x \notin {t, u} =>
          pc'[x] = pc[x] /\ obj'[x] = obj[x] /\ peer'[x] = peer[x] /\ status'[x] = status[x]
    BY <1>0, <1>1 DEF ThreadCreate, ThreadStart, TypeOK
  <1>3. \A y \in {t, u} : ~ CreatorAt(y) /\ \A x \in AllSema : ~ WaitsIn(y, x)
    BY <1>1, Zenon DEF CreatorAt, WaitsIn
  <1>4. CreatorsKept
    BY <1>2, <1>3, Zenon DEF CreatorsKept, CreatorAt
  <1>5. status'[u] = "BLOCKED" => Creating(u)'
    <2>1. CASE ThreadCreate(t, u)
      BY <1>0, <1>1, <2>1, Zenon DEF ThreadCreate, TypeOK, Creating
    <2>2. CASE ThreadStart(t, u)
      BY <1>0, <2>2, Zenon DEF ThreadStart, TypeOK
    <2>3. QED
      BY <2>1, <2>2, Zenon
  <1>6. t # u => status'[t] = status[t]
    BY <1>0, Zenon DEF ThreadCreate, ThreadStart, TypeOK
  <1>7. QED
    BY <1>1, <1>2, <1>3, <1>4, <1>5, <1>6, SwitchKind, Zenon

LEMMA ThreadStepKind ==
  ASSUME IInv, NEW t \in Thread, ThreadStep(t)
  PROVE  Kind
  <1> USE ThreadsAssumption DEF Running
  <1>0. /\ TypeOK /\ SchedOK /\ IdleInv /\ CreateInv /\ idle_thread \in Thread \cup {NULL}
        /\ \A u \in Thread : status[u] = "RUNNING" <=> u = current
    BY Zenon DEF IInv, TypeOK, SchedOK, OneRunning
  <1>1. ASSUME TidRead(t) \/ TidWrite(t) \/ IdleInit(t) PROVE Kind
    <2>1. /\ pc[t] \in {"tid_read", "tid_write", "idle_init"}
          /\ UNCHANGED <<status, value, waiters, peer>>
          /\ \E l \in Label : \E o : /\ Goto(t, l, o)
                                     /\ CreatorAt(t) => l \in {"tid_write", "lock_release"} /\ o = TidLock
          /\ idle_thread' = idle_thread \/ idle_thread = NULL
      BY <1>0, <1>1, Zenon DEF TidRead, TidWrite, IdleInit, Return, sched, Label, CreatorAt, IdleInv
    <2>2. /\ \A u \in Thread : u # t => pc'[u] = pc[u] /\ obj'[u] = obj[u]
          /\ CreatorAt(t) => CreatorAt(t)'
      BY <1>0, <2>1, Zenon DEF Goto, TypeOK, CreatorAt
    <2>3. \A x \in AllSema : ~ WaitsIn(t, x)
      BY <2>1, Zenon DEF WaitsIn
    <2>4. QuietStep
      BY <2>1, <2>2, <2>3, QuietKind, Zenon
    <2>5. QED
      BY <2>4, Zenon DEF Kind
  <1>2. CASE UnblockChild(t)
    <2>1. /\ t = current /\ pc[t] = "unblock" /\ Goto(t, "run", NULL)
          /\ status' = [status EXCEPT ![peer[t]] = "READY"]
          /\ peer' = [peer EXCEPT ![t] = NULL]
          /\ UNCHANGED <<value, waiters, idle_thread>>
      BY <1>2, Zenon DEF UnblockChild, Unblock, Return
    <2>2. peer[t] \in Thread
      BY <1>0, <2>1, Zenon DEF CreateInv, CreatorAt
    <2>3. \A u \in Thread : u # t => pc'[u] = pc[u] /\ obj'[u] = obj[u] /\ peer'[u] = peer[u]
      BY <1>0, <2>1, Zenon DEF Goto, TypeOK
    <2>4. \A u \in Thread : status'[u] = IF u = peer[t] THEN "READY" ELSE status[u]
      BY <1>0, <2>1, <2>2, Zenon DEF TypeOK
    <2>5. CreatorsKept
      BY <2>2, <2>3, <2>4, Zenon DEF CreatorsKept, CreatorAt
    <2>6. \A x \in AllSema : ~ WaitsIn(t, x)
      BY <2>1, Zenon DEF WaitsIn
    <2>7. \A u \in Thread : /\ status[u] \in {"READY", "RUNNING"} => status'[u] \in {"READY", "RUNNING"}
                            /\ status'[u] = "BLOCKED" => status[u] = "BLOCKED"
      BY <2>4, Zenon
    <2>8. \A u \in Thread : (\E x \in AllSema : WaitsIn(u, x)) => pc'[u] = pc[u] /\ obj'[u] = obj[u]
      BY <2>3, <2>6, Zenon
    <2>9. QED
      BY <2>1, <2>5, <2>7, <2>8, SwitchKind, Zenon
  <1>3. ASSUME ThreadExit(t) \/ ThreadYield(t) \/ IdleBlock(t) PROVE Kind
    <2>1. /\ t = current /\ pc[t] \in {"run", "idle_block"}
          /\ UNCHANGED <<value, waiters, idle_thread, peer>>
          /\ \A u \in Thread : u # t => pc'[u] = pc[u] /\ obj'[u] = obj[u]
      BY <1>0, <1>3, Zenon DEF ThreadExit, ThreadYield, IdleBlock, Return, Goto, place, TypeOK
    <2>2. ~ CreatorAt(t) /\ \A x \in AllSema : ~ WaitsIn(t, x)
      BY <2>1, Zenon DEF CreatorAt, WaitsIn
    <2>3. CreatorsKept
      BY <2>1, <2>2, Zenon DEF CreatorsKept, CreatorAt
    <2>4. \A u \in Thread : u # t =>
            status'[u] = status[u] \/ (u = current' /\ status'[u] = "RUNNING")
      <3>1. \E st : \E rl : /\ st \in [Thread -> Status] /\ Schedule(st, rl)
                            /\ \A u \in Thread : u # t => st[u] = status[u]
        <4>1. \E x \in Status : \E rl : Schedule([status EXCEPT ![t] = x], rl)
          BY <1>3, Zenon DEF ThreadExit, ThreadYield, IdleBlock, Block, Yield, Status
        <4>2. \A x \in Status : /\ [status EXCEPT ![t] = x] \in [Thread -> Status]
                                /\ \A u \in Thread : u # t => [status EXCEPT ![t] = x][u] = status[u]
          BY <1>0, Zenon DEF TypeOK
        <4>3. QED
          BY <4>1, <4>2, Zenon
      <3>2. QED
        BY <2>1, <3>1, Zenon DEF Schedule
    <2>5. status'[t] = "BLOCKED" => t = idle_thread
      <3>1. CASE IdleBlock(t)
        BY <1>0, <3>1, Zenon DEF IdleBlock, IdleInv, IdleLabel
      <3>2. CASE ThreadExit(t) \/ ThreadYield(t)
        BY <1>0, <2>1, <3>2, Zenon DEF ThreadExit, ThreadYield, Yield, Schedule, AfterSwitch, TypeOK
      <3>3. QED
        BY <1>3, <3>1, <3>2, Zenon
    <2>6. QED
      BY <2>1, <2>2, <2>3, <2>4, <2>5, SwitchKind, Zenon
  <1>4. CASE IdleUp(t)
    <2>1. /\ t = current /\ pc[t] = "idle_up" /\ UpStep(IdleStarted) /\ Goto(t, "idle_block", NULL)
          /\ UNCHANGED <<idle_thread, peer>> /\ IdleStarted \in AllSema
      BY <1>4, Zenon DEF IdleUp, Return, AllSema
    <2>2. \A u \in Thread : u # t => pc'[u] = pc[u] /\ obj'[u] = obj[u]
      BY <1>0, <2>1, Zenon DEF Goto, TypeOK
    <2>3. CreatorsKept /\ \A x \in AllSema : ~ WaitsIn(t, x)
      BY <2>1, <2>2, Zenon DEF CreatorsKept, CreatorAt, WaitsIn
    <2>4. WakeStep(IdleStarted)
      BY <2>1, <2>2, <2>3, UpKind, Zenon
    <2>5. QED
      BY <2>1, <2>4, Zenon DEF Kind
  <1>5. QED
    BY <1>1, <1>2, <1>3, <1>4, CreateKind, Zenon DEF ThreadStep

(* Every step is of one of the four kinds. *)
LEMMA NextKind == IInv /\ [Next]_vars => Kind
  <1> SUFFICES ASSUME IInv, [Next]_vars PROVE Kind
    BY Zenon
  <1>1. ASSUME NEW t \in Thread, Step(t) PROVE Kind
    BY <1>1, SemaStepKind, LockStepKind, CondStepKind, ThreadStepKind, Zenon DEF Step
  <1>2. CASE UNCHANGED vars
    <2>1. UNCHANGED <<status, waiters, value, pc, obj, peer, idle_thread>>
      BY <1>2, Zenon DEF vars, sched, place
    <2>2. CreatorsKept
      BY <2>1, Zenon DEF CreatorsKept, CreatorAt
    <2>3. QED
      BY <2>1, <2>2, SwitchKind, Zenon
  <1>3. QED
    BY <1>1, <1>2, InterruptKind, Zenon DEF Next
-----------------------------------------------------------------------------
(* No thread is lost: a ready thread other than the idle thread is on the    *)
(* run queue, and a blocked one on a wait list or in the hands of the        *)
(* thread_create that will unblock it.                                       *)
THEOREM NoThreadLostHolds == Spec => []NoThreadLost
  <1>1. Init => BlockedFound
    BY Zenon DEF Init, BlockedFound
  <1>2. IInv /\ BlockedFound /\ [Next]_vars => BlockedFound'
    BY NextKind, KindBlockedFound, Zenon
  <1>3. IInv /\ BlockedFound => NoThreadLost
    BY Zenon DEF IInv, SchedOK, RunQueue, BlockedFound, NoThreadLost
  <1>4. QED
    BY <1>1, <1>2, <1>3, Invariance, PTL DEF Spec

(* No wakeup is lost: as long as threads sleep on a semaphore, there are at  *)
(* least as many threads that sema_up has woken and that have not tested the *)
(* value yet as the semaphore has units.                                     *)
THEOREM NoLostWakeupHolds == Spec => []NoLostWakeup
  <1>1. Init => NoLostWakeup
    BY Zenon DEF Init, NoLostWakeup
  <1>2. IInv /\ NoLostWakeup /\ [Next]_vars => NoLostWakeup'
    BY NextKind, KindNoLostWakeup, Zenon
  <1>3. QED
    BY <1>1, <1>2, Invariance, PTL DEF Spec
=============================================================================
