------------------------------ MODULE Process ------------------------------
(***************************************************************************)
(* Starting, waiting for and ending processes: process_execute, load's     *)
(* handshake, process_wait and thread_exit, over the three semaphores of   *)
(* struct thread.  A process is known by the page of its struct thread,    *)
(* which is freed when it dies and may be used again.  Threads interleave  *)
(* freely between the reads and writes of what they share; the semaphores  *)
(* are counters (module Threads says why they may be).                     *)
(***************************************************************************)
EXTENDS Integers, Sequences

CONSTANTS
  Page,          \* pages for a struct thread
  Main, NULL,
  MaxTid,        \* bound: tids that allocate_tid gives out
  ExitStatus,    \* what programs pass to exit
  PagesRunOut,   \* whether palloc_get_page may fail
  LoadsFail,     \* whether load may fail
  Killed,        \* whether programs raise exceptions other than page faults
  Orphans        \* whether a program may end with children it has not waited for

TID_ERROR == -1
Freed == -858993460     \* an int read from a freed page, which is all 0xcc

ASSUME ProcessAssumption ==
  /\ Main \in Page /\ NULL \notin Page
  /\ MaxTid \in Nat \ {0}
  /\ ExitStatus \subseteq Int
  /\ {PagesRunOut, LoadsFail, Killed, Orphans} \subseteq BOOLEAN

VARIABLES
  all_list,                                  \* all threads, oldest first
  tid, parent, exit_status,
  block_parent, block_child, wait_for_load,  \* semaphore values
  child_list,                                \* the kid of each node
  pc,                                        \* where each thread is
  child_thread,                              \* local of exec and of wait
  want,                                      \* the tid that they look for
  ret,                                       \* the last call and its result
  ended,                                     \* how each process has ended
  next_tid,
  panic                                      \* the kernel has crashed

thread == <<tid, parent, exit_status, block_parent, block_child, wait_for_load, child_list>>
vars == <<all_list, thread, pc, child_thread, want, ret, ended, next_tid, panic>>

Members(s) == {s[i] : i \in DOMAIN s}

Live(t) == t \in Members(all_list)

(* list_remove of the element at position i. *)
RemoveAt(s, i) == [j \in 1 .. Len(s) - 1 |-> s[IF j < i THEN j ELSE j + 1]]

NoCall == [call |-> "none", arg |-> 0, val |-> 0, found |-> FALSE]

(* The main thread, which has no parent. *)
Init ==
  /\ all_list = <<Main>>
  /\ tid = [t \in Page |-> IF t = Main THEN 1 ELSE 0]
  /\ parent = [t \in Page |-> NULL]
  /\ exit_status = [t \in Page |-> 0]
  /\ block_parent = [t \in Page |-> 0]
  /\ block_child = [t \in Page |-> 0]
  /\ wait_for_load = [t \in Page |-> 0]
  /\ child_list = [t \in Page |-> <<>>]
  /\ pc = [t \in Page |-> IF t = Main THEN "run" ELSE "free"]
  /\ child_thread = [t \in Page |-> NULL]
  /\ want = [t \in Page |-> 0]
  /\ ret = [t \in Page |-> NoCall]
  /\ ended = {}
  /\ next_tid = 2
  /\ panic = FALSE

Goto(t, l) == pc' = [pc EXCEPT ![t] = l]

Return(t, call, arg, val, found) ==
  ret' = [ret EXCEPT ![t] = [call |-> call, arg |-> arg, val |-> val, found |-> found]]

(* The locals of a call are gone when it returns. *)
Forget(t) ==
  /\ child_thread' = [child_thread EXCEPT ![t] = NULL]
  /\ want' = [want EXCEPT ![t] = 0]

(* system_exit_helper, up to thread_exit. *)
Ends(t, s) ==
  /\ exit_status' = [exit_status EXCEPT ![t] = s]
  /\ ended' = ended \cup {[tid |-> tid[t], status |-> s]}
  /\ Goto(t, "exit")

(* The loop over all_list reads the page of a thread that has died: the link *)
(* in it is poison, and following it is a fault at a kernel address, which   *)
(* page_fault answers with exit (-1).                                        *)
FollowsPoison(p) ==
  /\ ~ Live(child_thread[p])
  /\ Ends(p, -1)
  /\ UNCHANGED <<all_list, tid, parent, block_parent, block_child, wait_for_load, child_list,
                 child_thread, want, ret, next_tid, panic>>
-----------------------------------------------------------------------------
(* process_execute, in the parent. *)

(* main() runs one task after another and waits for each. *)
MayExec(p) == p = Main => ret[p].call # "exec"

(* thread_create of child c: a page, init_thread, a tid, the ready list.     *)
(* The fields of a free page have the values that init_thread gives them     *)
(* (see Die).                                                                *)
Create(p, c) ==
  /\ pc[c] = "free" /\ next_tid <= MaxTid
  /\ all_list' = Append(all_list, c)
  /\ tid' = [tid EXCEPT ![c] = next_tid]
  /\ want' = [want EXCEPT ![p] = next_tid]
  /\ next_tid' = next_tid + 1
  /\ pc' = [pc EXCEPT ![p] = "walk", ![c] = "load"]
  /\ UNCHANGED <<parent, exit_status, block_parent, block_child, wait_for_load, child_list>>

(* No page for the new thread: register_child_with_parent goes on with       *)
(* TID_ERROR.                                                                *)
CreateFails(p) ==
  /\ PagesRunOut
  /\ want' = [want EXCEPT ![p] = TID_ERROR]
  /\ Goto(p, "walk")
  /\ UNCHANGED <<all_list, thread, next_tid>>

(* No page for the copy of the file name. *)
ExecFails(p) ==
  /\ PagesRunOut
  /\ Return(p, "exec", TID_ERROR, TID_ERROR, FALSE)
  /\ UNCHANGED <<all_list, thread, want, next_tid, pc, child_thread>>

Exec(p) ==
  /\ pc[p] = "run" /\ MayExec(p)
  /\ \/ ExecFails(p)
     \/ /\ CreateFails(p) \/ \E c \in Page : Create(p, c)
        /\ child_thread' = [child_thread EXCEPT ![p] = Head(all_list)]
        /\ ret' = [ret EXCEPT ![p] = NoCall]
  /\ UNCHANGED <<ended, panic>>

(* The loop goes on from child_thread, or ends if that was the last thread.  *)
Advance(p) ==
  LET i == CHOOSE j \in DOMAIN all_list : all_list[j] = child_thread[p] IN
  IF i = Len(all_list)
  THEN Goto(p, "return") /\ UNCHANGED child_thread
  ELSE /\ child_thread' = [child_thread EXCEPT ![p] = all_list[i + 1]]
       /\ Goto(p, "walk")

(* One turn of the loop over all_list, until the thread sought is found: its *)
(* parent is set.                                                            *)
Walk(p) ==
  /\ pc[p] = "walk"
  /\ \/ FollowsPoison(p)
     \/ /\ Live(child_thread[p])
        /\ tid[child_thread[p]] # want[p]
        /\ Advance(p)
        /\ UNCHANGED <<all_list, thread, want, ret, ended, next_tid, panic>>
     \/ /\ Live(child_thread[p])
        /\ tid[child_thread[p]] = want[p]
        /\ parent' = [parent EXCEPT ![child_thread[p]] = p]
        /\ Goto(p, "await")
        /\ UNCHANGED <<all_list, tid, exit_status, block_parent, block_child, wait_for_load,
                       child_list, child_thread, want, ret, ended, next_tid, panic>>

(* sema_down (&thread_current ()->wait_for_load). *)
AwaitLoad(p) ==
  /\ pc[p] = "await"
  /\ wait_for_load[p] > 0
  /\ wait_for_load' = [wait_for_load EXCEPT ![p] = @ - 1]
  /\ Goto(p, "register")
  /\ UNCHANGED <<all_list, tid, parent, exit_status, block_parent, block_child, child_list,
                 child_thread, want, ret, ended, next_tid, panic>>

(* The end of a turn of the loop for the thread that was found.  A child     *)
(* whose load failed is let go, and the loop goes on; otherwise it becomes   *)
(* a child of ours, if there is a page for the node: if not, writing to the  *)
(* node faults at address 0, which is exit (-1).  The thread found is live   *)
(* here (ChildThreadLive).                                                   *)
Register(p) ==
  LET c == child_thread[p] IN
  /\ pc[p] = "register"
  /\ \/ /\ tid[c] < 0
        /\ block_child' = [block_child EXCEPT ![c] = @ + 1]
        /\ Goto(p, "advance")
        /\ UNCHANGED <<all_list, tid, parent, exit_status, block_parent, wait_for_load,
                       child_list, child_thread, want, ret, ended, next_tid, panic>>
     \/ /\ tid[c] >= 0
        /\ child_list' = [child_list EXCEPT ![p] = Append(@, c)]
        /\ Goto(p, "return")
        /\ UNCHANGED <<all_list, tid, parent, exit_status, block_parent, block_child,
                       wait_for_load, child_thread, want, ret, ended, next_tid, panic>>
     \/ /\ tid[c] >= 0 /\ PagesRunOut
        /\ Ends(p, -1)
        /\ UNCHANGED <<all_list, tid, parent, block_parent, block_child, wait_for_load,
                       child_list, child_thread, want, ret, next_tid, panic>>

(* list_next on the child that has just been let go. *)
AdvancePast(p) ==
  /\ pc[p] = "advance"
  /\ \/ FollowsPoison(p)
     \/ /\ Live(child_thread[p])
        /\ Advance(p)
        /\ UNCHANGED <<all_list, thread, want, ret, ended, next_tid, panic>>

(* return child_thread->tid, whichever thread the loop ended at. *)
ExecReturn(p) ==
  LET c == child_thread[p] IN
  /\ pc[p] = "return"
  /\ Return(p, "exec", want[p], IF Live(c) THEN tid[c] ELSE Freed, TRUE)
  /\ Goto(p, "run")
  /\ Forget(p)
  /\ UNCHANGED <<all_list, thread, ended, next_tid, panic>>
-----------------------------------------------------------------------------
(* start_process and load, in the child. *)

(* The work of load; when it fails the child's tid becomes -1.  When there   *)
(* is no frame for the stack the child ends inside setup_stack, without a    *)
(* word to the parent: no frame found (-6), or not installed (-532, or -1 if *)
(* another process has it).                                                  *)
Load(c) ==
  /\ pc[c] = "load"
  /\ \/ Goto(c, "notify") /\ UNCHANGED <<tid, exit_status, ended>>
     \/ /\ LoadsFail
        /\ Goto(c, "notify")
        /\ tid' = [tid EXCEPT ![c] = -1]
        /\ UNCHANGED <<exit_status, ended>>
     \/ /\ LoadsFail
        /\ \E s \in {-6, -532, -1} : Ends(c, s)
        /\ UNCHANGED tid
  /\ UNCHANGED <<all_list, parent, block_parent, block_child, wait_for_load,
                 child_list, child_thread, want, ret, next_tid, panic>>

(* sema_up (&thread_current ()->parent->wait_for_load), then the program     *)
(* runs, or the thread exits if load has failed.  With no parent yet this is *)
(* a fault at a low address, which the page fault handler takes for a bad    *)
(* access of the program: exit (-1).                                         *)
Notify(c) ==
  /\ pc[c] = "notify"
  /\ \/ /\ parent[c] # NULL
        /\ wait_for_load' = [wait_for_load EXCEPT ![parent[c]] = @ + 1]
        /\ Goto(c, IF tid[c] < 0 THEN "exit" ELSE "run")
        /\ UNCHANGED <<exit_status, ended>>
     \/ /\ parent[c] = NULL
        /\ Ends(c, -1)
        /\ UNCHANGED wait_for_load
  /\ UNCHANGED <<all_list, tid, parent, block_parent, block_child, child_list,
                 child_thread, want, ret, next_tid, panic>>
-----------------------------------------------------------------------------
(* process_wait. *)

(* The tids that a process may wait for: main() waits for what the last      *)
(* process_execute returned, a program for any.                              *)
WaitArg(p) ==
  IF p = Main THEN IF ret[p].call = "exec" THEN {ret[p].val} ELSE {}
              ELSE 1 .. MaxTid

(* The search of the child list.  Only its owner changes that list. *)
Wait(p, t) ==
  LET s == child_list[p]
      hits == {i \in DOMAIN s : tid[s[i]] = t} IN
  /\ pc[p] = "run"
  /\ \/ /\ hits = {}
        /\ Return(p, "wait", 0, -1, FALSE)
        /\ UNCHANGED <<pc, child_thread, want>>
     \/ /\ \E i \in hits : /\ \A j \in hits : i <= j
                          /\ child_thread' = [child_thread EXCEPT ![p] = s[i]]
        /\ want' = [want EXCEPT ![p] = t]
        /\ Goto(p, "waiting")
        /\ ret' = [ret EXCEPT ![p] = NoCall]
  /\ UNCHANGED <<all_list, thread, ended, next_tid, panic>>

(* Mutant: the parent does not wait for the child's end. *)
WaitDownNot(p) ==
  /\ pc[p] = "waiting"
  /\ Goto(p, "fetch")
  /\ UNCHANGED <<all_list, thread, child_thread, want, ret, ended, next_tid, panic>>

(* sema_down (&child_thread->block_parent). *)
WaitDown(p) ==
  /\ pc[p] = "waiting"
  /\ block_parent[child_thread[p]] > 0
  /\ block_parent' = [block_parent EXCEPT ![child_thread[p]] = @ - 1]
  /\ Goto(p, "fetch")
  /\ UNCHANGED <<all_list, tid, parent, exit_status, block_child, wait_for_load, child_list,
                 child_thread, want, ret, ended, next_tid, panic>>

(* Mutant: the node stays on the list. *)
WaitFetchKeepsNode(p) ==
  LET c == child_thread[p] IN
  /\ pc[p] = "fetch"
  /\ Return(p, "wait", want[p], exit_status[c], TRUE)
  /\ Goto(p, "release")
  /\ UNCHANGED <<all_list, thread, child_thread, want, ended, next_tid, panic>>

(* The status is read and the node leaves the list. *)
WaitFetch(p) ==
  LET c == child_thread[p] IN
  /\ pc[p] = "fetch"
  /\ Return(p, "wait", want[p], exit_status[c], TRUE)
  /\ \E i \in DOMAIN child_list[p] :
       child_list[p][i] = c /\ child_list' = [child_list EXCEPT ![p] = RemoveAt(@, i)]
  /\ Goto(p, "release")
  /\ UNCHANGED <<all_list, tid, parent, exit_status, block_parent, block_child, wait_for_load,
                 child_thread, want, ended, next_tid, panic>>

(* sema_up (&child_thread->block_child): the child may die. *)
WaitUp(p) ==
  /\ pc[p] = "release"
  /\ block_child' = [block_child EXCEPT ![child_thread[p]] = @ + 1]
  /\ Goto(p, "run")
  /\ Forget(p)
  /\ UNCHANGED <<all_list, tid, parent, exit_status, block_parent, wait_for_load, child_list,
                 ret, ended, next_tid, panic>>
-----------------------------------------------------------------------------
(* thread_exit. *)

MayEnd(p) == p # Main /\ pc[p] = "run" /\ (Orphans \/ child_list[p] = <<>>)

(* system_exit_helper: the exit call, a bad pointer, a bad page fault. *)
ExitCall(p, s) ==
  /\ MayEnd(p)
  /\ Ends(p, s)
  /\ UNCHANGED <<all_list, tid, parent, block_parent, block_child, wait_for_load, child_list,
                 child_thread, want, ret, next_tid, panic>>

(* kill: any other exception of the program; it sets no exit status. *)
Kill(p) ==
  /\ Killed /\ MayEnd(p)
  /\ ended' = ended \cup {[tid |-> tid[p], status |-> exit_status[p]]}
  /\ Goto(p, "exit")
  /\ UNCHANGED <<all_list, thread, child_thread, want, ret, next_tid, panic>>

(* Mutant: the parent is told only of children that were not killed. *)
ExitUpSilent(p) ==
  /\ pc[p] = "exit"
  /\ child_list[p] = <<>>
  /\ IF exit_status[p] = 0 THEN UNCHANGED block_parent
     ELSE block_parent' = [block_parent EXCEPT ![p] = @ + 1]
  /\ Goto(p, "leave")
  /\ UNCHANGED <<all_list, tid, parent, exit_status, block_child, wait_for_load, child_list,
                 child_thread, want, ret, ended, next_tid, panic>>

(* The loop that lets the remaining children go frees the node of the first  *)
(* one and then follows the link in that node, which is poison by then, so   *)
(* that the thread ends with -1 inside thread_exit and comes here again.     *)
(* The child list cannot be used any more: it is modelled as empty.  With no *)
(* children left, the parent is told; page_clear_all asserts that the thread *)
(* has a supplemental page table, which main's has not.                      *)
ExitUp(p) ==
  /\ pc[p] = "exit"
  /\ \/ /\ child_list[p] # <<>>
        /\ block_child' = [block_child EXCEPT ![Head(child_list[p])] = @ + 1]
        /\ child_list' = [child_list EXCEPT ![p] = <<>>]
        /\ Goto(p, "again")
        /\ UNCHANGED <<block_parent, panic>>
     \/ /\ child_list[p] = <<>>
        /\ block_parent' = [block_parent EXCEPT ![p] = @ + 1]
        /\ panic' = (p = Main)
        /\ Goto(p, "leave")
        /\ UNCHANGED <<block_child, child_list>>
  /\ UNCHANGED <<all_list, tid, parent, exit_status, wait_for_load,
                 child_thread, want, ret, ended, next_tid>>

(* thread_exit for the second time: the executable is closed again and the   *)
(* child list is begun again at a node that was freed.  Each of these fails  *)
(* an assertion, or faults and comes here once more until the kernel stack   *)
(* has overflowed.                                                           *)
ExitAgain(p) ==
  /\ pc[p] = "again"
  /\ panic' = TRUE
  /\ UNCHANGED <<all_list, thread, pc, child_thread, want, ret, ended, next_tid>>

(* A thread without parent dies at once, others wait to be let go. *)
ExitTest(p) ==
  /\ pc[p] = "leave"
  /\ Goto(p, IF parent[p] = NULL THEN "die" ELSE "zombie")
  /\ UNCHANGED <<all_list, thread, child_thread, want, ret, ended, next_tid, panic>>

(* sema_down (&thread_current ()->block_child). *)
ExitDown(p) ==
  /\ pc[p] = "zombie"
  /\ block_child[p] > 0
  /\ block_child' = [block_child EXCEPT ![p] = @ - 1]
  /\ Goto(p, "die")
  /\ UNCHANGED <<all_list, tid, parent, exit_status, block_parent, wait_for_load, child_list,
                 child_thread, want, ret, ended, next_tid, panic>>

(* The thread leaves all_list; its page is freed by the next one to run.     *)
(* Free pages hold what init_thread will write, so that states differ only   *)
(* in live threads: whoever reads a free page is told apart by Live.         *)
Die(p) ==
  /\ pc[p] = "die"
  /\ \E i \in DOMAIN all_list : all_list[i] = p /\ all_list' = RemoveAt(all_list, i)
  /\ Goto(p, "free")
  /\ tid' = [tid EXCEPT ![p] = 0]
  /\ parent' = [parent EXCEPT ![p] = NULL]
  /\ exit_status' = [exit_status EXCEPT ![p] = 0]
  /\ block_parent' = [block_parent EXCEPT ![p] = 0]
  /\ block_child' = [block_child EXCEPT ![p] = 0]
  /\ wait_for_load' = [wait_for_load EXCEPT ![p] = 0]
  /\ child_thread' = [child_thread EXCEPT ![p] = NULL]
  /\ ret' = [ret EXCEPT ![p] = NoCall]
  /\ UNCHANGED <<child_list, want, ended, next_tid, panic>>
-----------------------------------------------------------------------------
InExec(p) == Walk(p) \/ AwaitLoad(p) \/ Register(p) \/ AdvancePast(p) \/ ExecReturn(p)
InLoad(p) == Load(p) \/ Notify(p)
InWait(p) == WaitDown(p) \/ WaitFetch(p) \/ WaitUp(p)
InExit(p) == ExitUp(p) \/ ExitAgain(p) \/ ExitTest(p) \/ ExitDown(p) \/ Die(p)

(* A thread inside the kernel goes on. *)
KernelStep(p) == ~ panic /\ (InExec(p) \/ InLoad(p) \/ InWait(p) \/ InExit(p))

Next ==
  \E p \in Page :
    \/ KernelStep(p)
    \/ /\ ~ panic
       /\ \/ Exec(p)
          \/ \E t \in WaitArg(p) : Wait(p, t)
          \/ \E s \in ExitStatus : ExitCall(p, s)
          \/ Kill(p)

Spec == Init /\ [][Next]_vars

(* The timer preempts whoever runs: no thread that can go on is left out. *)
FairSpec == Spec /\ \A p \in Page : WF_vars(KernelStep(p))
-----------------------------------------------------------------------------
(* Properties. *)

(* No pointer to a child outlives it.  Who is on the child list of a live    *)
(* process is a live process that it started, whose load has succeeded, that *)
(* nobody has let go yet, and that is on no list twice; and a thread that    *)
(* waits for its child, or registers it, holds a pointer to a thread that    *)
(* has not died: process_wait never follows a pointer into a freed page,     *)
(* however the ends of parents and children interleave.                      *)
KidsAreLive ==
  /\ \A p \in Page : Live(p) =>
    /\ \A k \in Members(child_list[p]) :
         /\ Live(k) /\ parent[k] = p
         /\ tid[k] > 0
         /\ pc[k] \notin {"load", "notify", "die"}
         /\ block_child[k] = 0
    /\ \A i, j \in DOMAIN child_list[p] : child_list[p][i] = child_list[p][j] => i = j
  /\ \A p \in Page : pc[p] \in {"register", "waiting", "fetch", "release"} => Live(child_thread[p])

(* What process_wait returns for a child is the status with which the child  *)
(* with that tid ended, although another process may have its page by then.  *)
StatusDelivered ==
  \A p \in Page : pc[p] = "run" /\ ret[p].call = "wait" /\ ret[p].found =>
    \E e \in ended : e.tid = ret[p].arg /\ e.status = ret[p].val

(* A process that waits for a child that is ending is served.                *)
WaitReturns ==
  \A p \in Page, c \in Page :
    (pc[p] = "waiting" /\ child_thread[p] = c /\ pc[c] = "exit")
      ~> (pc[p] = "run" /\ ret[p].call = "wait")

(* Claims of comments that the code does not keep. *)

(* process.c: "The new thread may be scheduled (and may even exit) before    *)
(* process_execute() returns" - so that it does return.                      *)
ExecReturns == \A p \in Page : pc[p] = "await" ~> pc[p] # "await"

(* thread.c: "if we are parent, we will sema up all remaining children's     *)
(* block_child sema" - so that this is done when the thread leaves the loop. *)
ChildrenLetGo ==
  [][\A p \in Page : pc[p] = "exit" /\ pc'[p] # "exit" =>
       \A k \in Members(child_list[p]) : block_child'[k] > 0]_vars
=============================================================================
