--------------------------- MODULE ProcessProofs ----------------------------
(***************************************************************************)
(* Proofs about module Process: no pointer to a child outlives the child,  *)
(* and process_wait returns the status of the child it was asked for, for  *)
(* any number of pages, tids and exit statuses, with loads and allocations *)
(* that fail, killed programs and orphans.                                 *)
(***************************************************************************)
EXTENDS Process, TLAPS

(* What is where in the kernel. *)
Exec1 == {"walk", "await", "register", "advance", "return"}
Wait1 == {"waiting", "fetch", "release"}
Exit1 == {"exit", "again", "leave", "zombie"}
Label == {"free", "load", "notify", "run", "die"} \cup Exec1 \cup Wait1 \cup Exit1

TypeOK ==
  /\ all_list \in Seq(Page) /\ child_list \in [Page -> Seq(Page)]
  /\ tid \in [Page -> Int] /\ parent \in [Page -> Page \cup {NULL}]
  /\ exit_status \in [Page -> Int]
  /\ block_parent \in [Page -> Nat] /\ block_child \in [Page -> Nat]
  /\ wait_for_load \in [Page -> Nat]
  /\ pc \in [Page -> Label] /\ child_thread \in [Page -> Page \cup {NULL}]
  /\ want \in [Page -> Int] /\ next_tid \in Nat \ {0} /\ panic \in BOOLEAN
  /\ DOMAIN ret = Page

(* A list element is on a list once. *)
Once(s) == \A i, j \in DOMAIN s : s[i] = s[j] => i = j

(* The threads on all_list are those whose page is in use. *)
ListInv == Once(all_list) /\ \A t \in Page : Live(t) <=> pc[t] # "free"

(* What thread p itself knows. *)
PlaceAt(p) ==
  /\ pc[p] \in Exec1 \cup Wait1 => child_thread[p] \in Page
  /\ pc[p] \in {"again", "leave", "zombie", "die", "free", "load", "notify"} => child_list[p] = <<>>
  /\ pc[p] \in {"free", "load", "notify"} => block_child[p] = 0
  /\ pc[p] = "free" => parent[p] = NULL
  /\ Once(child_list[p])
  /\ wait_for_load[p] > 0 => pc[p] = "await" /\ wait_for_load[p] = 1

(* A tid is that of one thread, or -1 when the load of the thread has        *)
(* failed.                                                                   *)
TidAt(p) ==
  /\ -1 <= tid[p] /\ tid[p] < next_tid /\ want[p] < next_tid
  /\ tid[p] = 0 <=> pc[p] = "free"
  /\ pc[p] \in {"waiting", "fetch"} => tid[child_thread[p]] = want[p]

(* The thread that process_execute looks for is its own child: nobody else   *)
(* looks for it, and it has no parent until it is found.                     *)
SeekAt(p) ==
  /\ pc[p] \in {"walk", "advance"} /\ want[p] > 0 =>
       \A c \in Page : tid[c] = want[p] => parent[c] = NULL
  /\ pc[p] \in {"await", "register"} /\ want[p] > 0 =>
       \A c \in Page : tid[c] = want[p] => c = child_thread[p]

Seeking == {"walk", "await", "register", "advance"}

Apart(p, q) ==
  /\ tid[p] > 0 /\ tid[p] = tid[q] => p = q
  /\ pc[p] \in Seeking /\ pc[q] \in Seeking /\ want[p] > 0 /\ want[p] = want[q] => p = q

(* A child that has not told its parent of its load yet: its parent awaits   *)
(* just that.                                                                *)
FreshAt(c) ==
  pc[c] \in {"load", "notify"} /\ parent[c] # NULL =>
    /\ pc[parent[c]] = "await" /\ child_thread[parent[c]] = c /\ wait_for_load[parent[c]] = 0

(* Thread p has a pointer to its child, which it will let go.                *)
Tied(p) == \/ pc[p] \in {"register", "waiting", "fetch", "release"}
           \/ pc[p] = "await" /\ wait_for_load[p] > 0
Kid(p, c) == c \in Members(child_list[p])
Hold(p, c) == (Tied(p) /\ child_thread[p] = c) \/ Kid(p, c)

(* Then c has loaded and cannot die, and only p can let it go.               *)
HeldAt(p, c) ==
  Hold(p, c) =>
    /\ pc[c] \in {"run"} \cup Exec1 \cup Wait1 \cup Exit1
    /\ block_child[c] = 0
    /\ parent[c] # NULL /\ (tid[c] > 0 => parent[c] = p)
    /\ \A q \in Page : Hold(q, c) => q = p

(* When p's pointer and p's list agree. *)
KidsAt(p) ==
  /\ \A c \in Page : Kid(p, c) => tid[c] > 0
  /\ pc[p] \in {"waiting", "fetch"} => Kid(p, child_thread[p])
  /\ pc[p] \in {"register", "release"} => ~ Kid(p, child_thread[p])
  /\ pc[p] = "await" /\ wait_for_load[p] > 0 => ~ Kid(p, child_thread[p])

(* The status with which a thread has ended is in place before its parent is *)
(* told.                                                                     *)
EndAt(c) ==
  /\ block_parent[c] > 0 => pc[c] \in {"leave", "zombie", "die"}
  /\ pc[c] \in Exit1 \cup {"die"} /\ tid[c] > 0 =>
       [tid |-> tid[c], status |-> exit_status[c]] \in ended
  /\ pc[c] = "fetch" => pc[child_thread[c]] \in {"leave", "zombie"}

RetAt(p) ==
  ret[p].call = "wait" /\ ret[p].found =>
    \E e \in ended : e.tid = ret[p].arg /\ e.status = ret[p].val

PInv ==
  /\ TypeOK /\ ListInv
  /\ \A p \in Page : PlaceAt(p) /\ TidAt(p) /\ SeekAt(p) /\ FreshAt(p) /\ KidsAt(p)
  /\ \A p, q \in Page : Apart(p, q) /\ HeldAt(p, q)
  /\ \A p \in Page : EndAt(p) /\ RetAt(p)
-----------------------------------------------------------------------------
(* The steps, one alternative for each way in which they change the state.   *)

RetKept ==
  /\ DOMAIN ret' = Page
  /\ \A q \in Page : ret'[q] = ret[q] \/ ~ (ret'[q].call = "wait" /\ ret'[q].found)

(* Calls that fail, the search of all_list, and returns. *)
Strolls(p, l, c, w) ==
  /\ pc[p] \in {"run", "walk", "advance", "return"}
  /\ (l # "run" => c \in Page) /\ w \in {TID_ERROR, 0, want[p]}
  /\ w > 0 /\ l # "run" => w = want[p] /\ pc[p] \in {"walk", "advance"}
  /\ Goto(p, l) /\ RetKept
  /\ child_thread' = [child_thread EXCEPT ![p] = c] /\ want' = [want EXCEPT ![p] = w]
  /\ UNCHANGED <<all_list, thread, ended, next_tid, panic>>

(* p creates c, and begins its search at h. *)
Creates(p, c, h) ==
  /\ pc[p] = "run" /\ pc[c] = "free"
  /\ all_list' = Append(all_list, c)
  /\ tid' = [tid EXCEPT ![c] = next_tid] /\ next_tid' = next_tid + 1
  /\ want' = [want EXCEPT ![p] = next_tid] /\ child_thread' = [child_thread EXCEPT ![p] = h]
  /\ pc' = [pc EXCEPT ![p] = "walk", ![c] = "load"] /\ RetKept
  /\ UNCHANGED <<parent, exit_status, block_parent, block_child, wait_for_load, child_list,
                 ended, panic>>

Finds(p, c) ==
  /\ pc[p] = "walk" /\ child_thread[p] = c /\ Live(c) /\ tid[c] = want[p]
  /\ parent' = [parent EXCEPT ![c] = p]
  /\ Goto(p, "await")
  /\ UNCHANGED <<all_list, tid, exit_status, block_parent, block_child, wait_for_load,
                 child_list, child_thread, want, ret, ended, next_tid, panic>>

(* p lets a child go: one whose load has failed, or one it has waited for. *)
Drops(p, c) ==
  /\ pc[p] = "register" /\ child_thread[p] = c /\ tid[c] < 0
  /\ block_child' = [block_child EXCEPT ![c] = @ + 1]
  /\ Goto(p, "advance")
  /\ UNCHANGED <<all_list, tid, parent, exit_status, block_parent, wait_for_load, child_list,
                 child_thread, want, ret, ended, next_tid, panic>>

Adds(p, c) ==
  /\ pc[p] = "register" /\ child_thread[p] = c /\ tid[c] >= 0
  /\ child_list' = [child_list EXCEPT ![p] = Append(@, c)]
  /\ Goto(p, "return")
  /\ UNCHANGED <<all_list, tid, parent, exit_status, block_parent, block_child, wait_for_load,
                 child_thread, want, ret, ended, next_tid, panic>>

(* A program ends, however it comes to it. *)
Finishes(p, s) ==
  /\ pc[p] \in {"run", "walk", "register", "advance", "load", "notify"}
  /\ exit_status' = [exit_status EXCEPT ![p] = s]
  /\ ended' = ended \cup {[tid |-> tid[p], status |-> s]}
  /\ Goto(p, "exit")
  /\ UNCHANGED <<all_list, tid, parent, block_parent, block_child, wait_for_load, child_list,
                 child_thread, want, ret, next_tid, panic>>

Loads(c, n) ==
  /\ pc[c] = "load" /\ n \in {-1, tid[c]}
  /\ tid' = [tid EXCEPT ![c] = n]
  /\ Goto(c, "notify")
  /\ UNCHANGED <<all_list, parent, exit_status, block_parent, block_child, wait_for_load,
                 child_list, child_thread, want, ret, ended, next_tid, panic>>

Notifies(c, q, l) ==
  /\ pc[c] = "notify" /\ parent[c] = q /\ (l = "exit" => tid[c] < 0)
  /\ wait_for_load' = [wait_for_load EXCEPT ![q] = @ + 1]
  /\ Goto(c, l)
  /\ UNCHANGED <<all_list, tid, parent, exit_status, block_parent, block_child, child_list,
                 child_thread, want, ret, ended, next_tid, panic>>

WaitsFor(p, c) ==
  /\ pc[p] = "run" /\ Kid(p, c)
  /\ child_thread' = [child_thread EXCEPT ![p] = c] /\ want' = [want EXCEPT ![p] = tid[c]]
  /\ Goto(p, "waiting") /\ RetKept
  /\ UNCHANGED <<all_list, thread, ended, next_tid, panic>>

(* c is at position i of the child list. *)
Fetches(p, c, i) ==
  /\ pc[p] = "fetch" /\ child_thread[p] = c /\ child_list[p][i] = c
  /\ Return(p, "wait", want[p], exit_status[c], TRUE)
  /\ child_list' = [child_list EXCEPT ![p] = RemoveAt(@, i)]
  /\ Goto(p, "release")
  /\ UNCHANGED <<all_list, tid, parent, exit_status, block_parent, block_child, wait_for_load,
                 child_thread, want, ended, next_tid, panic>>

(* The loop of thread_exit lets the first child go, and is left by a fault. *)
Loses(p, k) ==
  /\ pc[p] = "exit" /\ Kid(p, k)
  /\ block_child' = [block_child EXCEPT ![k] = @ + 1]
  /\ child_list' = [child_list EXCEPT ![p] = <<>>]
  /\ Goto(p, "again")
  /\ UNCHANGED <<all_list, tid, parent, exit_status, block_parent, wait_for_load,
                 child_thread, want, ret, ended, next_tid, panic>>

Tells(p) ==
  /\ pc[p] = "exit" /\ child_list[p] = <<>>
  /\ block_parent' = [block_parent EXCEPT ![p] = @ + 1]
  /\ panic' \in BOOLEAN
  /\ Goto(p, "leave")
  /\ UNCHANGED <<all_list, tid, parent, exit_status, block_child, wait_for_load, child_list,
                 child_thread, want, ret, ended, next_tid>>

(* p is at position i of all_list. *)
Dies(p, i) ==
  /\ pc[p] = "die" /\ all_list[i] = p
  /\ all_list' = RemoveAt(all_list, i)
  /\ Goto(p, "free")
  /\ tid' = [tid EXCEPT ![p] = 0] /\ parent' = [parent EXCEPT ![p] = NULL]
  /\ exit_status' = [exit_status EXCEPT ![p] = 0]
  /\ block_parent' = [block_parent EXCEPT ![p] = 0]
  /\ block_child' = [block_child EXCEPT ![p] = 0]
  /\ wait_for_load' = [wait_for_load EXCEPT ![p] = 0]
  /\ child_thread' = [child_thread EXCEPT ![p] = NULL] /\ RetKept
  /\ UNCHANGED <<child_list, want, ended, next_tid, panic>>

(* A step of p. *)
Step(p) ==
  \/ KernelStep(p)
  \/ ~ panic /\ Exec(p)
  \/ ~ panic /\ \E t \in WaitArg(p) : Wait(p, t)
  \/ ~ panic /\ \E s \in ExitStatus : ExitCall(p, s)
  \/ ~ panic /\ Kill(p)

Alternatives(p) ==
  \/ \E l \in {"run", "walk", "return"}, c \in Page \cup {NULL}, w \in Int : Strolls(p, l, c, w)
  \/ \E c \in Page, h \in Page : Creates(p, c, h)
  \/ \E c \in Page : Finds(p, c) \/ Drops(p, c) \/ Adds(p, c) \/ WaitsFor(p, c) \/ Loses(p, c)
  \/ \E s \in Int : Finishes(p, s)
  \/ \E n \in Int : Loads(p, n)
  \/ \E q \in Page, l \in {"run", "exit"} : Notifies(p, q, l)
  \/ \E c \in Page : \E i \in DOMAIN child_list[p] : Fetches(p, c, i)
  \/ \E i \in DOMAIN all_list : Dies(p, i)
  \/ AwaitLoad(p) \/ WaitDown(p) \/ WaitUp(p) \/ Tells(p) \/ ExitAgain(p) \/ ExitTest(p)
  \/ ExitDown(p)
-----------------------------------------------------------------------------
(* Lists. *)

LEMMA AppendList ==
  ASSUME NEW S, NEW s \in Seq(S), NEW x \in S
  PROVE  /\ Append(s, x) \in Seq(S) /\ Members(Append(s, x)) = Members(s) \cup {x}
         /\ Once(s) /\ x \notin Members(s) => Once(Append(s, x))
  <1>1. /\ Append(s, x) \in Seq(S) /\ Len(Append(s, x)) = Len(s) + 1
        /\ \A i \in 1 .. Len(s) : Append(s, x)[i] = s[i]
        /\ Append(s, x)[Len(s) + 1] = x /\ Len(s) \in Nat
        /\ DOMAIN s = 1 .. Len(s) /\ DOMAIN Append(s, x) = 1 .. Len(s) + 1
    OBVIOUS
  <1> DEFINE t == Append(s, x)
  <1> HIDE DEF t
  <1>2. Members(t) = Members(s) \cup {x}
    BY <1>1 DEF Members, t
  <1>3. Once(s) /\ x \notin Members(s) => Once(t)
    BY <1>1 DEF Members, Once, t
  <1>4. QED
    BY <1>1, <1>2, <1>3, Zenon DEF t

LEMMA RemoveList ==
  ASSUME NEW S, NEW s \in Seq(S), NEW i \in DOMAIN s
  PROVE  /\ RemoveAt(s, i) \in Seq(S)
         /\ Once(s) => /\ Once(RemoveAt(s, i))
                       /\ Members(RemoveAt(s, i)) = Members(s) \ {s[i]}
  <1>1. /\ Len(s) \in Nat /\ DOMAIN s = 1 .. Len(s) /\ i \in 1 .. Len(s) /\ Len(s) - 1 \in Nat
        /\ \A j \in 1 .. Len(s) : s[j] \in S
    OBVIOUS
  <1> DEFINE t == RemoveAt(s, i)
  <1>2. /\ DOMAIN t = 1 .. Len(s) - 1
        /\ \A j \in 1 .. Len(s) - 1 : t[j] = s[IF j < i THEN j ELSE j + 1]
    BY Zenon DEF RemoveAt
  <1>3. t \in Seq(S)
    BY <1>1 DEF RemoveAt
  <1> HIDE DEF t
  <1>4. ASSUME Once(s) PROVE Once(t)
    <2> SUFFICES ASSUME NEW j \in 1 .. Len(s) - 1, NEW k \in 1 .. Len(s) - 1, t[j] = t[k]
                 PROVE  j = k
      BY <1>2, Zenon DEF Once
    <2> DEFINE f(n) == IF n < i THEN n ELSE n + 1
    <2>1. f(j) \in DOMAIN s /\ f(k) \in DOMAIN s
      BY <1>1
    <2>2. f(j) = f(k)
      BY <1>2, <1>4, <2>1, Zenon DEF Once
    <2>3. QED
      BY <1>1, <2>2
  <1>5. ASSUME Once(s) PROVE Members(t) = Members(s) \ {s[i]}
    <2>1. ASSUME NEW j \in 1 .. Len(s) - 1 PROVE t[j] \in Members(s) \ {s[i]}
      BY <1>1, <1>2, <1>5 DEF Members, Once
    <2>2. ASSUME NEW j \in 1 .. Len(s), s[j] # s[i] PROVE s[j] \in Members(t)
      <3>1. CASE j < i
        BY <1>1, <1>2, <3>1 DEF Members
      <3>2. CASE j > i
        <4>1. j - 1 \in 1 .. Len(s) - 1 /\ t[j - 1] = s[j]
          BY <1>1, <1>2, <3>2
        <4>2. QED
          BY <1>2, <4>1, Zenon DEF Members
      <3>3. QED
        BY <1>1, <2>2, <3>1, <3>2
    <2>3. QED
      BY <1>1, <1>2, <2>1, <2>2, Zenon DEF Members
  <1>6. QED
    BY <1>3, <1>4, <1>5, Zenon DEF t

LEMMA NextCases ==
  ASSUME TypeOK, ListInv, NEW p \in Page, PlaceAt(p), Step(p)
  PROVE  Alternatives(p)
  <1> USE DEF thread, Goto, Return, Forget, NoCall
  <1>0. Live(p) => Head(all_list) \in Page
    BY DEF Live, Members, TypeOK
  <1>1. ASSUME NEW c \in Page, Creates(p, c, Head(all_list)) PROVE Alternatives(p)
    <2>1. Live(p)
      BY <1>1, Zenon DEF Creates, ListInv
    <2>2. QED
      BY <1>0, <1>1, <2>1, Zenon DEF Alternatives
  <1>2. ASSUME NEW l \in {"run", "walk", "return"}, NEW c \in Page \cup {NULL}, NEW w \in Int,
               Strolls(p, l, c, w)
        PROVE  Alternatives(p)
    BY <1>2, Zenon DEF Alternatives
  <1>3. CASE Exec(p)
    <2>1. CASE ExecFails(p)
      <3>1. Strolls(p, "run", child_thread[p], want[p])
        BY <1>3, <2>1, Zenon DEF Exec, ExecFails, Strolls, RetKept, TypeOK
      <3>2. QED
        BY <3>1, <1>2, Zenon DEF TypeOK
    <2>2. CASE ~ ExecFails(p)
      <3>0. /\ pc[p] = "run" /\ Head(all_list) \in Page
            /\ child_thread' = [child_thread EXCEPT ![p] = Head(all_list)]
            /\ ret' = [ret EXCEPT ![p] = NoCall] /\ UNCHANGED <<ended, panic>>
        BY <1>0, <1>3, <2>2, Zenon DEF Exec, ListInv
      <3>1. CASE CreateFails(p)
        <4>1. Strolls(p, "walk", Head(all_list), -1)
          BY <3>0, <3>1 DEF CreateFails, Strolls, RetKept, TypeOK, TID_ERROR
        <4>2. QED
          BY <3>0, <4>1, <1>2
      <3>2. ASSUME NEW c \in Page, Create(p, c) PROVE Creates(p, c, Head(all_list))
        <4>1. RetKept
          BY <3>0, Zenon DEF RetKept, TypeOK
        <4>2. QED
          BY <3>0, <3>2, <4>1, Zenon DEF Create, Creates
      <3>3. QED
        BY <1>1, <1>3, <2>2, <3>1, <3>2, Zenon DEF Exec
    <2>3. QED
      BY <2>1, <2>2, Zenon
  <1>4. ASSUME pc[p] \in {"walk", "advance"}, Live(child_thread[p]), Advance(p),
               UNCHANGED <<all_list, thread, want, ret, ended, next_tid, panic>>
        PROVE  Alternatives(p)
    <2> DEFINE i == CHOOSE j \in DOMAIN all_list : all_list[j] = child_thread[p]
    <2>1. i \in DOMAIN all_list
      BY <1>4, Zenon DEF Live, Members
    <2> HIDE DEF i
    <2>2. CASE i = Len(all_list)
      <3>1. Strolls(p, "return", child_thread[p], want[p])
        BY <1>4, <2>2, Zenon DEF i, Advance, Strolls, RetKept, TypeOK, PlaceAt, Exec1
      <3>2. QED
        BY <3>1, <1>2, Zenon DEF TypeOK
    <2>3. CASE i # Len(all_list)
      <3>1. all_list[i + 1] \in Page
        <4>1. /\ Len(all_list) \in Nat /\ DOMAIN all_list = 1 .. Len(all_list)
              /\ \A j \in 1 .. Len(all_list) : all_list[j] \in Page
          BY DEF TypeOK
        <4>2. i + 1 \in 1 .. Len(all_list)
          BY <2>1, <2>3, <4>1
        <4>3. QED
          BY <4>1, <4>2, Zenon
      <3>2. Strolls(p, "walk", all_list[i + 1], want[p])
        BY <1>4, <2>3, <3>1, Zenon DEF i, Advance, Strolls, RetKept, TypeOK
      <3>3. QED
        BY <3>1, <3>2, <1>2, Zenon DEF TypeOK
    <2>4. QED
      BY <2>2, <2>3, Zenon
  <1>5. ASSUME pc[p] \in {"walk", "advance"}, FollowsPoison(p) PROVE Alternatives(p)
    <2>1. Finishes(p, -1)
      BY <1>5, Zenon DEF FollowsPoison, Ends, Finishes
    <2>2. QED
      BY <2>1 DEF Alternatives
  <1>6. CASE Walk(p)
    <2>1. CASE Finds(p, child_thread[p])
      BY <1>6, <2>1, Zenon DEF Alternatives, Walk, PlaceAt, Exec1
    <2>2. QED
      BY <1>4, <1>5, <1>6, <2>1, Zenon DEF Walk, Finds
  <1>7. CASE Register(p)
    <2>1. child_thread[p] \in Page
      BY <1>7, Zenon DEF Register, PlaceAt, Exec1
    <2>2. Drops(p, child_thread[p]) \/ Adds(p, child_thread[p]) \/ Finishes(p, -1)
      BY <1>7, Zenon DEF Register, Drops, Adds, Ends, Finishes
    <2>3. QED
      BY <2>1, <2>2 DEF Alternatives
  <1>8. CASE AdvancePast(p)
    BY <1>4, <1>5, <1>8, Zenon DEF AdvancePast
  <1>9. CASE ExecReturn(p)
    <2>1. Strolls(p, "run", NULL, 0)
      BY <1>9, Zenon DEF ExecReturn, Strolls, RetKept, TypeOK
    <2>2. QED
      BY <2>1, <1>2
  <1>10. CASE Load(p)
    <2>1. Loads(p, tid[p]) \/ Loads(p, -1) \/ \E s \in {-6, -532, -1} : Finishes(p, s)
      <3>1. ASSUME NEW s \in {-6, -532, -1}, Ends(p, s), UNCHANGED tid PROVE Finishes(p, s)
        BY <1>10, <3>1, Zenon DEF Load, Ends, Finishes
      <3>2. QED
        BY <1>10, <3>1, Zenon DEF Load, Loads, TypeOK
    <2>2. QED
      BY <2>1 DEF Alternatives, TypeOK
  <1>11. CASE Notify(p)
    <2>1. \/ Finishes(p, -1)
          \/ parent[p] \in Page /\ \E l \in {"run", "exit"} : Notifies(p, parent[p], l)
      BY <1>11, Zenon DEF Notify, Notifies, Ends, Finishes, TypeOK
    <2>2. QED
      BY <2>1 DEF Alternatives
  <1>12. ASSUME NEW t, Wait(p, t) PROVE Alternatives(p)
    <2>1. CASE UNCHANGED <<pc, child_thread, want>> /\ Return(p, "wait", 0, -1, FALSE)
      <3>1. Strolls(p, "run", child_thread[p], want[p])
        BY <1>12, <2>1, Zenon DEF Wait, Strolls, RetKept, TypeOK
      <3>2. QED
        BY <3>1, <1>2, Zenon DEF TypeOK
    <2>2. ASSUME NEW i \in DOMAIN child_list[p], tid[child_list[p][i]] = t,
                 child_thread' = [child_thread EXCEPT ![p] = child_list[p][i]],
                 want' = [want EXCEPT ![p] = t], Goto(p, "waiting"),
                 ret' = [ret EXCEPT ![p] = NoCall]
          PROVE  Alternatives(p)
      <3>1. child_list[p][i] \in Page /\ Kid(p, child_list[p][i])
        BY <2>2 DEF TypeOK, Kid, Members
      <3>2. WaitsFor(p, child_list[p][i])
        BY <1>12, <2>2, <3>1, Zenon DEF Wait, WaitsFor, RetKept, TypeOK
      <3>3. QED
        BY <3>1, <3>2, Zenon DEF Alternatives
    <2>3. QED
      BY <1>12, <2>1, <2>2, Zenon DEF Wait
  <1>13. CASE WaitFetch(p)
    <2>1. PICK i \in DOMAIN child_list[p] : Fetches(p, child_thread[p], i)
      BY <1>13, Zenon DEF WaitFetch, Fetches
    <2>2. child_thread[p] \in Page
      BY <1>13, Zenon DEF WaitFetch, PlaceAt, Wait1
    <2>3. QED
      BY <2>1, <2>2, Zenon DEF Alternatives
  <1>14. ASSUME NEW s \in ExitStatus, ExitCall(p, s) PROVE Alternatives(p)
    <2>1. Finishes(p, s) /\ s \in Int
      BY <1>14, ProcessAssumption, Zenon DEF ExitCall, MayEnd, Ends, Finishes
    <2>2. QED
      BY <2>1, Zenon DEF Alternatives
  <1>15. CASE Kill(p)
    <2>1. Finishes(p, exit_status[p])
      BY <1>15, Zenon DEF Kill, MayEnd, Finishes, TypeOK
    <2>2. QED
      BY <2>1, Zenon DEF Alternatives, TypeOK
  <1>16. CASE ExitUp(p)
    <2>1. CASE child_list[p] # <<>>
      <3>0. child_list[p] \in Seq(Page)
        BY Zenon DEF TypeOK
      <3>1. PICK k \in Page : k = Head(child_list[p])
        BY <2>1, <3>0
      <3>2. Kid(p, k)
        BY <2>1, <3>0, <3>1 DEF Kid, Members
      <3>3. Loses(p, k)
        BY <1>16, <2>1, <3>1, <3>2, Zenon DEF ExitUp, Loses
      <3>4. QED
        BY <3>3, Zenon DEF Alternatives
    <2>2. CASE child_list[p] = <<>>
      <3>1. Tells(p)
        BY <1>16, <2>2, Zenon DEF ExitUp, Tells
      <3>2. QED
        BY <3>1, Zenon DEF Alternatives
    <2>3. QED
      BY <2>1, <2>2, Zenon
  <1>17. CASE Die(p)
    <2>1. PICK i \in DOMAIN all_list : Dies(p, i)
      BY <1>17, Zenon DEF Die, Dies, RetKept, TypeOK
    <2>2. QED
      BY <2>1, Zenon DEF Alternatives
  <1>18. QED
    <2>1. CASE AwaitLoad(p) \/ WaitDown(p) \/ WaitUp(p) \/ ExitAgain(p) \/ ExitTest(p) \/ ExitDown(p)
      BY <2>1, Zenon DEF Alternatives
    <2>2. QED
      BY <2>1, <1>3, <1>6, <1>7, <1>8, <1>9, <1>10, <1>11, <1>12, <1>13, <1>14, <1>15, <1>16,
         <1>17, Zenon
         DEF Step, KernelStep, InExec, InLoad, InWait, InExit

LEMMA StrollsInv ==
  ASSUME PInv, ~ panic, NEW p \in Page, NEW l \in {"run", "walk", "return"}, NEW c \in Page \cup {NULL}, NEW w \in Int, Strolls(p, l, c, w)
  PROVE  PInv'
  <1> USE DEF thread, Goto, Forget, Return
  <1>0. /\ pc[p] \in {"run", "walk", "advance", "return"}
        /\ pc'[p] = l
        /\ \A r \in Page : r # p => pc'[r] = pc[r]
        /\ child_thread'[p] = c
        /\ \A r \in Page : r # p => child_thread'[r] = child_thread[r]
        /\ want'[p] = w
        /\ \A r \in Page : r # p => want'[r] = want[r]
        /\ UNCHANGED <<tid, parent, exit_status, block_parent, block_child, wait_for_load,
                       child_list, all_list, next_tid, ended, panic>>
    BY Zenon DEF PInv, TypeOK, Strolls
  <1>1. /\ (l # "run" => c \in Page) /\ w \in {-1, 0, want[p]}
        /\ w > 0 /\ l # "run" => w = want[p] /\ pc[p] \in {"walk", "advance"}
    BY Zenon DEF Strolls, TID_ERROR
  <1>2. TypeOK'
    BY Zenon DEF PInv, TypeOK, Strolls, Label, Exec1, RetKept
  <1>3. ListInv'
    BY <1>0, Zenon DEF PInv, ListInv, Live
  <1>4. ASSUME NEW r \in Page, NEW z \in Page PROVE Hold(r, z)' <=> Hold(r, z)
    BY <1>0, Zenon DEF Hold, Tied, Kid
  <1>5. ASSUME NEW r \in Page
        PROVE  PlaceAt(r)' /\ TidAt(r)' /\ SeekAt(r)' /\ FreshAt(r)' /\ KidsAt(r)' /\ EndAt(r)' /\ RetAt(r)'
    <2>1. PlaceAt(r) /\ TidAt(r) /\ SeekAt(r) /\ FreshAt(r) /\ KidsAt(r) /\ EndAt(r) /\ RetAt(r)
      BY Zenon DEF PInv
    <2>2. /\ tid[r] \in Int /\ want[r] \in Int /\ wait_for_load[r] \in Nat /\ block_parent[r] \in Nat
          /\ parent[r] \in Page \cup {NULL} /\ next_tid \in Nat \ {0} /\ (tid[p] \in Int /\ want[p] \in Int)
      BY Zenon DEF PInv, TypeOK
    <2>3. PlaceAt(r)'
      BY <1>0, <1>1, <2>1, Zenon DEF PlaceAt, Exec1, Wait1
    <2>4. TidAt(r)'
      BY <1>0, <1>1, <2>1, <2>2 DEF TidAt
    <2>5. SeekAt(r)'
      BY <1>0, <1>1, <2>1, Zenon DEF SeekAt
    <2>6. FreshAt(r)'
      BY <1>0, <2>1, <2>2, Zenon DEF FreshAt
    <2>7. KidsAt(r)'
      BY <1>0, <2>1, Zenon DEF KidsAt, Kid
    <2>8. EndAt(r)'
      BY <1>0, <1>1, <2>1, Zenon DEF EndAt, Exit1, PlaceAt, Wait1
    <2>9. RetAt(r)'
      BY <2>1, Zenon DEF RetAt, Strolls, RetKept
    <2>10. QED
      BY <2>3, <2>4, <2>5, <2>6, <2>7, <2>8, <2>9, Zenon
  <1>6. ASSUME NEW r \in Page, NEW z \in Page PROVE Apart(r, z)' /\ HeldAt(r, z)'
    <2>1. Apart(r, z) /\ HeldAt(r, z)
      BY Zenon DEF PInv
    <2>2. Apart(r, z)'
      BY <1>0, <1>1, <2>1, Zenon DEF Apart, Seeking
    <2>3. HeldAt(r, z)'
      BY <1>0, <1>4, <2>1, Zenon DEF HeldAt, Exec1
    <2>4. QED
      BY <2>2, <2>3, Zenon
  <1>7. QED
    BY <1>2, <1>3, <1>5, <1>6, Zenon DEF PInv

LEMMA CreatesInv ==
  ASSUME PInv, ~ panic, NEW p \in Page, NEW c \in Page, NEW h \in Page, Creates(p, c, h)
  PROVE  PInv'
  <1> USE DEF thread, Goto, Forget, Return
  <1>0. /\ pc[p] = "run" /\ pc[c] = "free"
        /\ pc'[p] = "walk"
        /\ pc'[c] = "load"
        /\ \A r \in Page : r # p /\ r # c => pc'[r] = pc[r]
        /\ tid'[c] = next_tid
        /\ \A r \in Page : r # c => tid'[r] = tid[r]
        /\ want'[p] = next_tid
        /\ \A r \in Page : r # p => want'[r] = want[r]
        /\ child_thread'[p] = h
        /\ \A r \in Page : r # p => child_thread'[r] = child_thread[r]
        /\ UNCHANGED <<parent, exit_status, block_parent, block_child, wait_for_load,
                       child_list, ended, panic>>
    BY Zenon DEF PInv, TypeOK, Creates
  <1>1. all_list' \in Seq(Page) /\ Members(all_list') = Members(all_list) \cup {c}
        /\ Once(all_list')
    <2>1. all_list \in Seq(Page) /\ Once(all_list) /\ c \notin Members(all_list)
      BY <1>0, Zenon DEF PInv, TypeOK, ListInv, Live
    <2>2. all_list' = Append(all_list, c)
      BY Zenon DEF Creates
    <2>3. QED
      BY <2>1, <2>2, AppendList
  <1>2. next_tid' = next_tid + 1 /\ next_tid \in Nat \ {0}
    BY Zenon DEF Creates, PInv, TypeOK
  <1>3. \A r \in Page : tid[r] \in Int /\ want[r] \in Int
    BY Zenon DEF PInv, TypeOK
  <1>4. c # p /\ parent[c] = NULL /\ child_list[c] = <<>>
    BY <1>0, Zenon DEF PInv, PlaceAt
  <1>5. \A r \in Page : tid[r] < next_tid /\ want[r] < next_tid
    BY Zenon DEF PInv, TidAt
  <1>6. \A r \in Page : ~ Hold(r, c)
    BY <1>0, Zenon DEF PInv, HeldAt, Exec1, Wait1, Exit1
  <1>7. TypeOK'
    <2>1. TypeOK
      BY Zenon DEF PInv
    <2>2. pc' \in [Page -> Label]
      BY <2>1, Zenon DEF TypeOK, Creates, Label, Exec1
    <2>3. tid' \in [Page -> Int] /\ want' \in [Page -> Int] /\ next_tid' \in Nat \ {0}
      <3>1. tid \in [Page -> Int] /\ want \in [Page -> Int]
        BY <2>1, Zenon DEF TypeOK
      <3>2. tid' = [tid EXCEPT ![c] = next_tid] /\ want' = [want EXCEPT ![p] = next_tid]
        BY Zenon DEF Creates
      <3>3. QED
        BY <1>2, <3>1, <3>2
    <2>4. child_thread' \in [Page -> Page \cup {NULL}]
      BY <2>1, Zenon DEF TypeOK, Creates
    <2>5. QED
      BY <1>1, <2>1, <2>2, <2>3, Zenon DEF TypeOK, Creates, RetKept
  <1>8. ListInv'
    BY <1>0, <1>1, Zenon DEF PInv, ListInv, Live
  <1>9. ASSUME NEW r \in Page, NEW z \in Page PROVE Hold(r, z)' <=> Hold(r, z)
    BY <1>0, Zenon DEF Hold, Tied, Kid
  <1>10. ASSUME NEW r \in Page
        PROVE  PlaceAt(r)' /\ TidAt(r)' /\ SeekAt(r)' /\ FreshAt(r)' /\ KidsAt(r)' /\ EndAt(r)' /\ RetAt(r)'
    <2>1. PlaceAt(r) /\ TidAt(r) /\ SeekAt(r) /\ FreshAt(r) /\ KidsAt(r) /\ EndAt(r) /\ RetAt(r)
      BY Zenon DEF PInv
    <2>2. /\ tid[r] \in Int /\ want[r] \in Int /\ wait_for_load[r] \in Nat /\ block_parent[r] \in Nat
          /\ parent[r] \in Page \cup {NULL} /\ next_tid \in Nat \ {0} /\ (tid[p] \in Int /\ want[p] \in Int)
      BY Zenon DEF PInv, TypeOK
    <2>3. PlaceAt(r)'
      BY <1>0, <2>1, Zenon DEF PlaceAt, Exec1, Wait1
    <2>4. TidAt(r)'
      <3>1. pc[r] \in {"waiting", "fetch"} => child_thread[r] # c /\ child_thread[r] \in Page
        BY <1>6, <2>1, Zenon DEF KidsAt, Hold, PlaceAt, Wait1
      <3>2. QED
        BY <1>0, <1>2, <2>1, <2>2, <3>1 DEF TidAt
    <2>5. SeekAt(r)'
      <3>1. ASSUME NEW x \in Page, r = p, tid'[x] = next_tid PROVE parent'[x] = NULL
        BY <1>0, <1>3, <1>4, <1>5, <3>1
      <3>2. ASSUME NEW x \in Page, r # p, tid'[x] = want[r] PROVE tid[x] = want[r]
        BY <1>0, <1>3, <1>5, <3>2
      <3>3. QED
        BY <1>0, <2>1, <3>1, <3>2 DEF SeekAt
    <2>6. FreshAt(r)'
      BY <1>0, <1>4, <2>1, <2>2, Zenon DEF FreshAt
    <2>7. KidsAt(r)'
      BY <1>0, <1>6, <2>1, Zenon DEF KidsAt, Kid, Hold
    <2>8. EndAt(r)'
      BY <1>0, <1>1, <1>2, <1>3, <1>4, <1>5, <1>6, <2>1, <2>2, Zenon
         DEF EndAt, Exit1, PlaceAt, Wait1
    <2>9. RetAt(r)'
      BY <2>1, Zenon DEF RetAt, Creates, RetKept
    <2>10. QED
      BY <2>3, <2>4, <2>5, <2>6, <2>7, <2>8, <2>9, Zenon
  <1>11. ASSUME NEW r \in Page, NEW z \in Page PROVE Apart(r, z)' /\ HeldAt(r, z)'
    <2>1. Apart(r, z) /\ HeldAt(r, z)
      BY Zenon DEF PInv
    <2>2. Apart(r, z)'
      BY <1>0, <1>1, <1>3, <1>4, <1>5, <1>6, <2>1 DEF Apart, Seeking
    <2>3. HeldAt(r, z)'
      BY <1>0, <1>9, <2>1, Zenon DEF HeldAt, Exec1, Wait1, Exit1
    <2>4. QED
      BY <2>2, <2>3, Zenon
  <1>12. QED
    BY <1>7, <1>8, <1>10, <1>11, Zenon DEF PInv

LEMMA FindsInv ==
  ASSUME PInv, ~ panic, NEW p \in Page, NEW c \in Page, Finds(p, c)
  PROVE  PInv'
  <1> USE DEF thread, Goto, Forget, Return
  <1>0. /\ pc[p] = "walk" /\ child_thread[p] = c /\ tid[c] = want[p]
        /\ pc'[p] = "await"
        /\ \A r \in Page : r # p => pc'[r] = pc[r]
        /\ parent'[c] = p
        /\ \A r \in Page : r # c => parent'[r] = parent[r]
        /\ UNCHANGED <<tid, exit_status, block_parent, block_child, wait_for_load, child_list,
                       child_thread, want, all_list, next_tid, ended, panic, ret>>
    BY Zenon DEF PInv, TypeOK, Finds
  <1>1. wait_for_load[p] = 0
    <2>1. PlaceAt(p) /\ wait_for_load \in [Page -> Nat]
      BY Zenon DEF PInv, TypeOK
    <2>2. QED
      BY <1>0, <2>1 DEF PlaceAt
  <1>2. pc[c] # "free" /\ tid[c] # 0 /\ tid[c] \in Int
    BY Zenon DEF Finds, PInv, TypeOK, ListInv, TidAt
  <1>3. \A r \in Page : want[p] > 0 /\ tid[r] = want[p] => r = c
    <2>1. \A r \in Page : Apart(r, c)
      BY Zenon DEF PInv
    <2>2. QED
      BY <1>0, <2>1, Zenon DEF Apart
  <1>4. \A r \in Page : want[p] > 0 /\ pc[r] \in Seeking /\ want[r] = want[p] => r = p
    BY <1>0, Zenon DEF PInv, Apart, Seeking
  <1>5. want[p] > 0 => parent[c] = NULL
    BY <1>0, Zenon DEF PInv, SeekAt
  <1>6. TypeOK'
    BY Zenon DEF PInv, TypeOK, Finds, Label, Exec1
  <1>7. ListInv'
    BY <1>0, Zenon DEF PInv, ListInv, Live
  <1>8. ASSUME NEW r \in Page, NEW z \in Page PROVE Hold(r, z)' <=> Hold(r, z)
    BY <1>0, <1>1 DEF Hold, Tied, Kid
  <1>9. ASSUME NEW r \in Page
        PROVE  PlaceAt(r)' /\ TidAt(r)' /\ SeekAt(r)' /\ FreshAt(r)' /\ KidsAt(r)' /\ EndAt(r)' /\ RetAt(r)'
    <2>1. PlaceAt(r) /\ TidAt(r) /\ SeekAt(r) /\ FreshAt(r) /\ KidsAt(r) /\ EndAt(r) /\ RetAt(r)
      BY Zenon DEF PInv
    <2>2. /\ tid[r] \in Int /\ want[r] \in Int /\ wait_for_load[r] \in Nat /\ block_parent[r] \in Nat
          /\ parent[r] \in Page \cup {NULL} /\ next_tid \in Nat \ {0} /\ (tid[p] \in Int /\ want[p] \in Int)
      BY Zenon DEF PInv, TypeOK
    <2>3. PlaceAt(r)'
      BY <1>0, <1>2, <2>1, Zenon DEF PlaceAt
    <2>4. TidAt(r)'
      BY <1>0, <2>1, Zenon DEF TidAt
    <2>5. SeekAt(r)'
      BY <1>0, <1>3, <1>4, <2>1 DEF SeekAt, Seeking
    <2>6. FreshAt(r)'
      BY <1>0, <1>1, <2>1, <2>2, Zenon DEF FreshAt
    <2>7. KidsAt(r)'
      BY <1>0, <1>1, <2>1 DEF KidsAt, Kid
    <2>8. EndAt(r)'
      BY <1>0, <2>1, Zenon DEF EndAt, Exit1, PlaceAt, Wait1
    <2>9. RetAt(r)'
      BY <1>0, <2>1, Zenon DEF RetAt
    <2>10. QED
      BY <2>3, <2>4, <2>5, <2>6, <2>7, <2>8, <2>9, Zenon
  <1>10. ASSUME NEW r \in Page, NEW z \in Page PROVE Apart(r, z)' /\ HeldAt(r, z)'
    <2>1. Apart(r, z) /\ HeldAt(r, z)
      BY Zenon DEF PInv
    <2>2. Apart(r, z)'
      BY <1>0, <2>1, Zenon DEF Apart, Seeking
    <2>3. HeldAt(r, z)'
      BY <1>0, <1>1, <1>4, <1>5, <1>8, <2>1, ProcessAssumption, Zenon DEF HeldAt, Exec1
    <2>4. QED
      BY <2>2, <2>3, Zenon
  <1>11. QED
    BY <1>6, <1>7, <1>9, <1>10, Zenon DEF PInv

LEMMA AwaitLoadInv ==
  ASSUME PInv, ~ panic, NEW p \in Page, AwaitLoad(p)
  PROVE  PInv'
  <1> USE DEF thread, Goto, Forget, Return
  <1>0. /\ pc[p] = "await" /\ wait_for_load[p] > 0
        /\ pc'[p] = "register"
        /\ \A r \in Page : r # p => pc'[r] = pc[r]
        /\ wait_for_load'[p] = wait_for_load[p] - 1
        /\ \A r \in Page : r # p => wait_for_load'[r] = wait_for_load[r]
        /\ UNCHANGED <<tid, parent, exit_status, block_parent, block_child, child_list,
                       child_thread, want, all_list, next_tid, ended, panic, ret>>
    BY Zenon DEF PInv, TypeOK, AwaitLoad
  <1>1. wait_for_load[p] = 1 /\ Tied(p)
    BY <1>0, Zenon DEF PInv, PlaceAt, Tied
  <1>2. wait_for_load' \in [Page -> Nat]
    <2>1. wait_for_load \in [Page -> Nat]
      BY Zenon DEF PInv, TypeOK
    <2>2. QED
      BY <2>1 DEF AwaitLoad
  <1>3. TypeOK'
    BY <1>2, Zenon DEF PInv, TypeOK, AwaitLoad, Label, Exec1
  <1>4. ListInv'
    BY <1>0, Zenon DEF PInv, ListInv, Live
  <1>5. ASSUME NEW r \in Page, NEW z \in Page PROVE Hold(r, z)' <=> Hold(r, z)
    BY <1>0, Zenon DEF Hold, Tied, Kid
  <1>6. ASSUME NEW r \in Page
        PROVE  PlaceAt(r)' /\ TidAt(r)' /\ SeekAt(r)' /\ FreshAt(r)' /\ KidsAt(r)' /\ EndAt(r)' /\ RetAt(r)'
    <2>1. PlaceAt(r) /\ TidAt(r) /\ SeekAt(r) /\ FreshAt(r) /\ KidsAt(r) /\ EndAt(r) /\ RetAt(r)
      BY Zenon DEF PInv
    <2>2. /\ tid[r] \in Int /\ want[r] \in Int /\ wait_for_load[r] \in Nat /\ block_parent[r] \in Nat
          /\ parent[r] \in Page \cup {NULL} /\ next_tid \in Nat \ {0} /\ (tid[p] \in Int /\ want[p] \in Int)
      BY Zenon DEF PInv, TypeOK
    <2>3. PlaceAt(r)'
      BY <1>0, <2>1 DEF PlaceAt, Exec1
    <2>4. TidAt(r)'
      BY <1>0, <2>1, Zenon DEF TidAt
    <2>5. SeekAt(r)'
      BY <1>0, <2>1, Zenon DEF SeekAt
    <2>6. FreshAt(r)'
      BY <1>0, <2>1, <2>2 DEF FreshAt
    <2>7. KidsAt(r)'
      BY <1>0, <2>1, Zenon DEF KidsAt, Kid
    <2>8. EndAt(r)'
      BY <1>0, <2>1, Zenon DEF EndAt, Exit1, PlaceAt, Wait1
    <2>9. RetAt(r)'
      BY <1>0, <2>1, Zenon DEF RetAt
    <2>10. QED
      BY <2>3, <2>4, <2>5, <2>6, <2>7, <2>8, <2>9, Zenon
  <1>7. ASSUME NEW r \in Page, NEW z \in Page PROVE Apart(r, z)' /\ HeldAt(r, z)'
    <2>1. Apart(r, z) /\ HeldAt(r, z)
      BY Zenon DEF PInv
    <2>2. Apart(r, z)'
      BY <1>0, <2>1, Zenon DEF Apart, Seeking
    <2>3. HeldAt(r, z)'
      BY <1>0, <1>5, <2>1, Zenon DEF HeldAt, Exec1
    <2>4. QED
      BY <2>2, <2>3, Zenon
  <1>8. QED
    BY <1>3, <1>4, <1>6, <1>7, Zenon DEF PInv

LEMMA DropsInv ==
  ASSUME PInv, ~ panic, NEW p \in Page, NEW c \in Page, Drops(p, c)
  PROVE  PInv'
  <1> USE DEF thread, Goto, Forget, Return
  <1>0. /\ pc[p] = "register" /\ child_thread[p] = c /\ tid[c] < 0
        /\ pc'[p] = "advance"
        /\ \A r \in Page : r # p => pc'[r] = pc[r]
        /\ block_child'[c] = block_child[c] + 1
        /\ \A r \in Page : r # c => block_child'[r] = block_child[r]
        /\ UNCHANGED <<tid, parent, exit_status, block_parent, wait_for_load, child_list,
                       child_thread, want, all_list, next_tid, ended, panic, ret>>
    BY Zenon DEF PInv, TypeOK, Drops
  <1>1. Hold(p, c) /\ ~ Kid(p, c)
    BY <1>0, Zenon DEF PInv, KidsAt, Hold, Tied
  <1>2. pc[c] \notin {"free", "load", "notify"}
    BY <1>1, Zenon DEF PInv, HeldAt, Exec1, Wait1, Exit1
  <1>3. \A r \in Page : Hold(r, c) => r = p
    BY <1>1, Zenon DEF PInv, HeldAt
  <1>4. block_child' \in [Page -> Nat]
    <2>1. block_child \in [Page -> Nat]
      BY Zenon DEF PInv, TypeOK
    <2>2. QED
      BY <2>1 DEF Drops
  <1>5. TypeOK'
    BY <1>4, Zenon DEF PInv, TypeOK, Drops, Label, Exec1
  <1>6. ListInv'
    BY <1>0, Zenon DEF PInv, ListInv, Live
  <1>7. ASSUME NEW r \in Page, NEW z \in Page PROVE Hold(r, z)' <=> Hold(r, z) /\ z # c
    BY <1>0, <1>1, <1>3, Zenon DEF Hold, Tied, Kid
  <1>8. ASSUME NEW r \in Page
        PROVE  PlaceAt(r)' /\ TidAt(r)' /\ SeekAt(r)' /\ FreshAt(r)' /\ KidsAt(r)' /\ EndAt(r)' /\ RetAt(r)'
    <2>1. PlaceAt(r) /\ TidAt(r) /\ SeekAt(r) /\ FreshAt(r) /\ KidsAt(r) /\ EndAt(r) /\ RetAt(r)
      BY Zenon DEF PInv
    <2>2. /\ tid[r] \in Int /\ want[r] \in Int /\ wait_for_load[r] \in Nat /\ block_parent[r] \in Nat
          /\ parent[r] \in Page \cup {NULL} /\ next_tid \in Nat \ {0} /\ (tid[p] \in Int /\ want[p] \in Int)
      BY Zenon DEF PInv, TypeOK
    <2>3. PlaceAt(r)'
      BY <1>0, <1>2, <2>1, Zenon DEF PlaceAt
    <2>4. TidAt(r)'
      BY <1>0, <2>1, Zenon DEF TidAt
    <2>5. SeekAt(r)'
      BY <1>0, <2>1, <2>2 DEF SeekAt
    <2>6. FreshAt(r)'
      BY <1>0, <2>1, <2>2, Zenon DEF FreshAt
    <2>7. KidsAt(r)'
      BY <1>0, <2>1, Zenon DEF KidsAt, Kid
    <2>8. EndAt(r)'
      BY <1>0, <2>1, Zenon DEF EndAt, Exit1, PlaceAt, Wait1
    <2>9. RetAt(r)'
      BY <1>0, <2>1, Zenon DEF RetAt
    <2>10. QED
      BY <2>3, <2>4, <2>5, <2>6, <2>7, <2>8, <2>9, Zenon
  <1>9. ASSUME NEW r \in Page, NEW z \in Page PROVE Apart(r, z)' /\ HeldAt(r, z)'
    <2>1. Apart(r, z) /\ HeldAt(r, z)
      BY Zenon DEF PInv
    <2>2. Apart(r, z)'
      BY <1>0, <2>1, Zenon DEF Apart, Seeking
    <2>3. HeldAt(r, z)'
      BY <1>0, <1>7, <2>1, Zenon DEF HeldAt, Exec1
    <2>4. QED
      BY <2>2, <2>3, Zenon
  <1>10. QED
    BY <1>5, <1>6, <1>8, <1>9, Zenon DEF PInv

LEMMA AddsInv ==
  ASSUME PInv, ~ panic, NEW p \in Page, NEW c \in Page, Adds(p, c)
  PROVE  PInv'
  <1> USE DEF thread, Goto, Forget, Return
  <1>0. /\ pc[p] = "register" /\ child_thread[p] = c /\ tid[c] >= 0
        /\ pc'[p] = "return"
        /\ \A r \in Page : r # p => pc'[r] = pc[r]
        /\ child_list'[p] = Append(child_list[p], c)
        /\ \A r \in Page : r # p => child_list'[r] = child_list[r]
        /\ UNCHANGED <<tid, parent, exit_status, block_parent, block_child, wait_for_load,
                       child_thread, want, all_list, next_tid, ended, panic, ret>>
    BY Zenon DEF PInv, TypeOK, Adds
  <1>1. Hold(p, c) /\ ~ Kid(p, c)
    BY <1>0, Zenon DEF PInv, KidsAt, Hold, Tied
  <1>2. pc[c] # "free"
    BY <1>1, Zenon DEF PInv, HeldAt, Exec1, Wait1, Exit1
  <1>3. tid[c] > 0
    <2>1. TidAt(c) /\ tid[c] \in Int
      BY Zenon DEF PInv, TypeOK
    <2>2. QED
      BY <1>0, <1>2, <2>1 DEF TidAt
  <1>4. child_list[p] \in Seq(Page) /\ Once(child_list[p])
    BY Zenon DEF PInv, TypeOK, PlaceAt
  <1>5. child_list'[p] \in Seq(Page) /\ Members(child_list'[p]) = Members(child_list[p]) \cup {c}
        /\ Once(child_list'[p])
    BY <1>0, <1>1, <1>4, AppendList DEF Kid
  <1>6. \A q \in Page : Kid(p, q)' <=> Kid(p, q) \/ q = c
    BY <1>5, Zenon DEF Kid
  <1>7. \A r, q \in Page : r # p => (Kid(r, q)' <=> Kid(r, q))
    BY <1>0, Zenon DEF Kid
  <1>8. TypeOK'
    BY <1>5, Zenon DEF PInv, TypeOK, Adds, Label, Exec1
  <1>9. ListInv'
    BY <1>0, Zenon DEF PInv, ListInv, Live
  <1>10. ASSUME NEW r \in Page, NEW z \in Page PROVE Hold(r, z)' <=> Hold(r, z)
    BY <1>0, <1>1, <1>6, <1>7, Zenon DEF Hold, Tied
  <1>11. ASSUME NEW r \in Page
        PROVE  PlaceAt(r)' /\ TidAt(r)' /\ SeekAt(r)' /\ FreshAt(r)' /\ KidsAt(r)' /\ EndAt(r)' /\ RetAt(r)'
    <2>1. PlaceAt(r) /\ TidAt(r) /\ SeekAt(r) /\ FreshAt(r) /\ KidsAt(r) /\ EndAt(r) /\ RetAt(r)
      BY Zenon DEF PInv
    <2>2. /\ tid[r] \in Int /\ want[r] \in Int /\ wait_for_load[r] \in Nat /\ block_parent[r] \in Nat
          /\ parent[r] \in Page \cup {NULL} /\ next_tid \in Nat \ {0} /\ (tid[p] \in Int /\ want[p] \in Int)
      BY Zenon DEF PInv, TypeOK
    <2>3. PlaceAt(r)'
      BY <1>0, <1>5, <2>1, Zenon DEF PlaceAt
    <2>4. TidAt(r)'
      BY <1>0, <2>1, Zenon DEF TidAt
    <2>5. SeekAt(r)'
      BY <1>0, <2>1, Zenon DEF SeekAt
    <2>6. FreshAt(r)'
      BY <1>0, <2>1, <2>2, Zenon DEF FreshAt
    <2>7. KidsAt(r)'
      BY <1>0, <1>3, <1>6, <2>1, Zenon DEF KidsAt, Kid
    <2>8. EndAt(r)'
      BY <1>0, <2>1, Zenon DEF EndAt, Exit1, PlaceAt, Wait1
    <2>9. RetAt(r)'
      BY <1>0, <2>1, Zenon DEF RetAt
    <2>10. QED
      BY <2>3, <2>4, <2>5, <2>6, <2>7, <2>8, <2>9, Zenon
  <1>12. ASSUME NEW r \in Page, NEW z \in Page PROVE Apart(r, z)' /\ HeldAt(r, z)'
    <2>1. Apart(r, z) /\ HeldAt(r, z)
      BY Zenon DEF PInv
    <2>2. Apart(r, z)'
      BY <1>0, <2>1, Zenon DEF Apart, Seeking
    <2>3. HeldAt(r, z)'
      BY <1>0, <1>10, <2>1, Zenon DEF HeldAt, Exec1
    <2>4. QED
      BY <2>2, <2>3, Zenon
  <1>13. QED
    BY <1>8, <1>9, <1>11, <1>12, Zenon DEF PInv

LEMMA FinishesInv ==
  ASSUME PInv, ~ panic, NEW p \in Page, NEW s \in Int, Finishes(p, s)
  PROVE  PInv'
  <1> USE DEF thread, Goto, Forget, Return
  <1>0. /\ pc[p] \in {"run", "walk", "register", "advance", "load", "notify"}
        /\ pc'[p] = "exit"
        /\ \A r \in Page : r # p => pc'[r] = pc[r]
        /\ exit_status'[p] = s
        /\ \A r \in Page : r # p => exit_status'[r] = exit_status[r]
        /\ UNCHANGED <<tid, parent, block_parent, block_child, wait_for_load, child_list,
                       child_thread, want, all_list, next_tid, panic, ret>>
    BY Zenon DEF PInv, TypeOK, Finishes
  <1>1. ended \subseteq ended' /\ [tid |-> tid[p], status |-> s] \in ended'
    BY Zenon DEF Finishes
  <1>2. TypeOK'
    BY Zenon DEF PInv, TypeOK, Finishes, Label, Exit1
  <1>3. ListInv'
    BY <1>0, Zenon DEF PInv, ListInv, Live
  <1>4. ASSUME NEW r \in Page, NEW z \in Page PROVE Hold(r, z)' => Hold(r, z)
    BY <1>0, Zenon DEF Hold, Tied, Kid
  <1>5. ASSUME NEW r \in Page
        PROVE  PlaceAt(r)' /\ TidAt(r)' /\ SeekAt(r)' /\ FreshAt(r)' /\ KidsAt(r)' /\ EndAt(r)' /\ RetAt(r)'
    <2>1. PlaceAt(r) /\ TidAt(r) /\ SeekAt(r) /\ FreshAt(r) /\ KidsAt(r) /\ EndAt(r) /\ RetAt(r)
      BY Zenon DEF PInv
    <2>2. /\ tid[r] \in Int /\ want[r] \in Int /\ wait_for_load[r] \in Nat /\ block_parent[r] \in Nat
          /\ parent[r] \in Page \cup {NULL} /\ next_tid \in Nat \ {0} /\ (tid[p] \in Int /\ want[p] \in Int)
      BY Zenon DEF PInv, TypeOK
    <2>3. PlaceAt(r)'
      BY <1>0, <2>1, Zenon DEF PlaceAt, Exec1, Wait1
    <2>4. TidAt(r)'
      BY <1>0, <2>1, Zenon DEF TidAt
    <2>5. SeekAt(r)'
      BY <1>0, <2>1, Zenon DEF SeekAt
    <2>6. FreshAt(r)'
      BY <1>0, <2>1, <2>2, Zenon DEF FreshAt
    <2>7. KidsAt(r)'
      BY <1>0, <2>1, Zenon DEF KidsAt, Kid
    <2>8. EndAt(r)'
      BY <1>0, <1>1, <2>1, Zenon DEF EndAt, PlaceAt, Wait1
    <2>9. RetAt(r)'
      BY <1>0, <1>1, <2>1, Zenon DEF RetAt
    <2>10. QED
      BY <2>3, <2>4, <2>5, <2>6, <2>7, <2>8, <2>9, Zenon
  <1>6. ASSUME NEW r \in Page, NEW z \in Page PROVE Apart(r, z)' /\ HeldAt(r, z)'
    <2>1. Apart(r, z) /\ HeldAt(r, z)
      BY Zenon DEF PInv
    <2>2. Apart(r, z)'
      BY <1>0, <2>1, Zenon DEF Apart, Seeking
    <2>3. HeldAt(r, z)'
      BY <1>0, <1>4, <2>1, Zenon DEF HeldAt, Exit1
    <2>4. QED
      BY <2>2, <2>3, Zenon
  <1>7. QED
    BY <1>2, <1>3, <1>5, <1>6, Zenon DEF PInv

LEMMA LoadsInv ==
  ASSUME PInv, ~ panic, NEW p \in Page, NEW n \in Int, Loads(p, n)
  PROVE  PInv'
  <1> USE DEF thread, Goto, Forget, Return
  <1>0. /\ pc[p] = "load" /\ n \in {-1, tid[p]}
        /\ pc'[p] = "notify"
        /\ \A r \in Page : r # p => pc'[r] = pc[r]
        /\ tid'[p] = n
        /\ \A r \in Page : r # p => tid'[r] = tid[r]
        /\ UNCHANGED <<parent, exit_status, block_parent, block_child, wait_for_load,
                       child_list, child_thread, want, all_list, next_tid, ended, panic, ret>>
    BY Zenon DEF PInv, TypeOK, Loads
  <1>1. \A r \in Page : ~ Hold(r, p)
    BY <1>0, Zenon DEF PInv, HeldAt, Exec1, Wait1, Exit1
  <1>2. TypeOK'
    BY Zenon DEF PInv, TypeOK, Loads, Label
  <1>3. ListInv'
    BY <1>0, Zenon DEF PInv, ListInv, Live
  <1>4. ASSUME NEW r \in Page, NEW z \in Page PROVE Hold(r, z)' <=> Hold(r, z)
    BY <1>0, Zenon DEF Hold, Tied, Kid
  <1>5. ASSUME NEW r \in Page
        PROVE  PlaceAt(r)' /\ TidAt(r)' /\ SeekAt(r)' /\ FreshAt(r)' /\ KidsAt(r)' /\ EndAt(r)' /\ RetAt(r)'
    <2>1. PlaceAt(r) /\ TidAt(r) /\ SeekAt(r) /\ FreshAt(r) /\ KidsAt(r) /\ EndAt(r) /\ RetAt(r)
      BY Zenon DEF PInv
    <2>2. /\ tid[r] \in Int /\ want[r] \in Int /\ wait_for_load[r] \in Nat /\ block_parent[r] \in Nat
          /\ parent[r] \in Page \cup {NULL} /\ next_tid \in Nat \ {0} /\ (tid[p] \in Int /\ want[p] \in Int)
      BY Zenon DEF PInv, TypeOK
    <2>3. PlaceAt(r)'
      BY <1>0, <2>1, Zenon DEF PlaceAt, Exec1, Wait1
    <2>4. TidAt(r)'
      BY <1>0, <1>1, <2>1, <2>2 DEF TidAt, PlaceAt, Wait1, KidsAt, Hold
    <2>5. SeekAt(r)'
      BY <1>0, <2>1 DEF SeekAt
    <2>6. FreshAt(r)'
      BY <1>0, <2>1, <2>2, Zenon DEF FreshAt
    <2>7. KidsAt(r)'
      BY <1>0, <1>1, <2>1, Zenon DEF KidsAt, Kid, Hold
    <2>8. EndAt(r)'
      BY <1>0, <2>1, Zenon DEF EndAt, Exit1, PlaceAt, Wait1
    <2>9. RetAt(r)'
      BY <1>0, <2>1, Zenon DEF RetAt
    <2>10. QED
      BY <2>3, <2>4, <2>5, <2>6, <2>7, <2>8, <2>9, Zenon
  <1>6. ASSUME NEW r \in Page, NEW z \in Page PROVE Apart(r, z)' /\ HeldAt(r, z)'
    <2>1. Apart(r, z) /\ HeldAt(r, z)
      BY Zenon DEF PInv
    <2>2. Apart(r, z)'
      BY <1>0, <2>1 DEF Apart, Seeking
    <2>3. HeldAt(r, z)'
      BY <1>0, <1>4, <2>1, Zenon DEF HeldAt, Exec1, Wait1, Exit1
    <2>4. QED
      BY <2>2, <2>3, Zenon
  <1>7. QED
    BY <1>2, <1>3, <1>5, <1>6, Zenon DEF PInv

LEMMA NotifiesInv ==
  ASSUME PInv, ~ panic, NEW p \in Page, NEW q \in Page, NEW l \in {"run", "exit"}, Notifies(p, q, l)
  PROVE  PInv'
  <1> USE DEF thread, Goto, Forget, Return
  <1>0. /\ pc[p] = "notify" /\ parent[p] = q /\ (l = "exit" => tid[p] < 0)
        /\ pc'[p] = l
        /\ \A r \in Page : r # p => pc'[r] = pc[r]
        /\ wait_for_load'[q] = wait_for_load[q] + 1
        /\ \A r \in Page : r # q => wait_for_load'[r] = wait_for_load[r]
        /\ UNCHANGED <<tid, parent, exit_status, block_parent, block_child, child_list,
                       child_thread, want, all_list, next_tid, ended, panic, ret>>
    BY Zenon DEF PInv, TypeOK, Notifies
  <1>1. pc[q] = "await" /\ child_thread[q] = p /\ wait_for_load[q] = 0 /\ block_child[p] = 0 /\ p # q
    BY <1>0, ProcessAssumption, Zenon DEF PInv, FreshAt, PlaceAt
  <1>2. \A r \in Page : ~ Hold(r, p)
    BY <1>0, Zenon DEF PInv, HeldAt, Exec1, Wait1, Exit1
  <1>3. wait_for_load' \in [Page -> Nat]
    <2>1. wait_for_load \in [Page -> Nat]
      BY Zenon DEF PInv, TypeOK
    <2>2. QED
      BY <2>1 DEF Notifies
  <1>4. TypeOK'
    BY <1>3, Zenon DEF PInv, TypeOK, Notifies, Label, Exit1
  <1>5. ListInv'
    BY <1>0, Zenon DEF PInv, ListInv, Live
  <1>6. ASSUME NEW r \in Page, NEW z \in Page PROVE Hold(r, z)' <=> Hold(r, z) \/ (r = q /\ z = p)
    BY <1>0, <1>1 DEF Hold, Tied, Kid
  <1>7. ASSUME NEW r \in Page
        PROVE  PlaceAt(r)' /\ TidAt(r)' /\ SeekAt(r)' /\ FreshAt(r)' /\ KidsAt(r)' /\ EndAt(r)' /\ RetAt(r)'
    <2>1. PlaceAt(r) /\ TidAt(r) /\ SeekAt(r) /\ FreshAt(r) /\ KidsAt(r) /\ EndAt(r) /\ RetAt(r)
      BY Zenon DEF PInv
    <2>2. /\ tid[r] \in Int /\ want[r] \in Int /\ wait_for_load[r] \in Nat /\ block_parent[r] \in Nat
          /\ parent[r] \in Page \cup {NULL} /\ next_tid \in Nat \ {0} /\ (tid[p] \in Int /\ want[p] \in Int)
      BY Zenon DEF PInv, TypeOK
    <2>3. PlaceAt(r)'
      BY <1>0, <1>1, <2>1 DEF PlaceAt, Exec1, Wait1
    <2>4. TidAt(r)'
      BY <1>0, <2>1, Zenon DEF TidAt
    <2>5. SeekAt(r)'
      BY <1>0, <2>1, Zenon DEF SeekAt
    <2>6. FreshAt(r)'
      BY <1>0, <1>1, <2>1, <2>2, Zenon DEF FreshAt
    <2>7. KidsAt(r)'
      BY <1>0, <1>1, <1>2, <2>1, Zenon DEF KidsAt, Kid, Hold
    <2>8. EndAt(r)'
      BY <1>0, <2>1, <2>2 DEF EndAt, Exit1, PlaceAt, Wait1
    <2>9. RetAt(r)'
      BY <1>0, <2>1, Zenon DEF RetAt
    <2>10. QED
      BY <2>3, <2>4, <2>5, <2>6, <2>7, <2>8, <2>9, Zenon
  <1>8. ASSUME NEW r \in Page, NEW z \in Page PROVE Apart(r, z)' /\ HeldAt(r, z)'
    <2>1. Apart(r, z) /\ HeldAt(r, z)
      BY Zenon DEF PInv
    <2>2. Apart(r, z)'
      BY <1>0, <2>1, Zenon DEF Apart, Seeking
    <2>3. HeldAt(r, z)'
      BY <1>0, <1>1, <1>2, <1>6, <2>1, ProcessAssumption DEF HeldAt, Exit1
    <2>4. QED
      BY <2>2, <2>3, Zenon
  <1>9. QED
    BY <1>4, <1>5, <1>7, <1>8, Zenon DEF PInv

LEMMA WaitsForInv ==
  ASSUME PInv, ~ panic, NEW p \in Page, NEW c \in Page, WaitsFor(p, c)
  PROVE  PInv'
  <1> USE DEF thread, Goto, Forget, Return
  <1>0. /\ pc[p] = "run" /\ Kid(p, c)
        /\ pc'[p] = "waiting"
        /\ \A r \in Page : r # p => pc'[r] = pc[r]
        /\ child_thread'[p] = c
        /\ \A r \in Page : r # p => child_thread'[r] = child_thread[r]
        /\ want'[p] = tid[c]
        /\ \A r \in Page : r # p => want'[r] = want[r]
        /\ UNCHANGED <<tid, parent, exit_status, block_parent, block_child, wait_for_load,
                       child_list, all_list, next_tid, ended, panic>>
    BY Zenon DEF PInv, TypeOK, WaitsFor
  <1>1. tid[c] < next_tid
    BY Zenon DEF PInv, TidAt
  <1>2. Hold(p, c)
    BY <1>0, Zenon DEF Hold
  <1>3. TypeOK'
    BY Zenon DEF PInv, TypeOK, WaitsFor, Label, Wait1, RetKept
  <1>4. ListInv'
    BY <1>0, Zenon DEF PInv, ListInv, Live
  <1>5. ASSUME NEW r \in Page, NEW z \in Page PROVE Hold(r, z)' <=> Hold(r, z)
    BY <1>0, Zenon DEF Hold, Tied, Kid
  <1>6. ASSUME NEW r \in Page
        PROVE  PlaceAt(r)' /\ TidAt(r)' /\ SeekAt(r)' /\ FreshAt(r)' /\ KidsAt(r)' /\ EndAt(r)' /\ RetAt(r)'
    <2>1. PlaceAt(r) /\ TidAt(r) /\ SeekAt(r) /\ FreshAt(r) /\ KidsAt(r) /\ EndAt(r) /\ RetAt(r)
      BY Zenon DEF PInv
    <2>2. /\ tid[r] \in Int /\ want[r] \in Int /\ wait_for_load[r] \in Nat /\ block_parent[r] \in Nat
          /\ parent[r] \in Page \cup {NULL} /\ next_tid \in Nat \ {0} /\ (tid[p] \in Int /\ want[p] \in Int)
      BY Zenon DEF PInv, TypeOK
    <2>3. PlaceAt(r)'
      BY <1>0, <2>1, Zenon DEF PlaceAt
    <2>4. TidAt(r)'
      BY <1>0, <1>1, <2>1, Zenon DEF TidAt
    <2>5. SeekAt(r)'
      BY <1>0, <2>1, <2>2, Zenon DEF SeekAt
    <2>6. FreshAt(r)'
      BY <1>0, <2>1, <2>2, Zenon DEF FreshAt
    <2>7. KidsAt(r)'
      BY <1>0, <2>1, Zenon DEF KidsAt, Kid
    <2>8. EndAt(r)'
      BY <1>0, <2>1, Zenon DEF EndAt, Exit1, PlaceAt, Wait1
    <2>9. RetAt(r)'
      BY <2>1, Zenon DEF RetAt, WaitsFor, RetKept
    <2>10. QED
      BY <2>3, <2>4, <2>5, <2>6, <2>7, <2>8, <2>9, Zenon
  <1>7. ASSUME NEW r \in Page, NEW z \in Page PROVE Apart(r, z)' /\ HeldAt(r, z)'
    <2>1. Apart(r, z) /\ HeldAt(r, z)
      BY Zenon DEF PInv
    <2>2. Apart(r, z)'
      BY <1>0, <2>1, Zenon DEF Apart, Seeking
    <2>3. HeldAt(r, z)'
      BY <1>0, <1>5, <2>1, Zenon DEF HeldAt, Wait1
    <2>4. QED
      BY <2>2, <2>3, Zenon
  <1>8. QED
    BY <1>3, <1>4, <1>6, <1>7, Zenon DEF PInv

LEMMA WaitDownInv ==
  ASSUME PInv, ~ panic, NEW p \in Page, NEW c \in Page, child_thread[p] = c, WaitDown(p)
  PROVE  PInv'
  <1> USE DEF thread, Goto, Forget, Return
  <1>0. /\ pc[p] = "waiting" /\ block_parent[c] > 0 /\ child_thread[p] = c
        /\ pc'[p] = "fetch"
        /\ \A r \in Page : r # p => pc'[r] = pc[r]
        /\ block_parent'[c] = block_parent[c] - 1
        /\ \A r \in Page : r # c => block_parent'[r] = block_parent[r]
        /\ UNCHANGED <<tid, parent, exit_status, block_child, wait_for_load, child_list,
                       child_thread, want, all_list, next_tid, ended, panic, ret>>
    BY Zenon DEF PInv, TypeOK, WaitDown
  <1>1. Kid(p, c) /\ Hold(p, c)
    BY <1>0, Zenon DEF PInv, KidsAt, Hold
  <1>2. pc[c] \in {"leave", "zombie"}
    BY <1>0, <1>1, Zenon DEF PInv, EndAt, HeldAt, Exec1, Wait1, Exit1
  <1>3. block_parent' \in [Page -> Nat]
    <2>1. block_parent \in [Page -> Nat]
      BY Zenon DEF PInv, TypeOK
    <2>2. QED
      BY <2>1 DEF WaitDown
  <1>4. TypeOK'
    BY <1>3, Zenon DEF PInv, TypeOK, WaitDown, Label, Wait1
  <1>5. ListInv'
    BY <1>0, Zenon DEF PInv, ListInv, Live
  <1>6. ASSUME NEW r \in Page, NEW z \in Page PROVE Hold(r, z)' <=> Hold(r, z)
    BY <1>0, Zenon DEF Hold, Tied, Kid
  <1>7. ASSUME NEW r \in Page
        PROVE  PlaceAt(r)' /\ TidAt(r)' /\ SeekAt(r)' /\ FreshAt(r)' /\ KidsAt(r)' /\ EndAt(r)' /\ RetAt(r)'
    <2>1. PlaceAt(r) /\ TidAt(r) /\ SeekAt(r) /\ FreshAt(r) /\ KidsAt(r) /\ EndAt(r) /\ RetAt(r)
      BY Zenon DEF PInv
    <2>2. /\ tid[r] \in Int /\ want[r] \in Int /\ wait_for_load[r] \in Nat /\ block_parent[r] \in Nat
          /\ parent[r] \in Page \cup {NULL} /\ next_tid \in Nat \ {0} /\ (tid[p] \in Int /\ want[p] \in Int)
      BY Zenon DEF PInv, TypeOK
    <2>3. PlaceAt(r)'
      BY <1>0, <2>1, Zenon DEF PlaceAt
    <2>4. TidAt(r)'
      BY <1>0, <2>1, Zenon DEF TidAt
    <2>5. SeekAt(r)'
      BY <1>0, <2>1, Zenon DEF SeekAt
    <2>6. FreshAt(r)'
      BY <1>0, <2>1, <2>2, Zenon DEF FreshAt
    <2>7. KidsAt(r)'
      BY <1>0, <2>1, Zenon DEF KidsAt, Kid
    <2>8. EndAt(r)'
      BY <1>0, <1>2, <2>1, Zenon DEF EndAt, Exit1, PlaceAt, Wait1
    <2>9. RetAt(r)'
      BY <1>0, <2>1, Zenon DEF RetAt
    <2>10. QED
      BY <2>3, <2>4, <2>5, <2>6, <2>7, <2>8, <2>9, Zenon
  <1>8. ASSUME NEW r \in Page, NEW z \in Page PROVE Apart(r, z)' /\ HeldAt(r, z)'
    <2>1. Apart(r, z) /\ HeldAt(r, z)
      BY Zenon DEF PInv
    <2>2. Apart(r, z)'
      BY <1>0, <2>1, Zenon DEF Apart, Seeking
    <2>3. HeldAt(r, z)'
      BY <1>0, <1>6, <2>1, Zenon DEF HeldAt, Wait1
    <2>4. QED
      BY <2>2, <2>3, Zenon
  <1>9. QED
    BY <1>4, <1>5, <1>7, <1>8, Zenon DEF PInv

LEMMA FetchesInv ==
  ASSUME PInv, ~ panic, NEW p \in Page, NEW c \in Page, NEW i \in DOMAIN child_list[p], Fetches(p, c, i)
  PROVE  PInv'
  <1> USE DEF thread, Goto, Forget, Return
  <1>0. /\ pc[p] = "fetch" /\ child_thread[p] = c /\ child_list[p][i] = c
        /\ pc'[p] = "release"
        /\ \A r \in Page : r # p => pc'[r] = pc[r]
        /\ child_list'[p] = RemoveAt(child_list[p], i)
        /\ \A r \in Page : r # p => child_list'[r] = child_list[r]
        /\ UNCHANGED <<tid, parent, exit_status, block_parent, block_child, wait_for_load,
                       child_thread, want, all_list, next_tid, ended, panic>>
    BY Zenon DEF PInv, TypeOK, Fetches
  <1>1. Kid(p, c) /\ Hold(p, c)
    BY <1>0, Zenon DEF PInv, KidsAt, Hold
  <1>2. child_list[p] \in Seq(Page) /\ Once(child_list[p])
    BY Zenon DEF PInv, TypeOK, PlaceAt
  <1>3. child_list'[p] \in Seq(Page) /\ Members(child_list'[p]) = Members(child_list[p]) \ {c}
        /\ Once(child_list'[p])
    BY <1>0, <1>2, RemoveList
  <1>4. \A q \in Page : Kid(p, q)' <=> Kid(p, q) /\ q # c
    BY <1>3, Zenon DEF Kid
  <1>5. \A r, q \in Page : r # p => (Kid(r, q)' <=> Kid(r, q))
    BY <1>0, Zenon DEF Kid
  <1>6. tid[c] = want[p] /\ tid[c] > 0 /\ pc[c] \in {"leave", "zombie"}
    BY <1>0, <1>1, Zenon DEF PInv, TidAt, KidsAt, EndAt
  <1>7. [tid |-> want[p], status |-> exit_status[c]] \in ended
    BY <1>6, Zenon DEF PInv, EndAt, Exit1
  <1>8. ret'[p] = [call |-> "wait", arg |-> want[p], val |-> exit_status[c], found |-> TRUE]
        /\ \A r \in Page : r # p => ret'[r] = ret[r]
    BY Zenon DEF PInv, TypeOK, Fetches
  <1>9. TypeOK'
    BY <1>3, Zenon DEF PInv, TypeOK, Fetches, Label, Wait1
  <1>10. ListInv'
    BY <1>0, Zenon DEF PInv, ListInv, Live
  <1>11. ASSUME NEW r \in Page, NEW z \in Page PROVE Hold(r, z)' <=> Hold(r, z)
    BY <1>0, <1>3, <1>4, <1>5, Zenon DEF Hold, Tied
  <1>12. ASSUME NEW r \in Page
        PROVE  PlaceAt(r)' /\ TidAt(r)' /\ SeekAt(r)' /\ FreshAt(r)' /\ KidsAt(r)' /\ EndAt(r)' /\ RetAt(r)'
    <2>1. PlaceAt(r) /\ TidAt(r) /\ SeekAt(r) /\ FreshAt(r) /\ KidsAt(r) /\ EndAt(r) /\ RetAt(r)
      BY Zenon DEF PInv
    <2>2. /\ tid[r] \in Int /\ want[r] \in Int /\ wait_for_load[r] \in Nat /\ block_parent[r] \in Nat
          /\ parent[r] \in Page \cup {NULL} /\ next_tid \in Nat \ {0} /\ (tid[p] \in Int /\ want[p] \in Int)
      BY Zenon DEF PInv, TypeOK
    <2>3. PlaceAt(r)'
      BY <1>0, <1>3, <2>1, Zenon DEF PlaceAt
    <2>4. TidAt(r)'
      BY <1>0, <2>1, Zenon DEF TidAt
    <2>5. SeekAt(r)'
      BY <1>0, <2>1, Zenon DEF SeekAt
    <2>6. FreshAt(r)'
      BY <1>0, <2>1, <2>2, Zenon DEF FreshAt
    <2>7. KidsAt(r)'
      BY <1>0, <1>4, <2>1, Zenon DEF KidsAt, Kid
    <2>8. EndAt(r)'
      BY <1>0, <2>1, Zenon DEF EndAt, Exit1, PlaceAt, Wait1
    <2>9. RetAt(r)'
      BY <1>0, <1>7, <1>8, <2>1 DEF RetAt
    <2>10. QED
      BY <2>3, <2>4, <2>5, <2>6, <2>7, <2>8, <2>9, Zenon
  <1>13. ASSUME NEW r \in Page, NEW z \in Page PROVE Apart(r, z)' /\ HeldAt(r, z)'
    <2>1. Apart(r, z) /\ HeldAt(r, z)
      BY Zenon DEF PInv
    <2>2. Apart(r, z)'
      BY <1>0, <2>1, Zenon DEF Apart, Seeking
    <2>3. HeldAt(r, z)'
      BY <1>0, <1>11, <2>1, Zenon DEF HeldAt, Wait1
    <2>4. QED
      BY <2>2, <2>3, Zenon
  <1>14. QED
    BY <1>9, <1>10, <1>12, <1>13, Zenon DEF PInv

LEMMA WaitUpInv ==
  ASSUME PInv, ~ panic, NEW p \in Page, NEW c \in Page, child_thread[p] = c, WaitUp(p)
  PROVE  PInv'
  <1> USE DEF thread, Goto, Forget, Return
  <1>0. /\ pc[p] = "release" /\ child_thread[p] = c
        /\ pc'[p] = "run"
        /\ \A r \in Page : r # p => pc'[r] = pc[r]
        /\ block_child'[c] = block_child[c] + 1
        /\ \A r \in Page : r # c => block_child'[r] = block_child[r]
        /\ child_thread'[p] = NULL
        /\ \A r \in Page : r # p => child_thread'[r] = child_thread[r]
        /\ want'[p] = 0
        /\ \A r \in Page : r # p => want'[r] = want[r]
        /\ UNCHANGED <<tid, parent, exit_status, block_parent, wait_for_load, child_list,
                       all_list, next_tid, ended, panic, ret>>
    BY Zenon DEF PInv, TypeOK, WaitUp
  <1>1. Hold(p, c) /\ ~ Kid(p, c)
    BY <1>0, Zenon DEF PInv, KidsAt, Hold, Tied
  <1>2. pc[c] \notin {"free", "load", "notify"}
    BY <1>1, Zenon DEF PInv, HeldAt, Exec1, Wait1, Exit1
  <1>3. \A r \in Page : Hold(r, c) => r = p
    BY <1>1, Zenon DEF PInv, HeldAt
  <1>4. block_child' \in [Page -> Nat]
    <2>1. block_child \in [Page -> Nat]
      BY Zenon DEF PInv, TypeOK
    <2>2. QED
      BY <2>1 DEF WaitUp
  <1>5. TypeOK'
    <2>1. TypeOK
      BY Zenon DEF PInv
    <2>2. pc' \in [Page -> Label]
      BY <2>1, Zenon DEF TypeOK, WaitUp, Label
    <2>3. want' \in [Page -> Int]
      BY <2>1 DEF TypeOK, WaitUp
    <2>5. child_thread' \in [Page -> Page \cup {NULL}]
      BY <2>1, Zenon DEF TypeOK, WaitUp
    <2>4. QED
      BY <1>4, <2>1, <2>2, <2>3, Zenon DEF TypeOK, WaitUp
  <1>6. ListInv'
    BY <1>0, Zenon DEF PInv, ListInv, Live
  <1>7. ASSUME NEW r \in Page, NEW z \in Page PROVE Hold(r, z)' <=> Hold(r, z) /\ z # c
    BY <1>0, <1>1, <1>3, Zenon DEF Hold, Tied, Kid
  <1>8. ASSUME NEW r \in Page
        PROVE  PlaceAt(r)' /\ TidAt(r)' /\ SeekAt(r)' /\ FreshAt(r)' /\ KidsAt(r)' /\ EndAt(r)' /\ RetAt(r)'
    <2>1. PlaceAt(r) /\ TidAt(r) /\ SeekAt(r) /\ FreshAt(r) /\ KidsAt(r) /\ EndAt(r) /\ RetAt(r)
      BY Zenon DEF PInv
    <2>2. /\ tid[r] \in Int /\ want[r] \in Int /\ wait_for_load[r] \in Nat /\ block_parent[r] \in Nat
          /\ parent[r] \in Page \cup {NULL} /\ next_tid \in Nat \ {0} /\ (tid[p] \in Int /\ want[p] \in Int)
      BY Zenon DEF PInv, TypeOK
    <2>3. PlaceAt(r)'
      BY <1>0, <1>2, <2>1, Zenon DEF PlaceAt, Exec1, Wait1
    <2>4. TidAt(r)'
      BY <1>0, <2>1, <2>2 DEF TidAt
    <2>5. SeekAt(r)'
      BY <1>0, <1>1, <1>2, <1>3, <2>1, <2>2, Zenon DEF SeekAt
    <2>6. FreshAt(r)'
      BY <1>0, <2>1, <2>2, Zenon DEF FreshAt
    <2>7. KidsAt(r)'
      BY <1>0, <2>1, Zenon DEF KidsAt, Kid
    <2>8. EndAt(r)'
      BY <1>0, <2>1, Zenon DEF EndAt, Exit1, PlaceAt, Wait1
    <2>9. RetAt(r)'
      BY <1>0, <2>1, Zenon DEF RetAt
    <2>10. QED
      BY <2>3, <2>4, <2>5, <2>6, <2>7, <2>8, <2>9, Zenon
  <1>9. ASSUME NEW r \in Page, NEW z \in Page PROVE Apart(r, z)' /\ HeldAt(r, z)'
    <2>1. Apart(r, z) /\ HeldAt(r, z)
      BY Zenon DEF PInv
    <2>2. Apart(r, z)'
      BY <1>0, <2>1, Zenon DEF Apart, Seeking
    <2>3. HeldAt(r, z)'
      BY <1>0, <1>7, <2>1, Zenon DEF HeldAt
    <2>4. QED
      BY <2>2, <2>3, Zenon
  <1>10. QED
    BY <1>5, <1>6, <1>8, <1>9, Zenon DEF PInv

LEMMA LosesInv ==
  ASSUME PInv, ~ panic, NEW p \in Page, NEW c \in Page, Loses(p, c)
  PROVE  PInv'
  <1> USE DEF thread, Goto, Forget, Return
  <1>0. /\ pc[p] = "exit" /\ Kid(p, c)
        /\ pc'[p] = "again"
        /\ \A r \in Page : r # p => pc'[r] = pc[r]
        /\ block_child'[c] = block_child[c] + 1
        /\ \A r \in Page : r # c => block_child'[r] = block_child[r]
        /\ child_list'[p] = <<>>
        /\ \A r \in Page : r # p => child_list'[r] = child_list[r]
        /\ UNCHANGED <<tid, parent, exit_status, block_parent, wait_for_load, child_thread, want,
                       all_list, next_tid, ended, panic, ret>>
    BY Zenon DEF PInv, TypeOK, Loses
  <1>1. Hold(p, c)
    BY <1>0, Zenon DEF Hold
  <1>2. pc[c] \notin {"free", "load", "notify"}
    BY <1>1, Zenon DEF PInv, HeldAt, Exec1, Wait1, Exit1
  <1>3. \A r \in Page : Hold(r, c) => r = p
    BY <1>1, Zenon DEF PInv, HeldAt
  <1>4. block_child' \in [Page -> Nat]
    <2>1. block_child \in [Page -> Nat]
      BY Zenon DEF PInv, TypeOK
    <2>2. QED
      BY <2>1 DEF Loses
  <1>11. <<>> \in Seq(Page) /\ Once(<<>>) /\ Members(<<>>) = {}
    BY DEF Once, Members
  <1>5. TypeOK'
    <2>1. TypeOK
      BY Zenon DEF PInv
    <2>2. pc' \in [Page -> Label]
      BY <2>1, Zenon DEF TypeOK, Loses, Label, Exit1
    <2>3. child_list' \in [Page -> Seq(Page)]
      BY <1>11, <2>1, Zenon DEF TypeOK, Loses
    <2>4. QED
      BY <1>4, <2>1, <2>2, <2>3, Zenon DEF TypeOK, Loses
  <1>6. ListInv'
    BY <1>0, Zenon DEF PInv, ListInv, Live
  <1>12. \A z \in Page : ~ Kid(p, z)'
    BY <1>0, <1>11, Zenon DEF Kid
  <1>13. \A r, z \in Page : r # p => (Kid(r, z)' <=> Kid(r, z))
    BY <1>0, Zenon DEF Kid
  <1>7. ASSUME NEW r \in Page, NEW z \in Page PROVE Hold(r, z)' => Hold(r, z) /\ z # c /\ r # p
    BY <1>0, <1>3, <1>12, <1>13, Zenon DEF Hold, Tied
  <1>8. ASSUME NEW r \in Page
        PROVE  PlaceAt(r)' /\ TidAt(r)' /\ SeekAt(r)' /\ FreshAt(r)' /\ KidsAt(r)' /\ EndAt(r)' /\ RetAt(r)'
    <2>1. PlaceAt(r) /\ TidAt(r) /\ SeekAt(r) /\ FreshAt(r) /\ KidsAt(r) /\ EndAt(r) /\ RetAt(r)
      BY Zenon DEF PInv
    <2>2. /\ tid[r] \in Int /\ want[r] \in Int /\ wait_for_load[r] \in Nat /\ block_parent[r] \in Nat
          /\ parent[r] \in Page \cup {NULL} /\ next_tid \in Nat \ {0} /\ (tid[p] \in Int /\ want[p] \in Int)
      BY Zenon DEF PInv, TypeOK
    <2>3. PlaceAt(r)'
      BY <1>0, <1>2, <1>11, <2>1, Zenon DEF PlaceAt, Exec1, Wait1
    <2>4. TidAt(r)'
      BY <1>0, <2>1, Zenon DEF TidAt
    <2>5. SeekAt(r)'
      BY <1>0, <2>1, Zenon DEF SeekAt
    <2>6. FreshAt(r)'
      BY <1>0, <2>1, <2>2, Zenon DEF FreshAt
    <2>7. KidsAt(r)'
      BY <1>0, <1>12, <1>13, <2>1, Zenon DEF KidsAt, PlaceAt, Exec1, Wait1
    <2>8. EndAt(r)'
      BY <1>0, <2>1, Zenon DEF EndAt, Exit1, PlaceAt, Wait1
    <2>9. RetAt(r)'
      BY <1>0, <2>1, Zenon DEF RetAt
    <2>10. QED
      BY <2>3, <2>4, <2>5, <2>6, <2>7, <2>8, <2>9, Zenon
  <1>9. ASSUME NEW r \in Page, NEW z \in Page PROVE Apart(r, z)' /\ HeldAt(r, z)'
    <2>1. Apart(r, z) /\ HeldAt(r, z)
      BY Zenon DEF PInv
    <2>2. Apart(r, z)'
      BY <1>0, <2>1, Zenon DEF Apart, Seeking
    <2>3. HeldAt(r, z)'
      BY <1>0, <1>7, <2>1, Zenon DEF HeldAt, Exit1
    <2>4. QED
      BY <2>2, <2>3, Zenon
  <1>10. QED
    BY <1>5, <1>6, <1>8, <1>9, Zenon DEF PInv

LEMMA ExitAgainInv ==
  ASSUME PInv, ~ panic, NEW p \in Page, ExitAgain(p)
  PROVE  PInv'
  <1> USE DEF thread, Goto, Forget, Return
  <1>0. UNCHANGED <<tid, parent, exit_status, block_parent, block_child, wait_for_load, child_list,
                    pc, child_thread, want, all_list, next_tid, ended, ret>>
    BY Zenon DEF ExitAgain
  <1>2. TypeOK'
    BY Zenon DEF PInv, TypeOK, ExitAgain
  <1>3. ListInv'
    BY <1>0, Zenon DEF PInv, ListInv, Live
  <1>4. ASSUME NEW r \in Page, NEW z \in Page PROVE Hold(r, z)' <=> Hold(r, z)
    BY <1>0, Zenon DEF Hold, Tied, Kid
  <1>5. ASSUME NEW r \in Page
        PROVE  PlaceAt(r)' /\ TidAt(r)' /\ SeekAt(r)' /\ FreshAt(r)' /\ KidsAt(r)' /\ EndAt(r)' /\ RetAt(r)'
    <2>1. PlaceAt(r) /\ TidAt(r) /\ SeekAt(r) /\ FreshAt(r) /\ KidsAt(r) /\ EndAt(r) /\ RetAt(r)
      BY Zenon DEF PInv
    <2>2. /\ tid[r] \in Int /\ want[r] \in Int /\ wait_for_load[r] \in Nat /\ block_parent[r] \in Nat
          /\ parent[r] \in Page \cup {NULL} /\ next_tid \in Nat \ {0} /\ (tid[p] \in Int /\ want[p] \in Int)
      BY Zenon DEF PInv, TypeOK
    <2>3. PlaceAt(r)'
      BY <1>0, <2>1, Zenon DEF PlaceAt
    <2>4. TidAt(r)'
      BY <1>0, <2>1, Zenon DEF TidAt
    <2>5. SeekAt(r)'
      BY <1>0, <2>1, Zenon DEF SeekAt
    <2>6. FreshAt(r)'
      BY <1>0, <2>1, Zenon DEF FreshAt
    <2>7. KidsAt(r)'
      BY <1>0, <2>1, Zenon DEF KidsAt, Kid
    <2>8. EndAt(r)'
      BY <1>0, <2>1, Zenon DEF EndAt
    <2>9. RetAt(r)'
      BY <1>0, <2>1, Zenon DEF RetAt
    <2>10. QED
      BY <2>3, <2>4, <2>5, <2>6, <2>7, <2>8, <2>9, Zenon
  <1>6. ASSUME NEW r \in Page, NEW z \in Page PROVE Apart(r, z)' /\ HeldAt(r, z)'
    <2>1. Apart(r, z) /\ HeldAt(r, z)
      BY Zenon DEF PInv
    <2>2. Apart(r, z)'
      BY <1>0, <2>1, Zenon DEF Apart
    <2>3. HeldAt(r, z)'
      BY <1>0, <1>4, <2>1, Zenon DEF HeldAt
    <2>4. QED
      BY <2>2, <2>3, Zenon
  <1>7. QED
    BY <1>2, <1>3, <1>5, <1>6, Zenon DEF PInv

LEMMA TellsInv ==
  ASSUME PInv, ~ panic, NEW p \in Page, Tells(p)
  PROVE  PInv'
  <1> USE DEF thread, Goto, Forget, Return
  <1>0. /\ pc[p] = "exit" /\ child_list[p] = <<>>
        /\ pc'[p] = "leave"
        /\ \A r \in Page : r # p => pc'[r] = pc[r]
        /\ block_parent'[p] = block_parent[p] + 1
        /\ \A r \in Page : r # p => block_parent'[r] = block_parent[r]
        /\ UNCHANGED <<tid, parent, exit_status, block_child, wait_for_load, child_list,
                       child_thread, want, all_list, next_tid, ended, ret>>
    BY Zenon DEF PInv, TypeOK, Tells
  <1>1. block_parent' \in [Page -> Nat]
    <2>1. block_parent \in [Page -> Nat]
      BY Zenon DEF PInv, TypeOK
    <2>2. QED
      BY <2>1 DEF Tells
  <1>2. TypeOK'
    BY <1>1, Zenon DEF PInv, TypeOK, Tells, Label, Exit1
  <1>3. ListInv'
    BY <1>0, Zenon DEF PInv, ListInv, Live
  <1>4. ASSUME NEW r \in Page, NEW z \in Page PROVE Hold(r, z)' <=> Hold(r, z)
    BY <1>0, Zenon DEF Hold, Tied, Kid
  <1>5. ASSUME NEW r \in Page
        PROVE  PlaceAt(r)' /\ TidAt(r)' /\ SeekAt(r)' /\ FreshAt(r)' /\ KidsAt(r)' /\ EndAt(r)' /\ RetAt(r)'
    <2>1. PlaceAt(r) /\ TidAt(r) /\ SeekAt(r) /\ FreshAt(r) /\ KidsAt(r) /\ EndAt(r) /\ RetAt(r)
      BY Zenon DEF PInv
    <2>2. /\ tid[r] \in Int /\ want[r] \in Int /\ wait_for_load[r] \in Nat /\ block_parent[r] \in Nat
          /\ parent[r] \in Page \cup {NULL} /\ next_tid \in Nat \ {0} /\ (tid[p] \in Int /\ want[p] \in Int)
      BY Zenon DEF PInv, TypeOK
    <2>3. PlaceAt(r)'
      BY <1>0, <2>1, Zenon DEF PlaceAt, Exec1, Wait1
    <2>4. TidAt(r)'
      BY <1>0, <2>1, Zenon DEF TidAt
    <2>5. SeekAt(r)'
      BY <1>0, <2>1, Zenon DEF SeekAt
    <2>6. FreshAt(r)'
      BY <1>0, <2>1, <2>2, Zenon DEF FreshAt
    <2>7. KidsAt(r)'
      BY <1>0, <2>1, Zenon DEF KidsAt, Kid
    <2>8. EndAt(r)'
      BY <1>0, <2>1, Zenon DEF EndAt, Exit1, PlaceAt, Wait1
    <2>9. RetAt(r)'
      BY <1>0, <2>1, Zenon DEF RetAt
    <2>10. QED
      BY <2>3, <2>4, <2>5, <2>6, <2>7, <2>8, <2>9, Zenon
  <1>6. ASSUME NEW r \in Page, NEW z \in Page PROVE Apart(r, z)' /\ HeldAt(r, z)'
    <2>1. Apart(r, z) /\ HeldAt(r, z)
      BY Zenon DEF PInv
    <2>2. Apart(r, z)'
      BY <1>0, <2>1, Zenon DEF Apart, Seeking
    <2>3. HeldAt(r, z)'
      BY <1>0, <1>4, <2>1, Zenon DEF HeldAt, Exit1
    <2>4. QED
      BY <2>2, <2>3, Zenon
  <1>7. QED
    BY <1>2, <1>3, <1>5, <1>6, Zenon DEF PInv

LEMMA ExitTestInv ==
  ASSUME PInv, ~ panic, NEW p \in Page, ExitTest(p)
  PROVE  PInv'
  <1> USE DEF thread, Goto, Forget, Return
  <1>0. /\ pc[p] = "leave"
        /\ pc'[p] = IF parent[p] = NULL THEN "die" ELSE "zombie"
        /\ \A r \in Page : r # p => pc'[r] = pc[r]
        /\ UNCHANGED <<tid, parent, exit_status, block_parent, block_child, wait_for_load,
                       child_list, child_thread, want, all_list, next_tid, ended, panic, ret>>
    BY Zenon DEF PInv, TypeOK, ExitTest
  <1>1. \A r \in Page : Hold(r, p) => parent[p] # NULL
    BY Zenon DEF PInv, HeldAt
  <1>2. TypeOK'
    BY Zenon DEF PInv, TypeOK, ExitTest, Label, Exit1
  <1>3. ListInv'
    BY <1>0, Zenon DEF PInv, ListInv, Live
  <1>4. ASSUME NEW r \in Page, NEW z \in Page PROVE Hold(r, z)' <=> Hold(r, z)
    BY <1>0, Zenon DEF Hold, Tied, Kid
  <1>5. ASSUME NEW r \in Page
        PROVE  PlaceAt(r)' /\ TidAt(r)' /\ SeekAt(r)' /\ FreshAt(r)' /\ KidsAt(r)' /\ EndAt(r)' /\ RetAt(r)'
    <2>1. PlaceAt(r) /\ TidAt(r) /\ SeekAt(r) /\ FreshAt(r) /\ KidsAt(r) /\ EndAt(r) /\ RetAt(r)
      BY Zenon DEF PInv
    <2>2. /\ tid[r] \in Int /\ want[r] \in Int /\ wait_for_load[r] \in Nat /\ block_parent[r] \in Nat
          /\ parent[r] \in Page \cup {NULL} /\ next_tid \in Nat \ {0} /\ (tid[p] \in Int /\ want[p] \in Int)
      BY Zenon DEF PInv, TypeOK
    <2>3. PlaceAt(r)'
      BY <1>0, <2>1, Zenon DEF PlaceAt, Exec1, Wait1
    <2>4. TidAt(r)'
      BY <1>0, <2>1, Zenon DEF TidAt
    <2>5. SeekAt(r)'
      BY <1>0, <2>1, Zenon DEF SeekAt
    <2>6. FreshAt(r)'
      BY <1>0, <2>1, <2>2, Zenon DEF FreshAt
    <2>7. KidsAt(r)'
      BY <1>0, <2>1, Zenon DEF KidsAt, Kid
    <2>8. EndAt(r)'
      BY <1>0, <1>1, <2>1, Zenon DEF EndAt, Exit1, PlaceAt, Wait1, KidsAt, Hold
    <2>9. RetAt(r)'
      BY <1>0, <2>1, Zenon DEF RetAt
    <2>10. QED
      BY <2>3, <2>4, <2>5, <2>6, <2>7, <2>8, <2>9, Zenon
  <1>6. ASSUME NEW r \in Page, NEW z \in Page PROVE Apart(r, z)' /\ HeldAt(r, z)'
    <2>1. Apart(r, z) /\ HeldAt(r, z)
      BY Zenon DEF PInv
    <2>2. Apart(r, z)'
      BY <1>0, <2>1, Zenon DEF Apart, Seeking
    <2>3. HeldAt(r, z)'
      BY <1>0, <1>4, <2>1, Zenon DEF HeldAt, Exit1
    <2>4. QED
      BY <2>2, <2>3, Zenon
  <1>7. QED
    BY <1>2, <1>3, <1>5, <1>6, Zenon DEF PInv

LEMMA ExitDownInv ==
  ASSUME PInv, ~ panic, NEW p \in Page, ExitDown(p)
  PROVE  PInv'
  <1> USE DEF thread, Goto, Forget, Return
  <1>0. /\ pc[p] = "zombie" /\ block_child[p] > 0
        /\ pc'[p] = "die"
        /\ \A r \in Page : r # p => pc'[r] = pc[r]
        /\ block_child'[p] = block_child[p] - 1
        /\ \A r \in Page : r # p => block_child'[r] = block_child[r]
        /\ UNCHANGED <<tid, parent, exit_status, block_parent, wait_for_load, child_list,
                       child_thread, want, all_list, next_tid, ended, panic, ret>>
    BY Zenon DEF PInv, TypeOK, ExitDown
  <1>1. \A r \in Page : ~ Hold(r, p)
    BY <1>0 DEF PInv, HeldAt
  <1>2. block_child' \in [Page -> Nat]
    <2>1. block_child \in [Page -> Nat]
      BY Zenon DEF PInv, TypeOK
    <2>2. QED
      BY <2>1 DEF ExitDown
  <1>3. TypeOK'
    BY <1>2, Zenon DEF PInv, TypeOK, ExitDown, Label
  <1>4. ListInv'
    BY <1>0, Zenon DEF PInv, ListInv, Live
  <1>5. ASSUME NEW r \in Page, NEW z \in Page PROVE Hold(r, z)' <=> Hold(r, z)
    BY <1>0, Zenon DEF Hold, Tied, Kid
  <1>6. ASSUME NEW r \in Page
        PROVE  PlaceAt(r)' /\ TidAt(r)' /\ SeekAt(r)' /\ FreshAt(r)' /\ KidsAt(r)' /\ EndAt(r)' /\ RetAt(r)'
    <2>1. PlaceAt(r) /\ TidAt(r) /\ SeekAt(r) /\ FreshAt(r) /\ KidsAt(r) /\ EndAt(r) /\ RetAt(r)
      BY Zenon DEF PInv
    <2>2. /\ tid[r] \in Int /\ want[r] \in Int /\ wait_for_load[r] \in Nat /\ block_parent[r] \in Nat
          /\ parent[r] \in Page \cup {NULL} /\ next_tid \in Nat \ {0} /\ (tid[p] \in Int /\ want[p] \in Int)
      BY Zenon DEF PInv, TypeOK
    <2>3. PlaceAt(r)'
      BY <1>0, <2>1, Zenon DEF PlaceAt, Exec1, Wait1
    <2>4. TidAt(r)'
      BY <1>0, <2>1, Zenon DEF TidAt
    <2>5. SeekAt(r)'
      BY <1>0, <2>1, Zenon DEF SeekAt
    <2>6. FreshAt(r)'
      BY <1>0, <2>1, <2>2, Zenon DEF FreshAt
    <2>7. KidsAt(r)'
      BY <1>0, <2>1, Zenon DEF KidsAt, Kid
    <2>8. EndAt(r)'
      BY <1>0, <1>1, <2>1, Zenon DEF EndAt, Exit1, PlaceAt, Wait1, KidsAt, Hold
    <2>9. RetAt(r)'
      BY <1>0, <2>1, Zenon DEF RetAt
    <2>10. QED
      BY <2>3, <2>4, <2>5, <2>6, <2>7, <2>8, <2>9, Zenon
  <1>7. ASSUME NEW r \in Page, NEW z \in Page PROVE Apart(r, z)' /\ HeldAt(r, z)'
    <2>1. Apart(r, z) /\ HeldAt(r, z)
      BY Zenon DEF PInv
    <2>2. Apart(r, z)'
      BY <1>0, <2>1, Zenon DEF Apart, Seeking
    <2>3. HeldAt(r, z)'
      BY <1>0, <1>1, <1>5, <2>1, Zenon DEF HeldAt
    <2>4. QED
      BY <2>2, <2>3, Zenon
  <1>8. QED
    BY <1>3, <1>4, <1>6, <1>7, Zenon DEF PInv

LEMMA DiesInv ==
  ASSUME PInv, ~ panic, NEW p \in Page, NEW i \in DOMAIN all_list, Dies(p, i)
  PROVE  PInv'
  <1> USE DEF thread, Goto, Forget, Return
  <1>0. /\ pc[p] = "die" /\ all_list[i] = p
        /\ pc'[p] = "free"
        /\ \A r \in Page : r # p => pc'[r] = pc[r]
        /\ tid'[p] = 0
        /\ \A r \in Page : r # p => tid'[r] = tid[r]
        /\ parent'[p] = NULL
        /\ \A r \in Page : r # p => parent'[r] = parent[r]
        /\ exit_status'[p] = 0
        /\ \A r \in Page : r # p => exit_status'[r] = exit_status[r]
        /\ block_parent'[p] = 0
        /\ \A r \in Page : r # p => block_parent'[r] = block_parent[r]
        /\ block_child'[p] = 0
        /\ \A r \in Page : r # p => block_child'[r] = block_child[r]
        /\ wait_for_load'[p] = 0
        /\ \A r \in Page : r # p => wait_for_load'[r] = wait_for_load[r]
        /\ child_thread'[p] = NULL
        /\ \A r \in Page : r # p => child_thread'[r] = child_thread[r]
        /\ UNCHANGED <<child_list, want, next_tid, ended, panic>>
    BY Zenon DEF PInv, TypeOK, Dies
  <1>1. all_list' \in Seq(Page) /\ Members(all_list') = Members(all_list) \ {p}
        /\ Once(all_list')
    <2>1. all_list \in Seq(Page) /\ Once(all_list)
      BY Zenon DEF PInv, TypeOK, ListInv
    <2>2. all_list' = RemoveAt(all_list, i)
      BY Zenon DEF Dies
    <2>3. QED
      BY <1>0, <2>1, <2>2, RemoveList
  <1>2. \A r \in Page : ~ Hold(r, p)
    BY <1>0, Zenon DEF PInv, HeldAt, Exec1, Wait1, Exit1
  <1>3. child_list[p] = <<>>
    BY <1>0, Zenon DEF PInv, PlaceAt
  <1>4. TypeOK'
    <2>1. TypeOK
      BY Zenon DEF PInv
    <2>2. pc' \in [Page -> Label]
      BY <2>1, Zenon DEF TypeOK, Dies, Label
    <2>3. /\ tid' \in [Page -> Int] /\ exit_status' \in [Page -> Int]
          /\ block_parent' \in [Page -> Nat] /\ block_child' \in [Page -> Nat]
          /\ wait_for_load' \in [Page -> Nat]
      <3>1. /\ tid \in [Page -> Int] /\ exit_status \in [Page -> Int]
            /\ block_parent \in [Page -> Nat] /\ block_child \in [Page -> Nat]
            /\ wait_for_load \in [Page -> Nat]
        BY <2>1, Zenon DEF TypeOK
      <3>2. QED
        BY <3>1 DEF Dies
    <2>4. /\ child_thread' \in [Page -> Page \cup {NULL}]
          /\ parent' \in [Page -> Page \cup {NULL}]
      BY <2>1, Zenon DEF TypeOK, Dies
    <2>5. QED
      BY <1>1, <2>1, <2>2, <2>3, Zenon DEF TypeOK, Dies, RetKept
  <1>5. ListInv'
    BY <1>0, <1>1 DEF PInv, ListInv, Live
  <1>6. ASSUME NEW r \in Page, NEW z \in Page PROVE Hold(r, z)' <=> Hold(r, z)
    BY <1>0, Zenon DEF Hold, Tied, Kid
  <1>7. ASSUME NEW r \in Page
        PROVE  PlaceAt(r)' /\ TidAt(r)' /\ SeekAt(r)' /\ FreshAt(r)' /\ KidsAt(r)' /\ EndAt(r)' /\ RetAt(r)'
    <2>1. PlaceAt(r) /\ TidAt(r) /\ SeekAt(r) /\ FreshAt(r) /\ KidsAt(r) /\ EndAt(r) /\ RetAt(r)
      BY Zenon DEF PInv
    <2>2. /\ tid[r] \in Int /\ want[r] \in Int /\ wait_for_load[r] \in Nat /\ block_parent[r] \in Nat
          /\ parent[r] \in Page \cup {NULL} /\ next_tid \in Nat \ {0} /\ (tid[p] \in Int /\ want[p] \in Int)
      BY Zenon DEF PInv, TypeOK
    <2>3. PlaceAt(r)'
      <3>1. wait_for_load'[p] = 0
        BY <1>0, Zenon
      <3>2. ~ (wait_for_load'[p] > 0)
        BY <3>1
      <3>3. QED
        BY <1>0, <1>3, <2>1, <3>2, Zenon DEF PlaceAt, Exec1, Wait1
    <2>4. TidAt(r)'
      BY <1>0, <1>2, <2>1, <2>2 DEF TidAt, PlaceAt, Wait1, KidsAt, Hold
    <2>5. SeekAt(r)'
      <3>1. tid'[p] = 0 /\ want'[r] = want[r]
        BY <1>0, Zenon
      <3>2. want'[r] > 0 => tid'[p] # want'[r]
        BY <2>2, <3>1
      <3>3. QED
        BY <1>0, <2>1, <3>2, Zenon DEF SeekAt
    <2>6. FreshAt(r)'
      BY <1>0, <2>1, <2>2 DEF FreshAt
    <2>7. KidsAt(r)'
      BY <1>0, <1>2, <2>1, Zenon DEF KidsAt, Kid, Hold
    <2>8. EndAt(r)'
      <3>1. block_parent'[p] = 0
        BY <1>0, Zenon
      <3>2. ~ (block_parent'[p] > 0)
        BY <3>1
      <3>3. QED
        BY <1>0, <2>1, <3>2, Zenon DEF EndAt, PlaceAt, Wait1, Exit1
    <2>9. RetAt(r)'
      BY <2>1, Zenon DEF RetAt, Dies, RetKept
    <2>10. QED
      BY <2>3, <2>4, <2>5, <2>6, <2>7, <2>8, <2>9, Zenon
  <1>8. ASSUME NEW r \in Page, NEW z \in Page PROVE Apart(r, z)' /\ HeldAt(r, z)'
    <2>1. Apart(r, z) /\ HeldAt(r, z)
      BY Zenon DEF PInv
    <2>2. Apart(r, z)'
      <3>1. tid'[p] = 0
        BY <1>0, Zenon
      <3>2. ~ (tid'[p] > 0)
        BY <3>1
      <3>3. QED
        BY <1>0, <2>1, <3>2, Zenon DEF Apart, Seeking
    <2>3. HeldAt(r, z)'
      BY <1>0, <1>6, <2>1, Zenon DEF HeldAt, Exec1, Wait1, Exit1
    <2>4. QED
      BY <2>2, <2>3, Zenon
  <1>9. QED
    BY <1>4, <1>5, <1>7, <1>8, Zenon DEF PInv
-----------------------------------------------------------------------------
LEMMA InitPInv == Init => PInv
  <1> SUFFICES ASSUME Init PROVE PInv
    BY Zenon
  <1>1. TypeOK
    <2>1. all_list \in Seq(Page) /\ child_list \in [Page -> Seq(Page)]
      BY ProcessAssumption DEF Init
    <2>2. pc \in [Page -> Label]
      BY Zenon DEF Init, Label
    <2>3. /\ tid \in [Page -> Int] /\ exit_status \in [Page -> Int]
          /\ block_parent \in [Page -> Nat] /\ block_child \in [Page -> Nat]
          /\ wait_for_load \in [Page -> Nat] /\ want \in [Page -> Int] /\ next_tid \in Nat \ {0}
      BY DEF Init
    <2>4. QED
      BY <2>1, <2>2, <2>3, Zenon DEF Init, TypeOK
  <1>2. ListInv
    BY DEF Init, ListInv, Once, Live, Members
  <1>3. ASSUME NEW p \in Page PROVE Once(child_list[p]) /\ \A c : ~ Kid(p, c)
    BY DEF Init, Once, Kid, Members
  <1>4. ASSUME NEW p \in Page
        PROVE  PlaceAt(p) /\ TidAt(p) /\ SeekAt(p) /\ FreshAt(p) /\ KidsAt(p) /\ EndAt(p) /\ RetAt(p)
    BY <1>3
       DEF Init, NoCall, PlaceAt, TidAt, SeekAt, FreshAt, KidsAt, EndAt, RetAt, Exec1, Wait1,
           Exit1
  <1>5. ASSUME NEW p \in Page, NEW q \in Page PROVE Apart(p, q) /\ HeldAt(p, q)
    BY <1>3 DEF Init, Apart, HeldAt, Hold, Tied, Seeking
  <1>6. QED
    BY <1>1, <1>2, <1>4, <1>5, Zenon DEF PInv

LEMMA NextPInv == PInv /\ [Next]_vars => PInv'
  <1> SUFFICES ASSUME PInv, [Next]_vars PROVE PInv'
    BY Zenon
  <1>1. ASSUME NEW p \in Page, Step(p) PROVE PInv'
    <2>1. ~ panic
      BY <1>1, Zenon DEF Step, KernelStep
    <2>2. TypeOK /\ ListInv /\ PlaceAt(p)
      BY Zenon DEF PInv
    <2>3. Alternatives(p)
      BY <1>1, <2>2, NextCases, Zenon
    <2>4. pc[p] \in Wait1 => child_thread[p] \in Page
      BY <2>2, Zenon DEF PlaceAt
    <2>5. CASE WaitDown(p)
      BY <2>1, <2>4, <2>5, WaitDownInv, Zenon DEF WaitDown, Wait1
    <2>6. CASE WaitUp(p)
      BY <2>1, <2>4, <2>6, WaitUpInv, Zenon DEF WaitUp, Wait1
    <2>7. CASE AwaitLoad(p) \/ Tells(p) \/ ExitAgain(p) \/ ExitTest(p) \/ ExitDown(p)
      BY <2>1, <2>7, AwaitLoadInv, TellsInv, ExitAgainInv, ExitTestInv, ExitDownInv, Zenon
    <2>8. CASE \E c \in Page : Finds(p, c) \/ Drops(p, c) \/ Adds(p, c) \/ WaitsFor(p, c) \/ Loses(p, c)
      BY <2>1, <2>8, FindsInv, DropsInv, AddsInv, WaitsForInv, LosesInv, Zenon
    <2>9. QED
      BY <2>1, <2>3, <2>5, <2>6, <2>7, <2>8, StrollsInv, CreatesInv, FinishesInv, LoadsInv,
         NotifiesInv, FetchesInv, DiesInv, Zenon
         DEF Alternatives
  <1>2. CASE Next
    BY <1>1, <1>2, Zenon DEF Next, Step
  <1>3. CASE UNCHANGED vars
    <2> USE DEF vars, thread
    <2>1. TypeOK' /\ ListInv'
      BY <1>3, Zenon DEF PInv, TypeOK, ListInv, Live
    <2>2. ASSUME NEW p \in Page
          PROVE  PlaceAt(p)' /\ TidAt(p)' /\ SeekAt(p)' /\ FreshAt(p)' /\ KidsAt(p)'
                 /\ EndAt(p)' /\ RetAt(p)'
      <3>1. PlaceAt(p) /\ TidAt(p) /\ SeekAt(p) /\ FreshAt(p) /\ KidsAt(p) /\ EndAt(p) /\ RetAt(p)
        BY Zenon DEF PInv
      <3>2. PlaceAt(p)' /\ TidAt(p)' /\ SeekAt(p)'
        BY <1>3, <3>1, Zenon DEF PlaceAt, TidAt, SeekAt
      <3>3. FreshAt(p)' /\ KidsAt(p)'
        BY <1>3, <3>1, Zenon DEF FreshAt, KidsAt, Kid
      <3>4. EndAt(p)' /\ RetAt(p)'
        BY <1>3, <3>1, Zenon DEF EndAt, RetAt
      <3>5. QED
        BY <3>2, <3>3, <3>4, Zenon
    <2>3. ASSUME NEW p \in Page, NEW q \in Page PROVE Apart(p, q)' /\ HeldAt(p, q)'
      <3>1. Apart(p, q) /\ HeldAt(p, q)
        BY Zenon DEF PInv
      <3>2. QED
        BY <1>3, <3>1, Zenon DEF Apart, HeldAt, Hold, Tied, Kid
    <2>4. QED
      BY <2>1, <2>2, <2>3, Zenon DEF PInv
  <1>4. QED
    BY <1>2, <1>3, Zenon

(* The invariant holds, whatever the threads do. *)
LEMMA PInvHolds == Spec => []PInv
  <1>1. QED
    BY InitPInv, NextPInv, PTL DEF Spec

(* No pointer to a child outlives the child, for any number of processes:    *)
(* KidsAreLive of the exec, wait and exit code of process.c and thread.c.    *)
THEOREM KidsAreLiveHolds == Spec => []KidsAreLive
  <1>1. PInv => KidsAreLive
    <2> SUFFICES ASSUME PInv PROVE KidsAreLive
      BY Zenon
    <2>1. ASSUME NEW p \in Page, NEW k \in Members(child_list[p])
          PROVE  /\ Live(k) /\ parent[k] = p /\ tid[k] > 0
                 /\ pc[k] \notin {"load", "notify", "die"}
                 /\ block_child[k] = 0
      <3>1. k \in Page
        BY DEF PInv, TypeOK, Members
      <3>2. Kid(p, k) /\ Hold(p, k)
        BY Zenon DEF Kid, Hold
      <3>3. tid[k] > 0 /\ HeldAt(p, k)
        BY <3>1, <3>2, Zenon DEF PInv, KidsAt
      <3>4. pc[k] \notin {"free", "load", "notify", "die"}
        BY <3>2, <3>3, Zenon DEF HeldAt, Exec1, Wait1, Exit1
      <3>5. QED
        BY <3>1, <3>2, <3>3, <3>4, Zenon DEF PInv, ListInv, HeldAt
    <2>2. ASSUME NEW p \in Page, pc[p] \in {"register", "waiting", "fetch", "release"}
          PROVE  Live(child_thread[p])
      <3>1. child_thread[p] \in Page
        BY <2>2, Zenon DEF PInv, PlaceAt, Exec1, Wait1
      <3>2. HeldAt(p, child_thread[p]) /\ Hold(p, child_thread[p])
        BY <2>2, <3>1, Zenon DEF PInv, Hold, Tied
      <3>3. pc[child_thread[p]] # "free"
        BY <3>2, Zenon DEF HeldAt, Exec1, Wait1, Exit1
      <3>4. QED
        BY <3>1, <3>3, Zenon DEF PInv, ListInv
    <2>3. \A p \in Page : Once(child_list[p])
      BY Zenon DEF PInv, PlaceAt
    <2>4. QED
      BY <2>1, <2>2, <2>3, Zenon DEF KidsAreLive, Once
  <1>2. QED
    BY <1>1, PInvHolds, PTL

(* What process_wait returns is the status with which the child with that    *)
(* tid has ended, for any number of processes and pages used again.          *)
THEOREM StatusDeliveredHolds == Spec => []StatusDelivered
  <1>1. PInv => StatusDelivered
    BY Zenon DEF PInv, RetAt, StatusDelivered
  <1>2. QED
    BY <1>1, PInvHolds, PTL
=============================================================================
