------------------------------- MODULE Palloc -------------------------------
(* The page allocator of threads/palloc.c.  palloc_get_multiple searches the *)
(* pool's bitmap under the pool's lock, bit by bit, and palloc_free_multiple *)
(* resets bits without the lock; a timer interrupt may come between any two  *)
(* of these steps.                                                           *)
EXTENDS Naturals, FiniteSets

CONSTANTS
  Thread, NULL,
  FreePages,        \* pages between 1 MB and the end of RAM
  user_page_limit,
  BitsPerPage,      \* bits of a bitmap that fit in one page
  Calls,            \* what callers ask for: [pool, cnt, zero, assert]
  Byte              \* what callers write

VARIABLES
  used,      \* the bits of both pools that are set, as page numbers
  lock,      \* the holder of each pool's lock
  pc, req,   \* where each thread is, and the call it is in
  held,      \* the runs of pages that each thread has been given, zeroed or not
  content,   \* one byte that stands for all of a page
  panic

vars == <<used, lock, pc, req, held, content, panic>>

min(a, b) == IF a < b THEN a ELSE b

(* init_pool: a pool begins with the pages of its own bitmap. *)
init_pool(base, page_cnt) ==
  base + (page_cnt + BitsPerPage - 1) \div BitsPerPage .. base + page_cnt - 1

user_pages   == min(FreePages \div 2, user_page_limit)
kernel_pages == FreePages - user_pages

(* palloc_init: the pages of the two pools. *)
Pool == [kernel |-> init_pool(0, kernel_pages), user |-> init_pool(kernel_pages, user_pages)]

Page == 0 .. FreePages - 1

base(k) == CHOOSE p \in Pool[k] : \A q \in Pool[k] : p <= q
last(k) == CHOOSE p \in Pool[k] : \A q \in Pool[k] : q <= p

(* What the constants stand for: each pool has pages besides its bitmap, and *)
(* callers ask for pages of one of them.                                     *)
PallocConstants ==
  /\ FreePages \in Nat /\ user_page_limit \in Nat /\ BitsPerPage \in Nat \ {0} /\ NULL \notin Thread
  /\ \A k \in DOMAIN Pool : Pool[k] # {}
  /\ Calls \subseteq [pool : DOMAIN Pool, cnt : Nat, zero : BOOLEAN, assert : BOOLEAN]

NoReq == [pool |-> "kernel", cnt |-> 0, zero |-> FALSE, assert |-> FALSE, first |-> 0, idx |-> 0]

Init ==
  /\ used = {}
  /\ lock = [k \in DOMAIN Pool |-> NULL]
  /\ pc = [t \in Thread |-> "out"]
  /\ req = [t \in Thread |-> NoReq]
  /\ held = [t \in Thread |-> {}]
  /\ content = [p \in Page |-> 0]
  /\ panic = FALSE

Run(t) == req[t].first .. req[t].first + req[t].cnt - 1

Goto(t, where) == pc' = [pc EXCEPT ![t] = where]

palloc_get_multiple(t, call) ==
  /\ pc[t] = "out"
  /\ IF call.cnt = 0
       THEN UNCHANGED <<pc, req>>
       ELSE /\ Goto(t, "lock")
            /\ req' = [req EXCEPT ![t] = [pool |-> call.pool, cnt |-> call.cnt, zero |-> call.zero,
                                          assert |-> call.assert, first |-> base(call.pool), idx |-> 0]]
  /\ UNCHANGED <<used, lock, held, content, panic>>

(* Mutant: the pool's lock is not taken. *)
AcquireNothing(t) == pc[t] = "lock" /\ Goto(t, "scan") /\ UNCHANGED <<used, lock, req, held, content, panic>>

Acquire(t) ==
  /\ pc[t] = "lock" /\ lock[req[t].pool] = NULL
  /\ lock' = [lock EXCEPT ![req[t].pool] = t]
  /\ Goto(t, "scan")
  /\ UNCHANGED <<used, req, held, content, panic>>

(* bitmap_scan tests one bit: the run from first fits up to idx, or the      *)
(* search goes on one page further.                                          *)
Scan(t) ==
  LET r == req[t]
  IN  /\ pc[t] = "scan"
      /\ IF r.cnt > Cardinality(Pool[r.pool]) \/ r.first + r.cnt - 1 > last(r.pool)
           THEN Goto(t, "fail") /\ UNCHANGED req
           ELSE IF r.first + r.idx \in used
                  THEN req' = [req EXCEPT ![t] = [r EXCEPT !.first = r.first + 1, !.idx = 0]] /\ UNCHANGED pc
                  ELSE IF r.idx + 1 < r.cnt
                         THEN req' = [req EXCEPT ![t].idx = @ + 1] /\ UNCHANGED pc
                         ELSE req' = [req EXCEPT ![t].idx = 0] /\ Goto(t, "flip")
      /\ UNCHANGED <<used, lock, held, content, panic>>

(* bitmap_set_multiple sets one bit; with the last one the lock is released. *)
Flip(t) ==
  LET r == req[t]
  IN  /\ pc[t] = "flip"
      /\ used' = used \cup {r.first + r.idx}
      /\ req' = [req EXCEPT ![t].idx = @ + 1]
      /\ IF r.idx + 1 < r.cnt
           THEN UNCHANGED <<pc, lock>>
           ELSE Goto(t, "zero") /\ lock' = [lock EXCEPT ![r.pool] = NULL]
      /\ UNCHANGED <<held, content, panic>>

Zero(t) ==
  /\ pc[t] = "zero"
  /\ content' = IF req[t].zero THEN [p \in Page |-> IF p \in Run(t) THEN 0 ELSE content[p]] ELSE content
  /\ held' = [held EXCEPT ![t] = @ \cup {[pages |-> Run(t), zero |-> req[t].zero]}]
  /\ req' = [req EXCEPT ![t] = NoReq]
  /\ Goto(t, "out")
  /\ UNCHANGED <<used, lock, panic>>

Fail(t) ==
  /\ pc[t] = "fail"
  /\ lock' = [lock EXCEPT ![req[t].pool] = NULL]
  /\ panic' = req[t].assert
  /\ req' = [req EXCEPT ![t] = NoReq]
  /\ Goto(t, "out")
  /\ UNCHANGED <<used, held, content>>

(* The caller writes to a page that it was given. *)
Use(t) ==
  /\ pc[t] = "out"
  /\ \E run \in held[t], b \in Byte : \E p \in run.pages : content' = [content EXCEPT ![p] = b]
  /\ UNCHANGED <<used, lock, pc, req, held, panic>>

page_from_pool(k, p) == p >= base(k) /\ p < base(k) + Cardinality(Pool[k])

palloc_free_multiple(t, run) ==
  /\ pc[t] = "out" /\ run \in held[t]
  /\ LET p == CHOOSE q \in run.pages : \A o \in run.pages : q <= o
         k == IF page_from_pool("kernel", p) THEN "kernel" ELSE "user"
     IN  req' = [req EXCEPT ![t] = [NoReq EXCEPT !.pool = k, !.first = p, !.cnt = Cardinality(run.pages)]]
  /\ held' = [held EXCEPT ![t] = @ \ {run}]
  /\ Goto(t, "poison")
  /\ UNCHANGED <<used, lock, content, panic>>

(* memset to 0xcc, and the assertion that all bits are set. *)
Poison(t) ==
  /\ pc[t] = "poison"
  /\ content' = [p \in Page |-> IF p \in Run(t) THEN 204 ELSE content[p]]
  /\ panic' = ~ (Run(t) \subseteq used)
  /\ Goto(t, "reset")
  /\ UNCHANGED <<used, lock, req, held>>

Reset(t) ==
  LET r == req[t]
  IN  /\ pc[t] = "reset"
      /\ used' = used \ {r.first + r.idx}
      /\ IF r.idx + 1 < r.cnt
           THEN req' = [req EXCEPT ![t].idx = @ + 1] /\ UNCHANGED pc
           ELSE req' = [req EXCEPT ![t] = NoReq] /\ Goto(t, "out")
      /\ UNCHANGED <<lock, held, content, panic>>

Next ==
  /\ ~ panic
  /\ \E t \in Thread :
       \/ \E call \in Calls : palloc_get_multiple(t, call)
       \/ Acquire(t) \/ Scan(t) \/ Flip(t) \/ Zero(t) \/ Fail(t)
       \/ Use(t)
       \/ \E run \in held[t] : palloc_free_multiple(t, run)
       \/ Poison(t) \/ Reset(t)

Spec == Init /\ [][Next]_vars
-----------------------------------------------------------------------------
Abstract == INSTANCE PagePool WITH
  Filling <- {0, 204}, Pools <- {Pool.kernel, Pool.user},
  held <- [t \in Thread |-> UNION {run.pages \X {run.zero} : run \in held[t]}]

(* However the search of one thread and the resets of another fall, a page   *)
(* has one holder, a run lies in one pool, PAL_ZERO pages are zero, and the  *)
(* pages of one caller are not written on behalf of another: not by memset   *)
(* of palloc_get_multiple, nor by the filling with 0xcc of palloc_free.      *)
ImplementsPool == Abstract!Spec
=============================================================================
