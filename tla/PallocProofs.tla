---------------------------- MODULE PallocProofs ----------------------------
(***************************************************************************)
(* Proofs about the page allocator, for pools of any size, any number of   *)
(* threads and any requests: the bits of a run belong to one thread from   *)
(* the moment they are set until each is reset, although bits are reset    *)
(* without the pool's lock; and so palloc.c implements the page pool of    *)
(* module PagePool.                                                        *)
(***************************************************************************)
EXTENDS Palloc, Integers, FiniteSetTheorems, TLAPS

Kind == {"kernel", "user"}
Label == {"out", "lock", "scan", "flip", "zero", "fail", "poison", "reset"}
Request == [pool : Kind, cnt : Nat, zero : BOOLEAN, assert : BOOLEAN, first : Nat, idx : Nat]

(* Neighbours, all of one pool. *)
Pages == {s \in SUBSET Page : \E k \in Kind : \E a, b \in Pool[k] : a <= b /\ s = a .. b}

TypeOK ==
  /\ lock \in [Kind -> Thread \cup {NULL}]
  /\ pc \in [Thread -> Label]
  /\ req \in [Thread -> Request]
  /\ held \in [Thread -> SUBSET [pages : Pages, zero : BOOLEAN]]
  /\ content \in [Page -> Byte \cup {0, 204}]

(* Where the call of thread t is. *)
CallAt(t) ==
  /\ pc[t] # "out" => req[t].cnt > 0
  /\ pc[t] \in {"scan", "flip", "reset"} => req[t].idx < req[t].cnt
  /\ pc[t] \in {"lock", "poison"} => req[t].idx = 0
  /\ pc[t] \in {"lock", "scan"} => req[t].first >= base(req[t].pool)
  /\ pc[t] = "scan" /\ req[t].idx > 0 => Run(t) \subseteq Pool[req[t].pool]
  /\ pc[t] \in {"flip", "zero"} => Run(t) \subseteq Pool[req[t].pool]
  /\ pc[t] \in {"scan", "flip", "fail"} => lock[req[t].pool] = t

(* The pages that thread t has been given. *)
Given(t) == UNION {run.pages : run \in held[t]}

(* Those whose bits it has set, or has still to reset, in its present call. *)
Taken(t) ==
  CASE pc[t] = "flip" -> req[t].first .. req[t].first + req[t].idx - 1
    [] pc[t] \in {"zero", "poison"} -> Run(t)
    [] pc[t] = "reset" -> req[t].first + req[t].idx .. req[t].first + req[t].cnt - 1
    [] OTHER -> {}

(* Those that it has found free, under the lock of the pool. *)
Found(t) ==
  CASE pc[t] = "scan" -> req[t].first .. req[t].first + req[t].idx - 1
    [] pc[t] = "flip" -> req[t].first + req[t].idx .. req[t].first + req[t].cnt - 1
    [] OTHER -> {}

Mine(t) == Given(t) \cup Taken(t)

(* Every page in use belongs to one thread; what was found free still is. *)
OwnInv ==
  /\ \A t \in Thread : Mine(t) \subseteq used /\ Found(t) \cap used = {} /\ Given(t) \cap Taken(t) = {}
  /\ \A t \in Thread : \A r, s \in held[t] : r # s => r.pages \cap s.pages = {}
  /\ \A t, u \in Thread : t # u => Mine(t) \cap Mine(u) = {}

AInv == TypeOK /\ (\A t \in Thread : CallAt(t)) /\ OwnInv
-----------------------------------------------------------------------------
LEMMA DivNat ==
  ASSUME NEW x \in Nat, NEW n \in Nat \ {0}
  PROVE  x \div n \in Nat
  OBVIOUS

(* The extremes of an interval. *)
LEMMA Extremes ==
  ASSUME NEW a \in Int, NEW b \in Int, a <= b
  PROVE  /\ (CHOOSE p \in a .. b : \A q \in a .. b : p <= q) = a
         /\ (CHOOSE p \in a .. b : \A q \in a .. b : q <= p) = b
  <1>1. \A p \in a .. b : (\A q \in a .. b : p <= q) => p = a
    OBVIOUS
  <1>2. \A p \in a .. b : (\A q \in a .. b : q <= p) => p = b
    OBVIOUS
  <1>3. \E p \in a .. b : \A q \in a .. b : p <= q
    OBVIOUS
  <1>4. \E p \in a .. b : \A q \in a .. b : q <= p
    OBVIOUS
  <1>5. (CHOOSE p \in a .. b : \A q \in a .. b : p <= q) = a
    BY <1>1, <1>3, Zenon
  <1>6. (CHOOSE p \in a .. b : \A q \in a .. b : q <= p) = b
    BY <1>2, <1>4, Zenon
  <1>7. QED
    BY <1>5, <1>6, Zenon

(* The pools are disjoint intervals of pages. *)
LEMMA PoolShape ==
  ASSUME PallocConstants
  PROVE  /\ DOMAIN Pool = Kind
         /\ \A k \in Kind : /\ base(k) \in Nat /\ last(k) \in Nat /\ base(k) <= last(k)
                            /\ Pool[k] = base(k) .. last(k) /\ Pool[k] \subseteq Page
         /\ \A k, l \in Kind : k # l => Pool[k] \cap Pool[l] = {}
  <1>1. DOMAIN Pool = Kind
    BY Zenon DEF Pool, Kind
  <1>2. /\ user_pages \in Nat /\ kernel_pages \in Nat /\ user_pages + kernel_pages = FreePages
        /\ BitsPerPage \in Nat \ {0}
    <2>1. FreePages \div 2 \in Nat /\ FreePages \div 2 <= FreePages
      BY DEF PallocConstants
    <2>2. QED
      BY <2>1 DEF PallocConstants, user_pages, kernel_pages, min
  <1> DEFINE Map(n) == (n + BitsPerPage - 1) \div BitsPerPage
  <1>3. Map(kernel_pages) \in Nat /\ Map(user_pages) \in Nat
    <2>1. kernel_pages + BitsPerPage - 1 \in Nat /\ user_pages + BitsPerPage - 1 \in Nat
      BY <1>2
    <2>2. QED
      BY <1>2, <2>1, DivNat, Zenon
  <1>4. /\ Pool["kernel"] = 0 + Map(kernel_pages) .. 0 + kernel_pages - 1
        /\ Pool["user"] = kernel_pages + Map(user_pages) .. kernel_pages + user_pages - 1
    BY Zenon DEF Pool, init_pool
  <1> HIDE DEF Map
  <1>5. Pool["kernel"] # {} /\ Pool["user"] # {}
    BY <1>1, Zenon DEF PallocConstants, Kind
  <1>6. ASSUME NEW k \in Kind, NEW a \in Int, NEW b \in Int, Pool[k] = a .. b, Pool[k] # {}
        PROVE  base(k) = a /\ last(k) = b /\ a <= b
    <2>1. a <= b
      BY <1>6
    <2>2. QED
      BY <1>6, <2>1, Extremes DEF base, last
  <1>7. /\ base("kernel") = Map(kernel_pages) /\ last("kernel") = kernel_pages - 1
        /\ Map(kernel_pages) <= kernel_pages - 1
    <2>1. 0 + Map(kernel_pages) \in Int /\ 0 + kernel_pages - 1 \in Int
      BY <1>2, <1>3
    <2>2. base("kernel") = 0 + Map(kernel_pages) /\ last("kernel") = 0 + kernel_pages - 1
          /\ 0 + Map(kernel_pages) <= 0 + kernel_pages - 1
      BY <1>4, <1>5, <1>6, <2>1, Zenon DEF Kind
    <2>3. QED
      BY <1>2, <1>3, <2>2
  <1>8. /\ base("user") = kernel_pages + Map(user_pages) /\ last("user") = kernel_pages + user_pages - 1
        /\ kernel_pages + Map(user_pages) <= kernel_pages + user_pages - 1
    <2>1. kernel_pages + Map(user_pages) \in Int /\ kernel_pages + user_pages - 1 \in Int
      BY <1>2, <1>3
    <2>2. QED
      BY <1>4, <1>5, <1>6, <2>1, Zenon DEF Kind
  <1>9. QED
    BY <1>1, <1>2, <1>3, <1>4, <1>7, <1>8 DEF Kind, Page
-----------------------------------------------------------------------------
(* What a step of thread t leaves alone: the calls and pages of the others.  *)
OthersKept(t) ==
  \A u \in Thread : u # t => pc'[u] = pc[u] /\ req'[u] = req[u] /\ held'[u] = held[u]

LEMMA OwnKept ==
  ASSUME NEW t, NEW u \in Thread, OthersKept(t), u # t
  PROVE  /\ Given(u)' = Given(u) /\ Taken(u)' = Taken(u) /\ Found(u)' = Found(u)
         /\ Mine(u)' = Mine(u) /\ held'[u] = held[u]
  <1>1. pc'[u] = pc[u] /\ req'[u] = req[u] /\ held'[u] = held[u]
    BY Zenon DEF OthersKept
  <1>2. Given(u)' = Given(u) /\ Taken(u)' = Taken(u) /\ Found(u)' = Found(u)
    BY <1>1, Zenon DEF Given, Taken, Found, Run
  <1>3. QED
    BY <1>1, <1>2, Zenon DEF Mine

(* A step that changes no bit preserves ownership when its thread ends up    *)
(* with pages that were its own.                                             *)
LEMMA OwnMoved ==
  ASSUME OwnInv, NEW t \in Thread, OthersKept(t), used' = used,
         Mine(t)' \subseteq Mine(t), Given(t)' \cap Taken(t)' = {}, Found(t)' \cap used = {},
         \A r, s \in held'[t] : r # s => r.pages \cap s.pages = {}
  PROVE  OwnInv'
  <1>1. \A u \in Thread : u # t =>
          /\ Given(u)' = Given(u) /\ Taken(u)' = Taken(u) /\ Found(u)' = Found(u)
          /\ Mine(u)' = Mine(u) /\ held'[u] = held[u]
    BY OwnKept, Zenon
  <1>2. \A u \in Thread : Mine(u)' \subseteq used' /\ Found(u)' \cap used' = {} /\ Given(u)' \cap Taken(u)' = {}
    BY <1>1, Zenon DEF OwnInv
  <1>3. \A u \in Thread : \A r, s \in held'[u] : r # s => r.pages \cap s.pages = {}
    BY <1>1, Zenon DEF OwnInv
  <1>4. \A u, w \in Thread : u # w => Mine(u)' \cap Mine(w)' = {}
    BY <1>1 DEF OwnInv
  <1>5. QED
    BY <1>2, <1>3, <1>4, Zenon DEF OwnInv

(* bitmap_set sets one bit that the thread, and no other, has found free. *)
LEMMA OwnSet ==
  ASSUME OwnInv, NEW t \in Thread, NEW p, OthersKept(t), used' = used \cup {p},
         p \notin used, held'[t] = held[t], Given(t)' = Given(t), Taken(t)' = Taken(t) \cup {p},
         Found(t)' = Found(t) \ {p}, \A u \in Thread : u # t => p \notin Found(u)
  PROVE  OwnInv'
  <1>1. \A u \in Thread : u # t =>
          /\ Given(u)' = Given(u) /\ Taken(u)' = Taken(u) /\ Found(u)' = Found(u)
          /\ Mine(u)' = Mine(u) /\ held'[u] = held[u]
    BY OwnKept, Zenon
  <1>2. Mine(t)' = Mine(t) \cup {p}
    BY Zenon DEF Mine
  <1>3. \A u \in Thread : p \notin Mine(u) /\ p \notin Given(u)
    BY Zenon DEF OwnInv, Mine
  <1>4. \A u \in Thread : Mine(u)' \subseteq used' /\ Found(u)' \cap used' = {} /\ Given(u)' \cap Taken(u)' = {}
    BY <1>1, <1>2, <1>3 DEF OwnInv
  <1>5. \A u \in Thread : \A r, s \in held'[u] : r # s => r.pages \cap s.pages = {}
    BY <1>1, Zenon DEF OwnInv
  <1>6. \A u, w \in Thread : u # w => Mine(u)' \cap Mine(w)' = {}
    BY <1>1, <1>2, <1>3 DEF OwnInv
  <1>7. QED
    BY <1>4, <1>5, <1>6, Zenon DEF OwnInv

(* bitmap_reset resets one bit of the run that the thread gives back. *)
LEMMA OwnReset ==
  ASSUME OwnInv, NEW t \in Thread, NEW p, OthersKept(t), used' = used \ {p},
         p \in Taken(t), held'[t] = held[t], Given(t)' = Given(t), Taken(t)' = Taken(t) \ {p},
         Found(t)' = {}
  PROVE  OwnInv'
  <1>1. \A u \in Thread : u # t =>
          /\ Given(u)' = Given(u) /\ Taken(u)' = Taken(u) /\ Found(u)' = Found(u)
          /\ Mine(u)' = Mine(u) /\ held'[u] = held[u]
    BY OwnKept, Zenon
  <1>2. Mine(t)' = Mine(t) \ {p} /\ p \in Mine(t)
    BY Zenon DEF Mine, OwnInv
  <1>3. \A u \in Thread : u # t => p \notin Mine(u)
    BY <1>2, Zenon DEF OwnInv
  <1>4. \A u \in Thread : Mine(u)' \subseteq used' /\ Found(u)' \cap used' = {} /\ Given(u)' \cap Taken(u)' = {}
    BY <1>1, <1>2, <1>3 DEF OwnInv
  <1>5. \A u \in Thread : \A r, s \in held'[u] : r # s => r.pages \cap s.pages = {}
    BY <1>1, Zenon DEF OwnInv
  <1>6. \A u, w \in Thread : u # w => Mine(u)' \cap Mine(w)' = {}
    BY <1>1, <1>2, <1>3 DEF OwnInv
  <1>7. QED
    BY <1>4, <1>5, <1>6, Zenon DEF OwnInv

(* The calls of the other threads are where they were, when the step leaves  *)
(* them the locks they hold.                                                 *)
LEMMA CallsKept ==
  ASSUME AInv, NEW t \in Thread, OthersKept(t), NULL \notin Thread,
         \A k \in Kind : lock'[k] = lock[k] \/ lock[k] \in {NULL, t}
  PROVE  \A u \in Thread : u # t => CallAt(u)'
  <1> SUFFICES ASSUME NEW u \in Thread, u # t PROVE CallAt(u)'
    BY Zenon
  <1>1. pc'[u] = pc[u] /\ req'[u] = req[u] /\ u # NULL
    BY Zenon DEF OthersKept
  <1>2. CallAt(u) /\ req[u].pool \in Kind
    BY DEF AInv, TypeOK, Request
  <1>3. QED
    BY <1>1, <1>2, Zenon DEF CallAt, Run

(* Two threads have found no page both. *)
LEMMA FoundApart ==
  ASSUME PallocConstants, AInv, NEW t \in Thread, NEW u \in Thread, t # u
  PROVE  Found(t) \cap Found(u) = {}
  <1>1. ASSUME NEW w \in Thread, Found(w) # {}
        PROVE  Found(w) \subseteq Pool[req[w].pool] /\ req[w].pool \in Kind /\ lock[req[w].pool] = w
    <2>1. CallAt(w) /\ req[w] \in Request
      BY Zenon DEF AInv, TypeOK
    <2>2. pc[w] \in {"scan", "flip"}
      BY <1>1, Zenon DEF Found
    <2>3. CASE pc[w] = "scan"
      <3>1. Found(w) = req[w].first .. req[w].first + req[w].idx - 1
        BY <2>3, Zenon DEF Found
      <3>2. req[w].idx > 0 /\ Found(w) \subseteq Run(w)
        BY <1>1, <2>1, <2>3, <3>1 DEF Request, CallAt, Run
      <3>3. QED
        BY <2>1, <2>3, <3>2, Zenon DEF CallAt, Request
    <2>4. CASE pc[w] = "flip"
      <3>1. Found(w) = req[w].first + req[w].idx .. req[w].first + req[w].cnt - 1
        BY <2>4, Zenon DEF Found
      <3>2. Found(w) \subseteq Run(w)
        BY <2>1, <3>1 DEF Request, Run
      <3>3. QED
        BY <2>1, <2>4, <3>2, Zenon DEF CallAt, Request
    <2>5. QED
      BY <2>2, <2>3, <2>4, Zenon
  <1>2. CASE Found(t) # {} /\ Found(u) # {}
    BY <1>1, <1>2, PoolShape
  <1>3. QED
    BY <1>2, Zenon
-----------------------------------------------------------------------------
LEMMA AInvFacts ==
  ASSUME PallocConstants, AInv, NEW t \in Thread
  PROVE  /\ TypeOK /\ CallAt(t) /\ OwnInv /\ req[t] \in Request /\ NULL \notin Thread
         /\ pc \in [Thread -> Label] /\ req \in [Thread -> Request] /\ lock \in [Kind -> Thread \cup {NULL}]
         /\ held \in [Thread -> SUBSET [pages : Pages, zero : BOOLEAN]]
  <1>1. TypeOK /\ CallAt(t) /\ OwnInv /\ NULL \notin Thread
    BY Zenon DEF AInv, PallocConstants
  <1>2. QED
    BY <1>1, Zenon DEF TypeOK

LEMMA RequestMoves ==
  ASSUME NEW r \in Request
  PROVE  /\ [r EXCEPT !.first = r.first + 1, !.idx = 0] \in Request
         /\ [r EXCEPT !.idx = @ + 1] \in Request /\ [r EXCEPT !.idx = 0] \in Request
         /\ [r EXCEPT !.first = r.first + 1, !.idx = 0].idx = 0
         /\ [r EXCEPT !.idx = @ + 1].idx = r.idx + 1 /\ [r EXCEPT !.idx = 0].idx = 0
         /\ [r EXCEPT !.idx = @ + 1].first = r.first /\ [r EXCEPT !.idx = 0].first = r.first
         /\ [r EXCEPT !.idx = @ + 1].cnt = r.cnt /\ [r EXCEPT !.idx = 0].cnt = r.cnt
  <1>1. /\ r.first \in Nat /\ r.idx \in Nat
    BY Zenon DEF Request
  <1>2. /\ [r EXCEPT !.first = r.first + 1, !.idx = 0] \in Request
        /\ [r EXCEPT !.first = r.first + 1, !.idx = 0].idx = 0
    <2> DEFINE q == [r EXCEPT !.first = r.first + 1]
    <2>a. q \in Request
      BY <1>1 DEF Request
    <2>b. [q EXCEPT !.idx = 0] \in Request
      <3> HIDE DEF q
      <3>1. QED
        BY <2>a, Zenon DEF Request
    <2>c. [r EXCEPT !.first = r.first + 1, !.idx = 0] = [q EXCEPT !.idx = 0]
      BY Zenon
    <2>1. [r EXCEPT !.first = r.first + 1, !.idx = 0] \in Request
      BY <2>b, <2>c, Zenon
    <2>2. [r EXCEPT !.first = r.first + 1, !.idx = 0].idx = 0
      BY <1>1, Zenon DEF Request
    <2>3. QED
      BY <2>1, <2>2, Zenon
  <1>3. /\ [r EXCEPT !.idx = @ + 1] \in Request /\ [r EXCEPT !.idx = @ + 1].idx = r.idx + 1
        /\ [r EXCEPT !.idx = @ + 1].first = r.first /\ [r EXCEPT !.idx = @ + 1].cnt = r.cnt
    BY <1>1 DEF Request
  <1>4. /\ [r EXCEPT !.idx = 0] \in Request /\ [r EXCEPT !.idx = 0].idx = 0
        /\ [r EXCEPT !.idx = 0].first = r.first /\ [r EXCEPT !.idx = 0].cnt = r.cnt
    BY <1>1, Zenon DEF Request
  <1>5. QED
    BY <1>2, <1>3, <1>4, Zenon

(* The request that palloc_free_multiple makes for a run. *)
FreeRequest(k, a, n) == [NoReq EXCEPT !.pool = k, !.first = a, !.cnt = n]

LEMMA FreeRequestType ==
  ASSUME NEW k \in Kind, NEW a \in Nat, NEW n \in Nat
  PROVE  /\ FreeRequest(k, a, n) \in Request /\ FreeRequest(k, a, n).idx = 0
         /\ FreeRequest(k, a, n).cnt = n /\ FreeRequest(k, a, n).first = a
  <1> DEFINE q == [NoReq EXCEPT !.pool = k]
             w == [q EXCEPT !.first = a]
  <1>0. NoReq \in Request /\ NoReq.idx = 0
    BY Zenon DEF NoReq, Request, Kind
  <1>1. q \in Request /\ q.idx = 0
    BY <1>0, Zenon DEF Request
  <1>2. w \in Request /\ w.idx = 0 /\ w.first = a
    <2> HIDE DEF q
    <2>1. QED
      BY <1>1, Zenon DEF Request
  <1>3. [w EXCEPT !.cnt = n] \in Request /\ [w EXCEPT !.cnt = n].idx = 0
        /\ [w EXCEPT !.cnt = n].cnt = n /\ [w EXCEPT !.cnt = n].first = a
    <2> HIDE DEF w
    <2>1. QED
      BY <1>2, Zenon DEF Request
  <1>4. FreeRequest(k, a, n) = [w EXCEPT !.cnt = n]
    BY Zenon DEF FreeRequest
  <1>5. QED
    BY <1>3, <1>4, Zenon

LEMMA IntervalFirst ==
  ASSUME NEW a \in Int, NEW b \in Int, a <= b
  PROVE  a + 1 .. b = (a .. b) \ {a}
  OBVIOUS

LEMMA IntervalLast ==
  ASSUME NEW a \in Int, NEW b \in Int, a <= b
  PROVE  a .. b = (a .. b - 1) \cup {b}
  OBVIOUS

(* What a thread has set the bits of is a run of pages. *)
LEMMA RunPages ==
  ASSUME PallocConstants, AInv, NEW t \in Thread, pc[t] = "zero"
  PROVE  Run(t) \in Pages /\ \E a, b \in Pool[req[t].pool] : a <= b /\ Run(t) = a .. b
  <1>1. /\ req[t].pool \in Kind /\ req[t].first \in Nat /\ req[t].cnt \in Nat \ {0}
        /\ Run(t) \subseteq Pool[req[t].pool]
    BY AInvFacts DEF CallAt, Request
  <1>2. Run(t) = req[t].first .. req[t].first + req[t].cnt - 1
    BY Zenon DEF Run
  <1>3. /\ req[t].first \in Pool[req[t].pool] /\ req[t].first + req[t].cnt - 1 \in Pool[req[t].pool]
        /\ req[t].first <= req[t].first + req[t].cnt - 1
    BY <1>1, <1>2
  <1>4. Run(t) \subseteq Page
    BY <1>1, PoolShape, Zenon
  <1>5. QED
    BY <1>1, <1>2, <1>3, <1>4, Zenon DEF Pages

(* What testing one bit comes to. *)
LEMMA ScanCases ==
  ASSUME PallocConstants, AInv, NEW t \in Thread, Scan(t)
  PROVE  /\ pc[t] = "scan" /\ OthersKept(t) /\ held'[t] = held[t] /\ UNCHANGED <<used, lock, held, content, panic>>
         /\ \/ pc'[t] = "fail" /\ UNCHANGED req
            \/ pc'[t] = "scan" /\ req'[t] = [req[t] EXCEPT !.first = req[t].first + 1, !.idx = 0]
            \/ /\ pc'[t] = "scan" /\ req'[t] = [req[t] EXCEPT !.idx = @ + 1]
               /\ req[t].first + req[t].cnt - 1 <= last(req[t].pool)
               /\ req[t].first + req[t].idx \notin used /\ req[t].idx + 1 < req[t].cnt
            \/ /\ pc'[t] = "flip" /\ req'[t] = [req[t] EXCEPT !.idx = 0]
               /\ req[t].first + req[t].cnt - 1 <= last(req[t].pool)
               /\ req[t].first + req[t].idx \notin used /\ ~ (req[t].idx + 1 < req[t].cnt)
  <1>0. /\ req[t] \in Request /\ pc \in [Thread -> Label] /\ req \in [Thread -> Request]
    BY AInvFacts, Zenon
  <1>e. \A r : req' = [req EXCEPT ![t] = r] => req'[t] = r
    BY <1>0, Zenon
  <1>1. pc[t] = "scan" /\ OthersKept(t) /\ held'[t] = held[t] /\ UNCHANGED <<used, lock, held, content, panic>>
    BY <1>0, Zenon DEF Scan, Goto, OthersKept
  <1> DEFINE r == req[t]
  <1>2. CASE r.cnt > Cardinality(Pool[r.pool]) \/ r.first + r.cnt - 1 > last(r.pool)
    <2>1. pc' = [pc EXCEPT ![t] = "fail"] /\ UNCHANGED req
      BY <1>2, Zenon DEF Scan, Goto
    <2>2. QED
      BY <1>0, <1>1, <2>1, Zenon
  <1>3. CASE /\ ~ (r.cnt > Cardinality(Pool[r.pool]) \/ r.first + r.cnt - 1 > last(r.pool))
             /\ r.first + r.idx \in used
    <2>1. req' = [req EXCEPT ![t] = [req[t] EXCEPT !.first = req[t].first + 1, !.idx = 0]] /\ pc' = pc
      BY <1>3, Zenon DEF Scan
    <2>2. QED
      BY <1>0, <1>1, <2>1, <1>e, Zenon
  <1>4. CASE /\ ~ (r.cnt > Cardinality(Pool[r.pool]) \/ r.first + r.cnt - 1 > last(r.pool))
             /\ r.first + r.idx \notin used /\ r.idx + 1 < r.cnt
    <2>1. req' = [req EXCEPT ![t].idx = @ + 1] /\ pc' = pc
      BY <1>4, Zenon DEF Scan
    <2>2. req'[t] = [req[t] EXCEPT !.idx = @ + 1]
      BY <1>0, <1>1, <2>1, Zenon
    <2>3. r.first + r.cnt - 1 <= last(r.pool)
      BY <1>0, <1>4, PoolShape DEF Request
    <2>4. QED
      BY <1>1, <1>4, <2>1, <2>2, <2>3, Zenon
  <1>5. CASE /\ ~ (r.cnt > Cardinality(Pool[r.pool]) \/ r.first + r.cnt - 1 > last(r.pool))
             /\ r.first + r.idx \notin used /\ ~ (r.idx + 1 < r.cnt)
    <2>1. req' = [req EXCEPT ![t].idx = 0] /\ pc' = [pc EXCEPT ![t] = "flip"]
      BY <1>5, Zenon DEF Scan, Goto
    <2>2. req'[t] = [req[t] EXCEPT !.idx = 0] /\ pc'[t] = "flip"
      BY <1>0, <1>1, <2>1, Zenon
    <2>3. r.first + r.cnt - 1 <= last(r.pool)
      BY <1>0, <1>5, PoolShape DEF Request
    <2>4. QED
      BY <1>1, <1>5, <2>2, <2>3, Zenon
  <1>6. QED
    BY <1>2, <1>3, <1>4, <1>5, Zenon

LEMMA StutterInv ==
  ASSUME AInv, UNCHANGED vars
  PROVE  AInv'
  <1>1. TypeOK'
    BY Zenon DEF vars, AInv, TypeOK
  <1>2. \A t \in Thread : CallAt(t)'
    BY Zenon DEF vars, AInv, CallAt, Run
  <1>3. OwnInv'
    BY DEF vars, AInv, OwnInv, Mine, Given, Taken, Found, Run
  <1>4. QED
    BY <1>1, <1>2, <1>3, Zenon DEF AInv

LEMMA GetInv ==
  ASSUME PallocConstants, AInv, NEW t \in Thread, NEW call \in Calls, palloc_get_multiple(t, call), call.cnt # 0
  PROVE  AInv'
  <1>0. /\ TypeOK /\ CallAt(t) /\ OwnInv /\ req[t] \in Request /\ NULL \notin Thread
        /\ pc \in [Thread -> Label] /\ req \in [Thread -> Request] /\ lock \in [Kind -> Thread \cup {NULL}]
        /\ held \in [Thread -> SUBSET [pages : Pages, zero : BOOLEAN]]
    BY AInvFacts, Zenon
  <1>r. /\ call.pool \in Kind /\ call.cnt \in Nat \ {0} /\ base(call.pool) \in Nat
        /\ [pool |-> call.pool, cnt |-> call.cnt, zero |-> call.zero,
            assert |-> call.assert, first |-> base(call.pool), idx |-> 0] \in Request
    <2>1. call \in [pool : Kind, cnt : Nat, zero : BOOLEAN, assert : BOOLEAN]
      BY PoolShape, Zenon DEF PallocConstants
    <2>2. base(call.pool) \in Nat
      BY <2>1, PoolShape, Zenon
    <2>3. QED
      BY <2>1, <2>2, Zenon DEF Request
  <1>1. /\ pc[t] = "out" /\ pc'[t] = "lock" /\ OthersKept(t) /\ held'[t] = held[t]
        /\ req'[t] = [pool |-> call.pool, cnt |-> call.cnt, zero |-> call.zero,
                      assert |-> call.assert, first |-> base(call.pool), idx |-> 0]
        /\ UNCHANGED <<used, lock, held, content, panic>>
    BY <1>0, Zenon DEF palloc_get_multiple, Goto, OthersKept
  <1>2. TypeOK'
    <2>1. pc' \in [Thread -> Label]
      BY <1>0, Zenon DEF palloc_get_multiple, Goto, Label
    <2>2. req' \in [Thread -> Request]
      BY <1>0, <1>r, Zenon DEF palloc_get_multiple
    <2>3. QED
      BY <1>0, <1>1, <2>1, <2>2, Zenon DEF TypeOK
  <1>3. CallAt(t)'
    BY <1>1, <1>r DEF CallAt, Request
  <1>4. \A u \in Thread : u # t => CallAt(u)'
    BY <1>0, <1>1, CallsKept, Zenon
  <1>5. OwnInv'
    <2>1. Given(t)' = Given(t)
      BY <1>1, Zenon DEF Given
    <2>2. Taken(t) = {} /\ Taken(t)' = {}
      BY <1>0, <1>1, Zenon DEF Taken
    <2>3. Found(t)' \cap used = {}
      BY <1>1, Zenon DEF Found
    <2>4. Mine(t)' \subseteq Mine(t) /\ Given(t)' \cap Taken(t)' = {}
      BY <2>1, <2>2, Zenon DEF Mine
    <2>5. QED
      BY <1>0, <1>1, <2>3, <2>4, OwnMoved, Zenon DEF OwnInv
  <1>6. QED
    BY <1>2, <1>3, <1>4, <1>5, Zenon DEF AInv

LEMMA AcquireInv ==
  ASSUME PallocConstants, AInv, NEW t \in Thread, Acquire(t)
  PROVE  AInv'
  <1>0. /\ TypeOK /\ CallAt(t) /\ OwnInv /\ req[t] \in Request /\ NULL \notin Thread
        /\ pc \in [Thread -> Label] /\ req \in [Thread -> Request] /\ lock \in [Kind -> Thread \cup {NULL}]
        /\ held \in [Thread -> SUBSET [pages : Pages, zero : BOOLEAN]]
    BY AInvFacts, Zenon
  <1>1. /\ pc[t] = "lock" /\ pc'[t] = "scan" /\ OthersKept(t) /\ req'[t] = req[t] /\ held'[t] = held[t]
        /\ lock[req[t].pool] = NULL /\ lock'[req[t].pool] = t
        /\ \A k \in Kind : lock'[k] = lock[k] \/ lock[k] \in {NULL, t}
        /\ UNCHANGED <<used, req, held, content, panic>>
    BY <1>0, Zenon DEF Acquire, Goto, OthersKept, Request
  <1>2. TypeOK'
    <2>1. pc' \in [Thread -> Label]
      BY <1>0, Zenon DEF Acquire, Goto, Label
    <2>2. lock' \in [Kind -> Thread \cup {NULL}]
      BY <1>0, Zenon DEF Acquire, Request
    <2>3. QED
      BY <1>0, <1>1, <2>1, <2>2, Zenon DEF TypeOK
  <1>3. CallAt(t)'
    BY <1>0, <1>1 DEF CallAt, Run, Request
  <1>4. \A u \in Thread : u # t => CallAt(u)'
    BY <1>0, <1>1, CallsKept, Zenon
  <1>5. OwnInv'
    <2>1. Given(t)' = Given(t)
      BY <1>1, Zenon DEF Given
    <2>2. Taken(t) = {} /\ Taken(t)' = {}
      BY <1>0, <1>1, Zenon DEF Taken
    <2>3. Found(t)' \cap used = {}
      BY <1>0, <1>1 DEF Found, CallAt, Request
    <2>4. Mine(t)' \subseteq Mine(t) /\ Given(t)' \cap Taken(t)' = {}
      BY <2>1, <2>2, Zenon DEF Mine
    <2>5. QED
      BY <1>0, <1>1, <2>3, <2>4, OwnMoved, Zenon DEF OwnInv
  <1>6. QED
    BY <1>2, <1>3, <1>4, <1>5, Zenon DEF AInv

(* bitmap_scan has come to the end of the pool. *)
LEMMA ScanFailInv ==
  ASSUME PallocConstants, AInv, NEW t \in Thread, Scan(t), pc'[t] = "fail"
  PROVE  AInv'
  <1>0. /\ TypeOK /\ CallAt(t) /\ OwnInv /\ req[t] \in Request /\ NULL \notin Thread
        /\ pc \in [Thread -> Label] /\ req \in [Thread -> Request] /\ lock \in [Kind -> Thread \cup {NULL}]
        /\ held \in [Thread -> SUBSET [pages : Pages, zero : BOOLEAN]]
    BY AInvFacts, Zenon
  <1>1. /\ pc[t] = "scan" /\ pc'[t] = "fail" /\ OthersKept(t) /\ req'[t] = req[t] /\ held'[t] = held[t]
        /\ UNCHANGED <<used, lock, req, held, content, panic>>
    BY ScanCases, Zenon
  <1>2. TypeOK'
    <2>1. pc' \in [Thread -> Label]
      BY <1>0, Zenon DEF Scan, Goto, Label
    <2>2. QED
      BY <1>0, <1>1, <2>1, Zenon DEF TypeOK
  <1>3. CallAt(t)'
    BY <1>0, <1>1, Zenon DEF CallAt, Run, Request
  <1>4. \A u \in Thread : u # t => CallAt(u)'
    BY <1>0, <1>1, CallsKept, Zenon
  <1>5. OwnInv'
    <2>1. Given(t)' = Given(t)
      BY <1>1, Zenon DEF Given
    <2>2. Taken(t) = {} /\ Taken(t)' = {}
      BY <1>0, <1>1, Zenon DEF Taken
    <2>3. Found(t)' \cap used = {}
      BY <1>1, Zenon DEF Found
    <2>4. Mine(t)' \subseteq Mine(t) /\ Given(t)' \cap Taken(t)' = {}
      BY <2>1, <2>2, Zenon DEF Mine
    <2>5. QED
      BY <1>0, <1>1, <2>3, <2>4, OwnMoved, Zenon DEF OwnInv
  <1>6. QED
    BY <1>2, <1>3, <1>4, <1>5, Zenon DEF AInv

(* One bit is tested, and the search goes on. *)
LEMMA ScanOnInv ==
  ASSUME PallocConstants, AInv, NEW t \in Thread, Scan(t), pc'[t] = "scan"
  PROVE  AInv'
  <1>0. /\ TypeOK /\ CallAt(t) /\ OwnInv /\ req[t] \in Request /\ NULL \notin Thread
        /\ pc \in [Thread -> Label] /\ req \in [Thread -> Request] /\ lock \in [Kind -> Thread \cup {NULL}]
        /\ held \in [Thread -> SUBSET [pages : Pages, zero : BOOLEAN]]
    BY AInvFacts, Zenon
  <1>r. /\ [req[t] EXCEPT !.first = req[t].first + 1, !.idx = 0] \in Request
        /\ [req[t] EXCEPT !.idx = @ + 1] \in Request /\ [req[t] EXCEPT !.idx = 0] \in Request
    BY <1>0, RequestMoves, Zenon
  <1>1. /\ pc[t] = "scan" /\ pc'[t] = "scan" /\ OthersKept(t) /\ held'[t] = held[t]
        /\ \/ /\ req'[t] = [req[t] EXCEPT !.first = req[t].first + 1, !.idx = 0]
           \/ /\ req'[t] = [req[t] EXCEPT !.idx = @ + 1]
              /\ req[t].first + req[t].cnt - 1 <= last(req[t].pool)
              /\ req[t].first + req[t].idx \notin used /\ req[t].idx + 1 < req[t].cnt
        /\ UNCHANGED <<used, lock, held, content, panic>>
    BY ScanCases, Zenon
  <1>f. req'[t] \in Request /\ req'[t].first \in Nat
    <2>1. req'[t] \in Request
      BY <1>1, <1>r, Zenon
    <2>2. QED
      BY <2>1, Zenon DEF Request
  <1>2. TypeOK'
    <2>1. pc' \in [Thread -> Label]
      BY <1>0, Zenon DEF Scan, Goto, Label
    <2>2. req' \in [Thread -> Request]
      BY <1>0, <1>r, Zenon DEF Scan
    <2>3. QED
      BY <1>0, <1>1, <2>1, <2>2, Zenon DEF TypeOK
  <1>3. CallAt(t)'
    <2>1. base(req[t].pool) \in Nat /\ last(req[t].pool) \in Nat
          /\ Pool[req[t].pool] = base(req[t].pool) .. last(req[t].pool)
      BY <1>0, PoolShape, Zenon DEF Request
    <2>2. CASE req'[t] = [req[t] EXCEPT !.first = req[t].first + 1, !.idx = 0]
      BY <1>0, <1>1, <2>1, <2>2 DEF CallAt, Request
    <2>3. CASE /\ req'[t] = [req[t] EXCEPT !.idx = @ + 1]
               /\ req[t].first + req[t].cnt - 1 <= last(req[t].pool) /\ req[t].idx + 1 < req[t].cnt
      BY <1>0, <1>1, <2>1, <2>3 DEF CallAt, Request, Run
    <2>4. QED
      BY <1>1, <2>2, <2>3, Zenon
  <1>4. \A u \in Thread : u # t => CallAt(u)'
    BY <1>0, <1>1, CallsKept, Zenon
  <1>5. OwnInv'
    <2>1. Given(t)' = Given(t)
      BY <1>1, Zenon DEF Given
    <2>2. Taken(t) = {} /\ Taken(t)' = {}
      BY <1>0, <1>1, Zenon DEF Taken
    <2>3. Found(t)' \cap used = {}
      <3>1. Found(t)' = req'[t].first .. req'[t].first + req'[t].idx - 1
        BY <1>1, Zenon DEF Found
      <3>2. Found(t)' = {} \/ Found(t)' = Found(t) \cup {req[t].first + req[t].idx}
        <4>1. CASE req'[t].idx = 0
          BY <3>1, <4>1, <1>f
        <4>2. CASE req'[t] = [req[t] EXCEPT !.idx = @ + 1]
          <5> DEFINE e == req[t].first + req[t].idx
          <5>1. req'[t].first = req[t].first /\ req'[t].idx = req[t].idx + 1 /\ req[t].first \in Nat /\ req[t].idx \in Nat
            BY <1>0, <4>2, Zenon DEF Request
          <5>2. Found(t)' = req[t].first .. e
            BY <3>1, <5>1
          <5>3. Found(t) = req[t].first .. e - 1
            BY <1>1, <5>1 DEF Found
          <5>4. req[t].first \in Int /\ e \in Int /\ req[t].first <= e
            BY <5>1
          <5>5. Found(t)' = Found(t) \cup {e}
            <6> HIDE DEF e
            <6>1. QED
              BY <5>2, <5>3, <5>4, IntervalLast, Zenon
          <5>6. QED
            BY <5>5, Zenon
        <4>3. QED
          BY <1>0, <1>1, <4>1, <4>2, RequestMoves, Zenon
      <3>3. CASE req'[t].idx = 0
        BY <3>1, <3>3, <1>f
      <3>4. QED
        BY <1>0, <1>1, <3>2, <3>3, RequestMoves, Zenon DEF OwnInv
    <2>4. Mine(t)' \subseteq Mine(t) /\ Given(t)' \cap Taken(t)' = {}
      BY <2>1, <2>2, Zenon DEF Mine
    <2>5. QED
      BY <1>0, <1>1, <2>3, <2>4, OwnMoved, Zenon DEF OwnInv
  <1>6. QED
    BY <1>2, <1>3, <1>4, <1>5, Zenon DEF AInv

(* The last bit of a run has been tested. *)
LEMMA ScanFoundInv ==
  ASSUME PallocConstants, AInv, NEW t \in Thread, Scan(t), pc'[t] = "flip"
  PROVE  AInv'
  <1>0. /\ TypeOK /\ CallAt(t) /\ OwnInv /\ req[t] \in Request /\ NULL \notin Thread
        /\ pc \in [Thread -> Label] /\ req \in [Thread -> Request] /\ lock \in [Kind -> Thread \cup {NULL}]
        /\ held \in [Thread -> SUBSET [pages : Pages, zero : BOOLEAN]]
    BY AInvFacts, Zenon
  <1>r. /\ [req[t] EXCEPT !.first = req[t].first + 1, !.idx = 0] \in Request
        /\ [req[t] EXCEPT !.idx = @ + 1] \in Request /\ [req[t] EXCEPT !.idx = 0] \in Request
    BY <1>0, RequestMoves, Zenon
  <1>1. /\ pc[t] = "scan" /\ pc'[t] = "flip" /\ OthersKept(t) /\ held'[t] = held[t]
        /\ req'[t] = [req[t] EXCEPT !.idx = 0]
        /\ req[t].first + req[t].cnt - 1 <= last(req[t].pool)
        /\ req[t].first + req[t].idx \notin used /\ ~ (req[t].idx + 1 < req[t].cnt)
        /\ UNCHANGED <<used, lock, held, content, panic>>
    BY ScanCases, Zenon
  <1>2. TypeOK'
    <2>1. pc' \in [Thread -> Label]
      BY <1>0, Zenon DEF Scan, Goto, Label
    <2>2. req' \in [Thread -> Request]
      BY <1>0, <1>r, Zenon DEF Scan
    <2>3. QED
      BY <1>0, <1>1, <2>1, <2>2, Zenon DEF TypeOK
  <1>3. CallAt(t)'
    <2>1. base(req[t].pool) \in Nat /\ last(req[t].pool) \in Nat
          /\ Pool[req[t].pool] = base(req[t].pool) .. last(req[t].pool)
      BY <1>0, PoolShape, Zenon DEF Request
    <2>2. QED
      BY <1>0, <1>1, <2>1 DEF CallAt, Request, Run
  <1>4. \A u \in Thread : u # t => CallAt(u)'
    BY <1>0, <1>1, CallsKept, Zenon
  <1>5. OwnInv'
    <2>1. Given(t)' = Given(t)
      BY <1>1, Zenon DEF Given
    <2>2. Taken(t) = {} /\ Taken(t)' = {}
      BY <1>0, <1>1 DEF Taken, Request
    <2>3. Found(t)' \cap used = {}
      <3>1. Found(t)' = req[t].first .. req[t].first + req[t].cnt - 1
        BY <1>0, <1>1 DEF Found, Request
      <3>2. Found(t) = req[t].first .. req[t].first + req[t].idx - 1
        BY <1>1, Zenon DEF Found
      <3>3. Found(t)' = Found(t) \cup {req[t].first + req[t].idx}
        <4> DEFINE e == req[t].first + req[t].idx
        <4>1. /\ e = req[t].first + req[t].cnt - 1
              /\ req[t].first \in Int /\ e \in Int /\ req[t].first <= e
          BY <1>0, <1>1 DEF CallAt, Request
        <4>2. Found(t)' = req[t].first .. e /\ Found(t) = req[t].first .. e - 1
          <5>1. Found(t)' = req[t].first .. e
            BY <3>1, <4>1, Zenon
          <5>2. Found(t) = req[t].first .. e - 1
            BY <1>0, <3>2 DEF Request
          <5>3. QED
            BY <5>1, <5>2, Zenon
        <4>3. Found(t)' = Found(t) \cup {e}
          <5> HIDE DEF e
          <5>1. QED
            BY <4>1, <4>2, IntervalLast, Zenon
        <4>4. QED
          BY <4>3, Zenon
      <3>4. QED
        BY <1>0, <1>1, <3>3, Zenon DEF OwnInv
    <2>4. Mine(t)' \subseteq Mine(t) /\ Given(t)' \cap Taken(t)' = {}
      BY <2>1, <2>2, Zenon DEF Mine
    <2>5. QED
      BY <1>0, <1>1, <2>3, <2>4, OwnMoved, Zenon DEF OwnInv
  <1>6. QED
    BY <1>2, <1>3, <1>4, <1>5, Zenon DEF AInv

LEMMA FlipInv ==
  ASSUME PallocConstants, AInv, NEW t \in Thread, Flip(t)
  PROVE  AInv'
  <1>0. /\ TypeOK /\ CallAt(t) /\ OwnInv /\ req[t] \in Request /\ NULL \notin Thread
        /\ pc \in [Thread -> Label] /\ req \in [Thread -> Request] /\ lock \in [Kind -> Thread \cup {NULL}]
        /\ held \in [Thread -> SUBSET [pages : Pages, zero : BOOLEAN]]
    BY AInvFacts, Zenon
  <1>r. [req[t] EXCEPT !.idx = @ + 1] \in Request
    BY <1>0, RequestMoves, Zenon
  <1>1. /\ pc[t] = "flip" /\ OthersKept(t) /\ held'[t] = held[t]
        /\ used' = used \cup {req[t].first + req[t].idx}
        /\ req'[t] = [req[t] EXCEPT !.idx = @ + 1]
        /\ \/ req[t].idx + 1 < req[t].cnt /\ pc'[t] = "flip" /\ lock' = lock
           \/ ~ (req[t].idx + 1 < req[t].cnt) /\ pc'[t] = "zero"
        /\ \A k \in Kind : lock'[k] = lock[k] \/ lock[k] \in {NULL, t}
        /\ UNCHANGED <<held, content, panic>>
    BY <1>0, Zenon DEF Flip, Goto, OthersKept, CallAt, Request
  <1>2. TypeOK'
    <2>1. pc' \in [Thread -> Label]
      BY <1>0, Zenon DEF Flip, Goto, Label
    <2>2. req' \in [Thread -> Request]
      BY <1>0, <1>r, Zenon DEF Flip
    <2>3. lock' \in [Kind -> Thread \cup {NULL}]
      BY <1>0, Zenon DEF Flip, Request
    <2>4. QED
      BY <1>0, <1>1, <2>1, <2>2, <2>3, Zenon DEF TypeOK
  <1>3. CallAt(t)'
    BY <1>0, <1>1, Zenon DEF CallAt, Request, Run
  <1>4. \A u \in Thread : u # t => CallAt(u)'
    BY <1>0, <1>1, CallsKept, Zenon
  <1>5. OwnInv'
    <2> DEFINE p == req[t].first + req[t].idx
    <2>1. Given(t)' = Given(t)
      BY <1>1, Zenon DEF Given
    <2>2. Found(t) = p .. req[t].first + req[t].cnt - 1
      BY <1>1, Zenon DEF Found
    <2>3. Taken(t) = req[t].first .. p - 1
      BY <1>0, <1>1 DEF Taken, Request
    <2>4. p \in Found(t)
      BY <1>0, <1>1, <2>2 DEF CallAt, Request
    <2>5. Taken(t)' = Taken(t) \cup {p}
      <3>1. Taken(t)' = req[t].first .. p
        BY <1>0, <1>1 DEF Taken, Run, CallAt, Request
      <3>2. QED
        <4>1. req[t].first \in Int /\ p \in Int /\ req[t].first <= p
          BY <1>0 DEF Request
        <4> HIDE DEF p
        <4>2. QED
          BY <2>3, <3>1, <4>1, IntervalLast, Zenon
    <2>6. Found(t)' = Found(t) \ {p}
      <3>1. Found(t)' = p + 1 .. req[t].first + req[t].cnt - 1
        BY <1>0, <1>1 DEF Found, CallAt, Request
      <3>2. QED
        <4>1. /\ req[t].first + req[t].cnt - 1 \in Int /\ p \in Int
              /\ p <= req[t].first + req[t].cnt - 1
          BY <1>0, <1>1 DEF CallAt, Request
        <4> HIDE DEF p
        <4>2. QED
          BY <2>2, <3>1, <4>1, IntervalFirst, Zenon
    <2>7. p \notin used
      BY <1>0, <2>4, Zenon DEF OwnInv
    <2>8. \A u \in Thread : u # t => p \notin Found(u)
      BY <2>4, FoundApart, Zenon
    <2> HIDE DEF p
    <2>9. QED
      BY <1>0, <1>1, <2>1, <2>5, <2>6, <2>7, <2>8, OwnSet, Zenon DEF p
  <1>6. QED
    BY <1>2, <1>3, <1>4, <1>5, Zenon DEF AInv

LEMMA ZeroInv ==
  ASSUME PallocConstants, AInv, NEW t \in Thread, Zero(t)
  PROVE  AInv'
  <1>0. /\ TypeOK /\ CallAt(t) /\ OwnInv /\ req[t] \in Request /\ NULL \notin Thread
        /\ pc \in [Thread -> Label] /\ req \in [Thread -> Request] /\ lock \in [Kind -> Thread \cup {NULL}]
        /\ held \in [Thread -> SUBSET [pages : Pages, zero : BOOLEAN]]
    BY AInvFacts, Zenon
  <1>r. NoReq \in Request
    BY Zenon DEF NoReq, Request, Kind
  <1>p. [pages |-> Run(t), zero |-> req[t].zero] \in [pages : Pages, zero : BOOLEAN]
    BY <1>0, RunPages, Zenon DEF Zero, Request
  <1>1. /\ pc[t] = "zero" /\ pc'[t] = "out" /\ OthersKept(t) /\ req'[t] = NoReq
        /\ held'[t] = held[t] \cup {[pages |-> Run(t), zero |-> req[t].zero]}
        /\ UNCHANGED <<used, lock, panic>>
    BY <1>0, Zenon DEF Zero, Goto, OthersKept
  <1>2. TypeOK'
    <2>1. pc' \in [Thread -> Label]
      BY <1>0, Zenon DEF Zero, Goto, Label
    <2>2. req' \in [Thread -> Request]
      BY <1>0, <1>r, Zenon DEF Zero
    <2>3. held' \in [Thread -> SUBSET [pages : Pages, zero : BOOLEAN]]
      BY <1>0, <1>p, Zenon DEF Zero
    <2>4. content' \in [Page -> Byte \cup {0, 204}]
      BY <1>0, Zenon DEF Zero, TypeOK
    <2>5. QED
      BY <1>0, <1>1, <2>1, <2>2, <2>3, <2>4, Zenon DEF TypeOK
  <1>3. CallAt(t)'
    BY <1>1, Zenon DEF CallAt
  <1>4. \A u \in Thread : u # t => CallAt(u)'
    BY <1>0, <1>1, CallsKept, Zenon
  <1>5. OwnInv'
    <2>1. Given(t)' = Given(t) \cup Run(t)
      <3> DEFINE n == [pages |-> Run(t), zero |-> req[t].zero]
      <3>1. n.pages = Run(t)
        BY Zenon
      <3>2. held'[t] = held[t] \cup {n}
        BY <1>1, Zenon
      <3> HIDE DEF n
      <3>3. QED
        BY <3>1, <3>2, Zenon DEF Given
    <2>2. Taken(t) = Run(t) /\ Taken(t)' = {} /\ Found(t)' = {}
      BY <1>1, Zenon DEF Taken, Found
    <2>3. Mine(t)' \subseteq Mine(t) /\ Given(t)' \cap Taken(t)' = {}
      BY <2>1, <2>2, Zenon DEF Mine
    <2>4. \A r \in held[t] : r.pages \cap Run(t) = {}
      BY <1>0, <2>2 DEF OwnInv, Given
    <2>5. \A r, s \in held'[t] : r # s => r.pages \cap s.pages = {}
      BY <1>0, <1>1, <2>4 DEF OwnInv
    <2>6. QED
      BY <1>0, <1>1, <2>2, <2>3, <2>5, OwnMoved, Zenon
  <1>6. QED
    BY <1>2, <1>3, <1>4, <1>5, Zenon DEF AInv

LEMMA FailInv ==
  ASSUME PallocConstants, AInv, NEW t \in Thread, Fail(t)
  PROVE  AInv'
  <1>0. /\ TypeOK /\ CallAt(t) /\ OwnInv /\ req[t] \in Request /\ NULL \notin Thread
        /\ pc \in [Thread -> Label] /\ req \in [Thread -> Request] /\ lock \in [Kind -> Thread \cup {NULL}]
        /\ held \in [Thread -> SUBSET [pages : Pages, zero : BOOLEAN]]
    BY AInvFacts, Zenon
  <1>r. NoReq \in Request
    BY Zenon DEF NoReq, Request, Kind
  <1>1. /\ pc[t] = "fail" /\ pc'[t] = "out" /\ OthersKept(t) /\ req'[t] = NoReq /\ held'[t] = held[t]
        /\ \A k \in Kind : lock'[k] = lock[k] \/ lock[k] \in {NULL, t}
        /\ UNCHANGED <<used, held, content>>
    BY <1>0, Zenon DEF Fail, Goto, OthersKept, CallAt, Request
  <1>2. TypeOK'
    <2>1. pc' \in [Thread -> Label]
      BY <1>0, Zenon DEF Fail, Goto, Label
    <2>2. req' \in [Thread -> Request]
      BY <1>0, <1>r, Zenon DEF Fail
    <2>3. lock' \in [Kind -> Thread \cup {NULL}]
      BY <1>0, Zenon DEF Fail, Request
    <2>4. QED
      BY <1>0, <1>1, <2>1, <2>2, <2>3, Zenon DEF TypeOK
  <1>3. CallAt(t)'
    BY <1>1, Zenon DEF CallAt
  <1>4. \A u \in Thread : u # t => CallAt(u)'
    BY <1>0, <1>1, CallsKept, Zenon
  <1>5. OwnInv'
    <2>1. Given(t)' = Given(t)
      BY <1>1, Zenon DEF Given
    <2>2. Taken(t) = {} /\ Taken(t)' = {}
      BY <1>0, <1>1, Zenon DEF Taken
    <2>3. Found(t)' \cap used = {}
      BY <1>1, Zenon DEF Found
    <2>4. Mine(t)' \subseteq Mine(t) /\ Given(t)' \cap Taken(t)' = {}
      BY <2>1, <2>2, Zenon DEF Mine
    <2>5. QED
      BY <1>0, <1>1, <2>3, <2>4, OwnMoved, Zenon DEF OwnInv
  <1>6. QED
    BY <1>2, <1>3, <1>4, <1>5, Zenon DEF AInv

LEMMA UseInv ==
  ASSUME PallocConstants, AInv, NEW t \in Thread, Use(t)
  PROVE  AInv'
  <1>0. /\ TypeOK /\ CallAt(t) /\ OwnInv /\ req[t] \in Request /\ NULL \notin Thread
        /\ pc \in [Thread -> Label] /\ req \in [Thread -> Request] /\ lock \in [Kind -> Thread \cup {NULL}]
        /\ held \in [Thread -> SUBSET [pages : Pages, zero : BOOLEAN]]
    BY AInvFacts, Zenon
  <1>1. /\ pc[t] = "out" /\ pc' = pc /\ req' = req /\ held' = held /\ OthersKept(t)
        /\ UNCHANGED <<used, lock, panic>>
    BY Zenon DEF Use, OthersKept
  <1>2. TypeOK'
    <2>1. content' \in [Page -> Byte \cup {0, 204}]
      <3>1. PICK run \in held[t], b \in Byte : \E p \in run.pages : content' = [content EXCEPT ![p] = b]
        BY Zenon DEF Use
      <3>2. content \in [Page -> Byte \cup {0, 204}]
        BY <1>0, Zenon DEF TypeOK
      <3>3. PICK p \in run.pages : content' = [content EXCEPT ![p] = b]
        BY <3>1, Zenon
      <3>4. QED
        BY <3>2, <3>3, Zenon
    <2>2. QED
      BY <1>0, <1>1, <2>1, Zenon DEF TypeOK
  <1>3. CallAt(t)'
    BY <1>0, <1>1, Zenon DEF CallAt, Run
  <1>4. \A u \in Thread : u # t => CallAt(u)'
    BY <1>0, <1>1, CallsKept, Zenon
  <1>5. OwnInv'
    <2>1. Given(t)' = Given(t)
      BY <1>1, Zenon DEF Given
    <2>2. Taken(t) = {} /\ Taken(t)' = {}
      BY <1>0, <1>1, Zenon DEF Taken
    <2>3. Found(t)' \cap used = {}
      BY <1>1, Zenon DEF Found
    <2>4. Mine(t)' \subseteq Mine(t) /\ Given(t)' \cap Taken(t)' = {}
      BY <2>1, <2>2, Zenon DEF Mine
    <2>5. QED
      BY <1>0, <1>1, <2>3, <2>4, OwnMoved, Zenon DEF OwnInv
  <1>6. QED
    BY <1>2, <1>3, <1>4, <1>5, Zenon DEF AInv

LEMMA FreeInv ==
  ASSUME PallocConstants, AInv, NEW t \in Thread, NEW run \in held[t], palloc_free_multiple(t, run)
  PROVE  AInv'
  <1>0. /\ TypeOK /\ CallAt(t) /\ OwnInv /\ req[t] \in Request /\ NULL \notin Thread
        /\ pc \in [Thread -> Label] /\ req \in [Thread -> Request] /\ lock \in [Kind -> Thread \cup {NULL}]
        /\ held \in [Thread -> SUBSET [pages : Pages, zero : BOOLEAN]]
    BY AInvFacts, Zenon
  <1>1. /\ pc[t] = "out" /\ pc'[t] = "poison" /\ OthersKept(t) /\ run \in held[t] /\ held'[t] = held[t] \ {run}
        /\ req'[t] \in Request /\ req'[t].idx = 0 /\ req'[t].cnt > 0 /\ Run(t)' = run.pages
        /\ req' \in [Thread -> Request]
        /\ UNCHANGED <<used, lock, content, panic>>
    <2>1. run \in held[t] /\ run.pages \in Pages
      BY <1>0 DEF palloc_free_multiple
    <2>2. PICK a \in Nat, b \in Nat : a <= b /\ run.pages = a .. b
      BY <2>1, PoolShape DEF Pages
    <2>3. /\ (CHOOSE q \in run.pages : \A o \in run.pages : q <= o) = a
          /\ Cardinality(run.pages) = b - a + 1
      <3>1. (CHOOSE q \in a .. b : \A o \in a .. b : q <= o) = a
        BY <2>2, Extremes
      <3>2. Cardinality(a .. b) = b - a + 1
        BY <2>2, FS_Interval
      <3>3. QED
        BY <2>2, <3>1, <3>2, Zenon
    <2> DEFINE k == IF page_from_pool("kernel", a) THEN "kernel" ELSE "user"
               r == FreeRequest(k, a, b - a + 1)
    <2>4. req' = [req EXCEPT ![t] = r]
      BY <2>3, Zenon DEF palloc_free_multiple, FreeRequest
    <2>5. k \in Kind
      BY Zenon DEF Kind
    <2> HIDE DEF k
    <2>6. r \in Request /\ r.idx = 0 /\ r.cnt = b - a + 1 /\ r.first = a
      <3>1. b - a + 1 \in Nat
        BY <2>2
      <3>2. QED
        BY <2>5, <3>1, FreeRequestType
    <2> HIDE DEF r
    <2>7. req'[t] = r /\ req' \in [Thread -> Request] /\ \A u \in Thread : u # t => req'[u] = req[u]
      BY <1>0, <2>4, <2>6, Zenon
    <2>8. Run(t)' = run.pages
      BY <2>2, <2>6, <2>7 DEF Run
    <2>9. pc[t] = "out" /\ pc'[t] = "poison" /\ OthersKept(t) /\ held'[t] = held[t] \ {run}
      BY <1>0, <2>7, Zenon DEF palloc_free_multiple, Goto, OthersKept
    <2>10. req'[t].cnt > 0
      BY <2>2, <2>6, <2>7
    <2>11. QED
      BY <2>1, <2>6, <2>7, <2>8, <2>9, <2>10, Zenon DEF palloc_free_multiple
  <1>2. TypeOK'
    <2>1. pc' \in [Thread -> Label]
      BY <1>0, Zenon DEF palloc_free_multiple, Goto, Label
    <2>2. held' \in [Thread -> SUBSET [pages : Pages, zero : BOOLEAN]]
      BY <1>0, Zenon DEF palloc_free_multiple
    <2>3. QED
      BY <1>0, <1>1, <2>1, <2>2, Zenon DEF TypeOK
  <1>3. CallAt(t)'
    BY <1>1, Zenon DEF CallAt
  <1>4. \A u \in Thread : u # t => CallAt(u)'
    BY <1>0, <1>1, CallsKept, Zenon
  <1>5. OwnInv'
    <2>1. Taken(t) = {} /\ Found(t)' = {} /\ Taken(t)' = run.pages
      BY <1>1, Zenon DEF Taken, Found
    <2>2. Given(t)' \subseteq Given(t) /\ run.pages \subseteq Given(t)
      BY <1>1, Zenon DEF Given
    <2>3. Given(t)' \cap run.pages = {}
      BY <1>0, <1>1 DEF Given, OwnInv
    <2>4. Mine(t)' \subseteq Mine(t) /\ Given(t)' \cap Taken(t)' = {}
      BY <2>1, <2>2, <2>3, Zenon DEF Mine
    <2>5. \A r, s \in held'[t] : r # s => r.pages \cap s.pages = {}
      BY <1>0, <1>1, Zenon DEF OwnInv
    <2>6. QED
      BY <1>0, <1>1, <2>1, <2>4, <2>5, OwnMoved, Zenon
  <1>6. QED
    BY <1>2, <1>3, <1>4, <1>5, Zenon DEF AInv

LEMMA PoisonInv ==
  ASSUME PallocConstants, AInv, NEW t \in Thread, Poison(t)
  PROVE  AInv'
  <1>0. /\ TypeOK /\ CallAt(t) /\ OwnInv /\ req[t] \in Request /\ NULL \notin Thread
        /\ pc \in [Thread -> Label] /\ req \in [Thread -> Request] /\ lock \in [Kind -> Thread \cup {NULL}]
        /\ held \in [Thread -> SUBSET [pages : Pages, zero : BOOLEAN]]
    BY AInvFacts, Zenon
  <1>1. /\ pc[t] = "poison" /\ pc'[t] = "reset" /\ OthersKept(t) /\ req' = req /\ held' = held
        /\ UNCHANGED <<used, lock>>
    BY <1>0, Zenon DEF Poison, Goto, OthersKept
  <1>2. TypeOK'
    <2>1. pc' \in [Thread -> Label]
      BY <1>0, Zenon DEF Poison, Goto, Label
    <2>2. content' \in [Page -> Byte \cup {0, 204}]
      BY <1>0, Zenon DEF Poison, TypeOK
    <2>3. QED
      BY <1>0, <1>1, <2>1, <2>2, Zenon DEF TypeOK
  <1>3. CallAt(t)'
    BY <1>0, <1>1, Zenon DEF CallAt, Request
  <1>4. \A u \in Thread : u # t => CallAt(u)'
    BY <1>0, <1>1, CallsKept, Zenon
  <1>5. OwnInv'
    <2>1. Given(t)' = Given(t)
      BY <1>1, Zenon DEF Given
    <2>2. Taken(t)' = Taken(t) /\ Found(t)' = {}
      BY <1>0, <1>1 DEF Taken, Found, Run, CallAt, Request
    <2>3. Mine(t)' \subseteq Mine(t) /\ Given(t)' \cap Taken(t)' = {}
      BY <1>0, <2>1, <2>2, Zenon DEF Mine, OwnInv
    <2>4. QED
      BY <1>0, <1>1, <2>2, <2>3, OwnMoved, Zenon DEF OwnInv
  <1>6. QED
    BY <1>2, <1>3, <1>4, <1>5, Zenon DEF AInv

LEMMA ResetInv ==
  ASSUME PallocConstants, AInv, NEW t \in Thread, Reset(t)
  PROVE  AInv'
  <1>0. /\ TypeOK /\ CallAt(t) /\ OwnInv /\ req[t] \in Request /\ NULL \notin Thread
        /\ pc \in [Thread -> Label] /\ req \in [Thread -> Request] /\ lock \in [Kind -> Thread \cup {NULL}]
        /\ held \in [Thread -> SUBSET [pages : Pages, zero : BOOLEAN]]
    BY AInvFacts, Zenon
  <1>r. [req[t] EXCEPT !.idx = @ + 1] \in Request /\ NoReq \in Request
    BY <1>0, RequestMoves, Zenon DEF NoReq, Request, Kind
  <1>1. /\ pc[t] = "reset" /\ OthersKept(t) /\ held' = held
        /\ used' = used \ {req[t].first + req[t].idx}
        /\ \/ req[t].idx + 1 < req[t].cnt /\ pc'[t] = "reset" /\ req'[t] = [req[t] EXCEPT !.idx = @ + 1]
           \/ ~ (req[t].idx + 1 < req[t].cnt) /\ pc'[t] = "out" /\ req'[t] = NoReq
        /\ UNCHANGED <<lock, content, panic>>
    BY <1>0, Zenon DEF Reset, Goto, OthersKept
  <1>2. TypeOK'
    <2>1. pc' \in [Thread -> Label]
      BY <1>0, Zenon DEF Reset, Goto, Label
    <2>2. req' \in [Thread -> Request]
      BY <1>0, <1>r, Zenon DEF Reset
    <2>3. QED
      BY <1>0, <1>1, <2>1, <2>2, Zenon DEF TypeOK
  <1>3. CallAt(t)'
    BY <1>0, <1>1, Zenon DEF CallAt, Request
  <1>4. \A u \in Thread : u # t => CallAt(u)'
    BY <1>0, <1>1, CallsKept, Zenon
  <1>5. OwnInv'
    <2> DEFINE p == req[t].first + req[t].idx
    <2>1. Given(t)' = Given(t)
      BY <1>1, Zenon DEF Given
    <2>2. Taken(t) = p .. req[t].first + req[t].cnt - 1
      BY <1>1, Zenon DEF Taken
    <2>3. /\ p \in Int /\ req[t].first + req[t].cnt - 1 \in Int /\ p <= req[t].first + req[t].cnt - 1
      BY <1>0, <1>1 DEF CallAt, Request
    <2>4. Taken(t)' = p + 1 .. req[t].first + req[t].cnt - 1
      <3>1. CASE pc'[t] = "reset"
        <4>1. req'[t].first = req[t].first /\ req'[t].cnt = req[t].cnt /\ req'[t].idx = req[t].idx + 1
          BY <1>0, <1>1, <3>1, RequestMoves, Zenon
        <4>2. Taken(t)' = req'[t].first + req'[t].idx .. req'[t].first + req'[t].cnt - 1
          BY <3>1, Zenon DEF Taken
        <4>3. QED
          BY <1>0, <4>1, <4>2 DEF Request
      <3>2. CASE pc'[t] = "out"
        <4>1. Taken(t)' = {}
          BY <3>2, Zenon DEF Taken
        <4>2. QED
          BY <1>0, <1>1, <3>2, <4>1 DEF CallAt, Request
      <3>3. QED
        BY <1>1, <3>1, <3>2, Zenon
    <2>5. Taken(t)' = Taken(t) \ {p} /\ p \in Taken(t)
      <3> HIDE DEF p
      <3>1. QED
        BY <2>2, <2>3, <2>4, IntervalFirst
    <2>6. Found(t)' = {}
      BY <1>1, Zenon DEF Found
    <2> HIDE DEF p
    <2>7. QED
      BY <1>0, <1>1, <2>1, <2>5, <2>6, OwnReset, Zenon DEF p
  <1>6. QED
    BY <1>2, <1>3, <1>4, <1>5, Zenon DEF AInv
-----------------------------------------------------------------------------
LEMMA InitAInv ==
  ASSUME PallocConstants, Init
  PROVE  AInv
  <1>1. TypeOK
    <2>1. lock \in [Kind -> Thread \cup {NULL}]
      BY PoolShape, Zenon DEF Init
    <2>2. NoReq \in Request
      BY Zenon DEF NoReq, Request, Kind
    <2>3. QED
      BY <2>1, <2>2, Zenon DEF Init, TypeOK, Label
  <1>2. \A t \in Thread : CallAt(t)
    BY Zenon DEF Init, CallAt
  <1>3. \A t \in Thread : Given(t) = {} /\ Taken(t) = {} /\ Found(t) = {} /\ held[t] = {}
    BY Zenon DEF Init, Given, Taken, Found
  <1>4. OwnInv
    BY <1>3, Zenon DEF Mine, OwnInv
  <1>5. QED
    BY <1>1, <1>2, <1>4, Zenon DEF AInv

(* The steps of thread t. *)
Step(t) ==
  \/ \E call \in Calls : palloc_get_multiple(t, call)
  \/ Acquire(t) \/ Scan(t) \/ Flip(t) \/ Zero(t) \/ Fail(t) \/ Use(t)
  \/ \E run \in held[t] : palloc_free_multiple(t, run)
  \/ Poison(t) \/ Reset(t)

LEMMA StepAInv ==
  ASSUME PallocConstants, AInv, NEW t \in Thread, Step(t)
  PROVE  AInv'
  <1>1. ASSUME NEW call \in Calls, palloc_get_multiple(t, call) PROVE AInv'
    <2>1. CASE call.cnt = 0
      <3>1. UNCHANGED vars
        BY <1>1, <2>1, Zenon DEF palloc_get_multiple, vars
      <3>2. QED
        BY <3>1, StutterInv, Zenon
    <2>2. CASE call.cnt # 0
      BY <1>1, <2>2, GetInv, Zenon
    <2>3. QED
      BY <2>1, <2>2, Zenon
  <1>2. CASE Acquire(t)
    BY <1>2, AcquireInv, Zenon
  <1>3. CASE Scan(t)
    BY <1>3, ScanCases, ScanFailInv, ScanOnInv, ScanFoundInv, Zenon
  <1>4. CASE Flip(t)
    BY <1>4, FlipInv, Zenon
  <1>5. CASE Zero(t)
    BY <1>5, ZeroInv, Zenon
  <1>6. CASE Fail(t)
    BY <1>6, FailInv, Zenon
  <1>7. CASE Use(t)
    BY <1>7, UseInv, Zenon
  <1>8. ASSUME NEW run \in held[t], palloc_free_multiple(t, run) PROVE AInv'
    BY <1>8, FreeInv, Zenon
  <1>9. CASE Poison(t)
    BY <1>9, PoisonInv, Zenon
  <1>10. CASE Reset(t)
    BY <1>10, ResetInv, Zenon
  <1>11. QED
    BY <1>1, <1>2, <1>3, <1>4, <1>5, <1>6, <1>7, <1>8, <1>9, <1>10, Zenon DEF Step

(* The inductive invariant holds of every behaviour of the allocator. *)
THEOREM AInvHolds ==
  ASSUME PallocConstants
  PROVE  Spec => []AInv
  <1>1. Init => AInv
    BY InitAInv, Zenon
  <1>2. AInv /\ [Next]_vars => AInv'
    <2>1. ASSUME AInv, Next PROVE AInv'
      <3>1. PICK t \in Thread : Step(t)
        BY <2>1, Zenon DEF Next, Step
      <3>2. QED
        BY <2>1, <3>1, StepAInv, Zenon
    <2>2. QED
      BY <2>1, StutterInv, Zenon
  <1>3. QED
    BY <1>1, <1>2, PTL DEF Spec

(* The ASSERT of palloc_free_multiple never fails: all bits of the run that  *)
(* is given back are still set, whatever the other threads have done since   *)
(* palloc_get_multiple set them.                                             *)
THEOREM FreesWhatIsUsed ==
  ASSUME PallocConstants
  PROVE  Spec => [][\A t \in Thread : Poison(t) => ~ panic']_vars
  <1>1. AInv /\ [Next]_vars => [\A t \in Thread : Poison(t) => ~ panic']_vars
    <2>1. SUFFICES ASSUME AInv, NEW t \in Thread, Poison(t) PROVE ~ panic'
      BY Zenon
    <2>2. Taken(t) = Run(t)
      BY <2>1, Zenon DEF Poison, Taken
    <2>3. Run(t) \subseteq used
      BY <2>1, <2>2, Zenon DEF AInv, OwnInv, Mine
    <2>4. QED
      BY <2>1, <2>3, Zenon DEF Poison
  <1>2. QED
    BY <1>1, AInvHolds, PTL DEF Spec
-----------------------------------------------------------------------------
(* The refinement: what the threads hold in the page pool. *)
Cover(runs) == UNION {run.pages \X {run.zero} : run \in runs}
Holding == [t \in Thread |-> Cover(held[t])]

LEMMA CoverAdd ==
  ASSUME NEW H, NEW n
  PROVE  Cover(H \cup {n}) = Cover(H) \cup (n.pages \X {n.zero})
  <1>1. \A G, x : x \in Cover(G) <=> \E run \in G : x \in run.pages \X {run.zero}
    BY Zenon DEF Cover
  <1>2. ASSUME NEW x
        PROVE  x \in Cover(H \cup {n}) <=> x \in Cover(H) \/ x \in n.pages \X {n.zero}
    <2>1. x \in Cover(H \cup {n}) <=> \E run \in H \cup {n} : x \in run.pages \X {run.zero}
      BY <1>1, Zenon
    <2>2. x \in Cover(H) <=> \E run \in H : x \in run.pages \X {run.zero}
      BY <1>1, Zenon
    <2>3. QED
      BY <2>1, <2>2, Zenon
  <1>3. QED
    BY <1>2, Zenon

LEMMA AbstractPages ==
  ASSUME TypeOK, NEW t \in Thread
  PROVE  Abstract!Pages(t) = Given(t)
  <1>1. \A x : x \in Abstract!Pages(t) => x \in Given(t)
    BY DEF Abstract!Pages, Given
  <1>2. ASSUME NEW run \in held[t], NEW x \in run.pages PROVE x \in Abstract!Pages(t)
    <2>1. <<x, run.zero>> \in UNION {r.pages \X {r.zero} : r \in held[t]}
      OBVIOUS
    <2>2. <<x, run.zero>>[1] = x
      BY Zenon
    <2>3. QED
      BY <2>1, <2>2, Zenon DEF Abstract!Pages
  <1>3. QED
    BY <1>1, <1>2, Zenon DEF Given

(* A step that changes no page of anybody is one of the page pool. *)
LEMMA AbstractKept ==
  ASSUME TypeOK, TypeOK', \A t \in Thread : \A p \in Given(t) : content'[p] = content[p]
  PROVE  Abstract!HeldKept
  <1>1. content' \in [Page -> Byte \cup {0, 204}]
    BY Zenon DEF TypeOK
  <1>2. QED
    BY <1>1, AbstractPages DEF Abstract!HeldKept

(* Filling the pages of its call, a thread changes no page of anybody. *)
LEMMA FillKept ==
  ASSUME PallocConstants, AInv, NEW t \in Thread, pc[t] \in {"zero", "poison"},
         \A p \in Page : p \notin Run(t) => content'[p] = content[p]
  PROVE  \A u \in Thread : \A p \in Given(u) : content'[p] = content[p]
  <1> SUFFICES ASSUME NEW u \in Thread, NEW p \in Given(u) PROVE content'[p] = content[p]
    BY Zenon
  <1>1. Taken(t) = Run(t)
    BY Zenon DEF Taken
  <1>2. p \notin Run(t)
    BY <1>1, Zenon DEF AInv, OwnInv, Mine
  <1>3. p \in Page
    BY DEF AInv, TypeOK, Given, Pages
  <1>4. QED
    BY <1>2, <1>3, Zenon

LEMMA StepRefines ==
  ASSUME PallocConstants, AInv, AInv', NEW t \in Thread, Step(t)
  PROVE  Abstract!Next \/ UNCHANGED Abstract!vars
  <1>0. TypeOK /\ TypeOK' /\ OwnInv /\ held \in [Thread -> SUBSET [pages : Pages, zero : BOOLEAN]]
    BY Zenon DEF AInv, TypeOK
  <1>1. CASE UNCHANGED <<held, content>>
    BY <1>1, Zenon DEF Abstract!vars
  <1>2. CASE Zero(t)
    <2>1. /\ pc[t] = "zero" /\ held' = [held EXCEPT ![t] = @ \cup {[pages |-> Run(t), zero |-> req[t].zero]}]
          /\ content' = IF req[t].zero THEN [p \in Page |-> IF p \in Run(t) THEN 0 ELSE content[p]] ELSE content
      BY <1>2, Zenon DEF Zero
    <2>2. PICK k \in Kind : \E a, b \in Pool[k] : a <= b /\ Run(t) = a .. b
      BY <2>1, RunPages, AInvFacts, Zenon DEF Request
    <2>3. PICK a \in Pool[k], b \in Pool[k] : a <= b /\ Run(t) = a .. b
      BY <2>2, Zenon
    <2>4. a .. b \subseteq Pool[k] /\ a .. b \subseteq Page
      BY <2>3, PoolShape
    <2>5. Pool[k] \in {Pool.kernel, Pool.user}
      BY Zenon DEF Kind
    <2>6. \A s \in Thread : (a .. b) \cap Abstract!Pages(s) = {}
      <3>1. Taken(t) = a .. b
        BY <2>1, <2>3, Zenon DEF Taken
      <3>2. \A s \in Thread : Taken(t) \cap Given(s) = {}
        BY <1>0, Zenon DEF OwnInv, Mine
      <3>3. QED
        BY <1>0, <3>1, <3>2, AbstractPages, Zenon
    <2>7. Holding' = [Holding EXCEPT ![t] = @ \cup ((a .. b) \X {req[t].zero})]
      <3> DEFINE n == [pages |-> Run(t), zero |-> req[t].zero]
      <3>1. n.pages = a .. b /\ n.zero = req[t].zero /\ held' = [held EXCEPT ![t] = @ \cup {n}]
        BY <2>1, <2>3, Zenon
      <3> HIDE DEF n
      <3>2. \A u \in Thread : held'[u] = IF u = t THEN held[t] \cup {n} ELSE held[u]
        BY <1>0, <3>1, Zenon
      <3>3. Cover(held[t] \cup {n}) = Cover(held[t]) \cup ((a .. b) \X {req[t].zero})
        <4>1. Cover(held[t] \cup {n}) = Cover(held[t]) \cup (n.pages \X {n.zero})
          BY CoverAdd, Zenon
        <4>2. QED
          BY <3>1, <4>1, Zenon
      <3>4. Holding'[t] = Holding[t] \cup ((a .. b) \X {req[t].zero})
        BY <3>2, <3>3, Zenon DEF Holding
      <3>5. \A u \in Thread : u # t => Holding'[u] = Holding[u]
        BY <3>2, Zenon DEF Holding
      <3>6. Holding' = [u \in Thread |-> Holding'[u]] /\ Holding = [u \in Thread |-> Holding[u]]
        BY Zenon DEF Holding
      <3>7. QED
        BY <3>4, <3>5, <3>6, Zenon
    <2>8. req[t].zero => \A p \in a .. b : content'[p] = 0
      BY <2>1, <2>3, <2>4, Zenon
    <2>9. Abstract!HeldKept
      <3>1. \A p \in Page : p \notin Run(t) => content'[p] = content[p]
        BY <2>1, Zenon
      <3>2. QED
        BY <1>0, <2>1, <3>1, FillKept, AbstractKept, Zenon
    <2>10. req[t].zero \in BOOLEAN
      BY AInvFacts, Zenon DEF Request
    <2>z. PICK z \in BOOLEAN : z = req[t].zero
      BY <2>10, Zenon
    <2>11. Abstract!Get(t, z)
      BY <2>z, <2>3, <2>4, <2>5, <2>6, <2>7, <2>8, <2>9 DEF Abstract!Get, Holding, Cover
    <2>12. QED
      BY <2>11, Zenon DEF Abstract!Next
  <1>3. CASE Use(t)
    <2>0. PICK run \in held[t], b \in Byte : \E p \in run.pages : content' = [content EXCEPT ![p] = b]
      BY <1>3, Zenon DEF Use
    <2>1. PICK p \in run.pages : content' = [content EXCEPT ![p] = b]
      BY <2>0, Zenon
    <2>2. p \in Abstract!Pages(t)
      BY <1>0, AbstractPages, Zenon DEF Given
    <2>3. held' = held
      BY <1>3, Zenon DEF Use
    <2>4. Abstract!Use(t)
      BY <2>1, <2>2, <2>3, Zenon DEF Abstract!Use
    <2>5. QED
      BY <2>4, Zenon DEF Abstract!Next
  <1>4. ASSUME NEW run \in held[t], palloc_free_multiple(t, run) PROVE Abstract!Next
    <2>1. held' = [held EXCEPT ![t] = @ \ {run}] /\ content' = content
      BY <1>4, Zenon DEF palloc_free_multiple
    <2> DEFINE runs == run.pages \X {run.zero}
    <2>2. \A r \in held[t] : r # run => r.pages \cap run.pages = {}
      BY <1>0, Zenon DEF OwnInv
    <2>3. UNION {r.pages \X {r.zero} : r \in held[t] \ {run}} = (UNION {r.pages \X {r.zero} : r \in held[t]}) \ runs
      BY <2>2
    <2>4. runs \subseteq UNION {r.pages \X {r.zero} : r \in held[t]}
      BY Zenon
    <2> HIDE DEF runs
    <2>5. \A u \in Thread : held'[u] = IF u = t THEN held[t] \ {run} ELSE held[u]
      BY <1>0, <2>1, Zenon
    <2>6. Holding' = [Holding EXCEPT ![t] = @ \ runs] /\ runs \in SUBSET Holding[t]
      BY <2>3, <2>4, <2>5, Zenon DEF Holding, Cover
    <2>7. Abstract!Free(t)
      BY <2>1, <2>6, Zenon DEF Abstract!Free, Holding, Cover
    <2>8. QED
      BY <2>7, Zenon DEF Abstract!Next
  <1>5. CASE Poison(t)
    <2>1. /\ pc[t] = "poison" /\ held' = held
          /\ content' = [p \in Page |-> IF p \in Run(t) THEN 204 ELSE content[p]]
      BY <1>5, Zenon DEF Poison
    <2>2. \A p \in Page : p \notin Run(t) => content'[p] = content[p]
      BY <2>1, Zenon
    <2>3. Abstract!HeldKept
      BY <1>0, <2>1, <2>2, FillKept, AbstractKept, Zenon
    <2>4. QED
      BY <2>1, <2>3, Zenon DEF Abstract!Next, Abstract!Idle
  <1>6. QED
    <2>1. CASE Zero(t) \/ Use(t) \/ Poison(t) \/ \E run \in held[t] : palloc_free_multiple(t, run)
      BY <2>1, <1>2, <1>3, <1>4, <1>5, Zenon
    <2>2. CASE Acquire(t) \/ Scan(t) \/ Flip(t) \/ Fail(t) \/ Reset(t)
               \/ \E call \in Calls : palloc_get_multiple(t, call)
      <3>1. UNCHANGED <<held, content>>
        BY <2>2, Zenon DEF Acquire, Scan, Flip, Fail, Reset, palloc_get_multiple
      <3>2. QED
        BY <1>1, <3>1, Zenon
    <2>3. QED
      BY <2>1, <2>2, Zenon DEF Step

(* palloc.c implements the page pool: whatever search of one thread and      *)
(* resets of others come together, a page has one holder, lies with its run  *)
(* in one pool, is zero when PAL_ZERO asked for it, and is changed by nobody *)
(* but its holder.                                                           *)
THEOREM PoolRefinement ==
  ASSUME PallocConstants
  PROVE  Spec => ImplementsPool
  <1>1. Init => Abstract!Init
    BY DEF Init, Abstract!Init
  <1>2. AInv /\ AInv' /\ [Next]_vars => [Abstract!Next]_(Abstract!vars)
    <2>1. ASSUME AInv, AInv', Next PROVE Abstract!Next \/ UNCHANGED Abstract!vars
      <3>1. PICK t \in Thread : Step(t)
        BY <2>1, Zenon DEF Next, Step
      <3>2. QED
        BY <2>1, <3>1, StepRefines, Zenon
    <2>2. ASSUME UNCHANGED vars PROVE UNCHANGED Abstract!vars
      BY <2>2, Zenon DEF vars, Abstract!vars
    <2>3. QED
      BY <2>1, <2>2, Zenon
  <1>3. QED
    BY <1>1, <1>2, AInvHolds, PTL DEF Spec, ImplementsPool, Abstract!Spec
=============================================================================
