-------------------------------- MODULE List --------------------------------
(* The doubly linked lists of lib/kernel/list.c at the level of their        *)
(* pointers: m is the memory, m.prev and m.next of every element and of the  *)
(* heads and tails of the lists.  Each operation takes the memory before it  *)
(* and returns the memory after it, assignment by assignment.  Next applies  *)
(* operations in any order to two lists, and to the sequences they stand for.*)
EXTENDS Naturals, Sequences, SequencesExt

CONSTANTS
  Elem, NULL,
  Key         \* Key[e] is what less compares

VARIABLES m, seq

Lists == {"a", "b"}
head(l) == <<"head", l>>
tail(l) == <<"tail", l>>
Node == Elem \cup {head(l) : l \in Lists} \cup {tail(l) : l \in Lists}

less(x, y) == Key[x] < Key[y]

prev(M, x, v) == [M EXCEPT !.prev[x] = v]
next(M, x, v) == [M EXCEPT !.next[x] = v]

is_interior(M, x) == M.prev[x] # NULL /\ M.next[x] # NULL
is_tail(M, x) == M.prev[x] # NULL /\ M.next[x] = NULL

list_init(M, l) == next(prev(next(prev(M, head(l), NULL), head(l), tail(l)), tail(l), head(l)), tail(l), NULL)

list_begin(M, l) == M.next[head(l)]
list_empty(M, l) == list_begin(M, l) = tail(l)

list_insert(M, before, elem) ==
  LET M1 == next(prev(M, elem, M.prev[before]), elem, before)
  IN  prev(next(M1, M1.prev[before], elem), before, elem)

(* Mutant: the last element's next pointer is left alone. *)
list_splice_open(M, before, first, end) ==
  LET last == M.prev[end]
      M1 == next(M, M.prev[first], M.next[last])
      M2 == prev(M1, M1.next[last], M1.prev[first])
      M3 == prev(M2, first, M2.prev[before])
  IN  IF first = end THEN M ELSE prev(next(M3, M3.prev[before], first), before, last)

list_splice(M, before, first, end) ==
  LET last == M.prev[end]
      M1 == next(M, M.prev[first], M.next[last])
      M2 == prev(M1, M1.next[last], M1.prev[first])
      M3 == next(prev(M2, first, M2.prev[before]), last, before)
  IN  IF first = end THEN M ELSE prev(next(M3, M3.prev[before], first), before, last)

list_remove(M, x) ==
  LET M1 == next(M, M.prev[x], M.next[x]) IN prev(M1, M1.next[x], M1.prev[x])

list_push_front(M, l, x) == list_insert(M, list_begin(M, l), x)
list_push_back(M, l, x) == list_insert(M, tail(l), x)
list_pop_front(M, l) == list_remove(M, list_begin(M, l))
list_pop_back(M, l) == list_remove(M, M.prev[tail(l)])

RECURSIVE Size(_, _, _)
Size(M, e, end) == IF e = end THEN 0 ELSE 1 + Size(M, M.next[e], end)
list_size(M, l) == Size(M, list_begin(M, l), tail(l))

(* The swap of prev and next of every element, then of the two ends. *)
RECURSIVE SwapFrom(_, _, _)
SwapFrom(M, e, end) ==
  IF e = end THEN M
  ELSE LET M1 == next(prev(M, e, M.next[e]), e, M.prev[e]) IN SwapFrom(M1, M1.prev[e], end)

list_reverse(M, l) ==
  LET M1 == SwapFrom(M, list_begin(M, l), tail(l))
      M2 == prev(next(M1, head(l), M1.prev[tail(l)]), tail(l), M1.next[head(l)])
      first == M2.next[head(l)]
      last == M2.prev[tail(l)]
  IN  IF list_empty(M, l) THEN M ELSE next(prev(M2, first, M2.next[last]), last, M2.prev[first])

RECURSIVE find_end_of_run(_, _, _)
find_end_of_run(M, x, end) ==
  LET y == M.next[x] IN IF y # end /\ ~ less(y, M.prev[y]) THEN find_end_of_run(M, y, end) ELSE y

RECURSIVE inplace_merge(_, _, _, _)
inplace_merge(M, a0, a1b0, b1) ==
  IF a0 = a1b0 \/ a1b0 = b1 THEN M
  ELSE IF ~ less(a1b0, a0) THEN inplace_merge(M, M.next[a0], a1b0, b1)
  ELSE LET next_b == M.next[a1b0]
       IN  inplace_merge(list_splice(M, a0, M.prev[next_b], next_b), a0, next_b, b1)

(* One pass of list_sort from a0: the memory and the number of runs. *)
RECURSIVE Pass(_, _, _, _)
Pass(M, l, a0, cnt) ==
  IF a0 = tail(l) THEN <<M, cnt>>
  ELSE LET a1b0 == find_end_of_run(M, a0, tail(l))
           b1 == find_end_of_run(M, a1b0, tail(l))
       IN  IF a1b0 = tail(l) THEN <<M, cnt + 1>>
                             ELSE Pass(inplace_merge(M, a0, a1b0, b1), l, b1, cnt + 1)

RECURSIVE list_sort(_, _)
list_sort(M, l) ==
  LET pass == Pass(M, l, list_begin(M, l), 0)
  IN  IF pass[2] > 1 THEN list_sort(pass[1], l) ELSE pass[1]

RECURSIVE FindGreater(_, _, _, _)
FindGreater(M, e, end, x) ==
  IF e = end \/ less(x, e) THEN e ELSE FindGreater(M, M.next[e], end, x)

list_insert_ordered(M, l, x) == list_insert(M, FindGreater(M, list_begin(M, l), tail(l), x), x)

(* list_unique from element e on, with the duplicates moved to the end of d. *)
RECURSIVE UniqueFrom(_, _, _, _)
UniqueFrom(M, l, d, e) ==
  LET n == M.next[e]
  IN  IF n = tail(l) THEN M
      ELSE IF ~ less(e, n) /\ ~ less(n, e)
             THEN UniqueFrom(list_push_back(list_remove(M, n), d, n), l, d, e)
             ELSE UniqueFrom(M, l, d, n)

list_unique(M, l, d) == IF list_empty(M, l) THEN M ELSE UniqueFrom(M, l, d, list_begin(M, l))

(* list_max and list_min: the best so far, over the rest of the list. *)
RECURSIVE MaxFrom(_, _, _, _)
MaxFrom(M, e, end, max) ==
  IF e = end THEN max ELSE MaxFrom(M, M.next[e], end, IF less(max, e) THEN e ELSE max)

RECURSIVE MinFrom(_, _, _, _)
MinFrom(M, e, end, min) ==
  IF e = end THEN min ELSE MinFrom(M, M.next[e], end, IF less(e, min) THEN e ELSE min)

list_max(M, l) ==
  IF list_empty(M, l) THEN tail(l)
                      ELSE MaxFrom(M, M.next[list_begin(M, l)], tail(l), list_begin(M, l))

list_min(M, l) ==
  IF list_empty(M, l) THEN tail(l)
                      ELSE MinFrom(M, M.next[list_begin(M, l)], tail(l), list_begin(M, l))
-----------------------------------------------------------------------------
(* Two lists under any sequence of operations, beside their sequences.       *)

vars == <<m, seq>>

Wild == [prev |-> [x \in Node |-> NULL], next |-> [x \in Node |-> NULL]]

Init ==
  /\ m = list_init(list_init(Wild, "a"), "b")
  /\ seq = [l \in Lists |-> <<>>]

Loose == {x \in Elem : \A l \in Lists : x \notin ToSet(seq[l])}

Insert(l, i, x) ==
  /\ m' = list_insert(m, IF i > Len(seq[l]) THEN tail(l) ELSE seq[l][i], x)
  /\ seq' = [seq EXCEPT ![l] = InsertAt(@, i, x)]

Push(l, x) ==
  \/ m' = list_push_front(m, l, x) /\ seq' = [seq EXCEPT ![l] = <<x>> \o @]
  \/ m' = list_push_back(m, l, x) /\ seq' = [seq EXCEPT ![l] = Append(@, x)]

Unlink(l, i) ==
  /\ m' = list_remove(m, seq[l][i])
  /\ seq' = [seq EXCEPT ![l] = RemoveAt(@, i)]

Pop(l) ==
  /\ seq[l] # <<>>
  /\ \/ m' = list_pop_front(m, l) /\ seq' = [seq EXCEPT ![l] = Tail(@)]
     \/ m' = list_pop_back(m, l) /\ seq' = [seq EXCEPT ![l] = Front(@)]

(* Elements i to j - 1 of list a go before element k of list b. *)
Splice(i, j, k) ==
  LET at(l, n) == IF n > Len(seq[l]) THEN tail(l) ELSE seq[l][n]
  IN  /\ m' = list_splice(m, at("b", k), at("a", i), at("a", j))
      /\ seq' = [a |-> SubSeq(seq.a, 1, i - 1) \o SubSeq(seq.a, j, Len(seq.a)),
                 b |-> SubSeq(seq.b, 1, k - 1) \o SubSeq(seq.a, i, j - 1) \o SubSeq(seq.b, k, Len(seq.b))]

ReverseList(l) == m' = list_reverse(m, l) /\ seq' = [seq EXCEPT ![l] = Reverse(@)]

(* The sequence with elements of equal keys in the order they came. *)
Sorted(s) ==
  CHOOSE p \in {q \in [DOMAIN s -> ToSet(s)] : ToSet(q) = ToSet(s)} :
    \A i, j \in DOMAIN s : i < j =>
      \/ Key[p[i]] < Key[p[j]]
      \/ Key[p[i]] = Key[p[j]] /\ \E x, y \in DOMAIN s : x < y /\ s[x] = p[i] /\ s[y] = p[j]

Sort(l) == m' = list_sort(m, l) /\ seq' = [seq EXCEPT ![l] = Sorted(@)]

InOrder(s) == \A i, j \in DOMAIN s : i < j => Key[s[i]] <= Key[s[j]]

InsertOrdered(l, x) ==
  /\ InOrder(seq[l])
  /\ m' = list_insert_ordered(m, l, x)
  /\ seq' = [seq EXCEPT ![l] = SelectSeq(@, LAMBDA y : Key[y] <= Key[x]) \o <<x>>
                               \o SelectSeq(@, LAMBDA y : Key[y] > Key[x])]

(* Positions that differ in key from the position before. *)
Firsts(s) == {i \in DOMAIN s : i = 1 \/ Key[s[i]] # Key[s[i - 1]]}
Pick(s, I) == LET is == SetToSortSeq(I, LAMBDA i, j : i < j) IN [n \in DOMAIN is |-> s[is[n]]]

Unique ==
  /\ m' = list_unique(m, "a", "b")
  /\ seq' = [a |-> Pick(seq.a, Firsts(seq.a)),
             b |-> seq.b \o Pick(seq.a, DOMAIN seq.a \ Firsts(seq.a))]

Next ==
  \/ \E l \in Lists :
       \/ \E x \in Loose : \/ \E i \in 1 .. Len(seq[l]) + 1 : Insert(l, i, x)
                           \/ Push(l, x)
                           \/ InsertOrdered(l, x)
       \/ \E i \in DOMAIN seq[l] : Unlink(l, i)
       \/ Pop(l)
       \/ ReverseList(l)
       \/ Sort(l)
  \/ \E i, j \in 1 .. Len(seq.a) + 1, k \in 1 .. Len(seq.b) + 1 : i <= j /\ Splice(i, j, k)
  \/ Unique

Spec == Init /\ [][Next]_vars

(* Walking a list forward from its head, or backward from its tail; <<NULL>>  *)
(* ends a walk that leaves the list or takes more than n steps.              *)
RECURSIVE Walk(_, _, _, _)
Walk(f, e, end, n) ==
  IF e = end THEN <<>> ELSE IF e = NULL \/ n = 0 THEN <<NULL>> ELSE <<e>> \o Walk(f, f[e], end, n - 1)

Best(s, Better(_, _)) ==
  s[CHOOSE i \in DOMAIN s : \A j \in DOMAIN s : ~ Better(s[j], s[i]) /\ (j < i => Better(s[i], s[j]))]

(* After any sequence of calls each list is the sequence that its operations *)
(* should have made, read forward and backward; its ends are sealed; sorting *)
(* is stable; list_size, list_max and list_min agree with the sequence.      *)
ListsAreSequences ==
  \A l \in Lists :
    /\ Walk(m.next, list_begin(m, l), tail(l), Cardinality(Node)) = seq[l]
    /\ Walk(m.prev, m.prev[tail(l)], head(l), Cardinality(Node)) = Reverse(seq[l])
    /\ list_size(m, l) = Len(seq[l])
    /\ m.prev[head(l)] = NULL /\ is_tail(m, tail(l))
    /\ \A x \in ToSet(seq[l]) : is_interior(m, x)
    /\ seq[l] # <<>> => /\ list_max(m, l) = Best(seq[l], LAMBDA x, y : less(y, x))
                        /\ list_min(m, l) = Best(seq[l], LAMBDA x, y : less(x, y))
=============================================================================
