-------------------------------- MODULE Hash --------------------------------
(* The hash table of lib/kernel/hash.c: buckets are lists (List), taken as   *)
(* sequences here.  Beside the table, inside is the set of the elements that *)
(* it should hold.                                                           *)
EXTENDS Naturals, Sequences, SequencesExt, FiniteSetsExt

CONSTANTS
  Elem, NULL,
  Key,           \* Key[e]: elements with the same key are equal to less
  HashOf,        \* HashOf[k]: the hash value of a key
  MinBuckets,    \* four in the code
  BEST_ELEMS_PER_BUCKET

VARIABLES buckets, bucket_cnt, elem_cnt, inside

vars == <<buckets, bucket_cnt, elem_cnt, inside>>

Empty(n) == [i \in 0 .. n - 1 |-> <<>>]

Init ==
  /\ elem_cnt = 0
  /\ bucket_cnt = MinBuckets
  /\ buckets = Empty(MinBuckets)
  /\ inside = {}

(* bucket_cnt is a power of 2, so that the mask is a remainder. *)
find_bucket(cnt, e) == HashOf[Key[e]] % cnt

find_elem(bucket, e) ==
  IF \E i \in DOMAIN bucket : Key[bucket[i]] = Key[e]
    THEN bucket[Min({i \in DOMAIN bucket : Key[bucket[i]] = Key[e]})]
    ELSE NULL

hash_find(e) == find_elem(buckets[find_bucket(bucket_cnt, e)], e)

insert_elem(b, i, e) == [b EXCEPT ![i] = <<e>> \o @]

remove_elem(b, i, e) == [b EXCEPT ![i] = SelectSeq(@, LAMBDA x : x # e)]

turn_off_least_1bit(x) == x - Max({p \in 1 .. x : x % p = 0 /\ \E i \in 0 .. x : p = 2 ^ i})

is_power_of_2(x) == x # 0 /\ turn_off_least_1bit(x) = 0

RECURSIVE PowerBelow(_)
PowerBelow(x) == IF is_power_of_2(x) THEN x ELSE PowerBelow(turn_off_least_1bit(x))

new_bucket_cnt(cnt) == PowerBelow(Max({cnt \div BEST_ELEMS_PER_BUCKET, MinBuckets}))

(* The elements of all buckets, in the order of the two loops. *)
Chain(b, cnt) == FlattenSeq([i \in 1 .. cnt |-> b[i - 1]])

(* Mutant: the last of the old buckets is not moved. *)
MoveShort(b, old, new) ==
  FoldLeft(LAMBDA acc, e : insert_elem(acc, find_bucket(new, e), e), Empty(new), Chain(b, old - 1))

(* Each element is pushed on the front of its new bucket. *)
Move(b, old, new) ==
  FoldLeft(LAMBDA acc, e : insert_elem(acc, find_bucket(new, e), e), Empty(new), Chain(b, old))

(* rehash of buckets b that hold cnt elements; malloc may fail. *)
rehash(b, cnt) ==
  LET new == new_bucket_cnt(cnt)
  IN  \/ buckets' = b /\ UNCHANGED bucket_cnt
      \/ /\ new # bucket_cnt
         /\ bucket_cnt' = new
         /\ buckets' = Move(b, bucket_cnt, new)

hash_insert(e) ==
  LET i == find_bucket(bucket_cnt, e)
  IN  IF find_elem(buckets[i], e) = NULL
        THEN /\ elem_cnt' = elem_cnt + 1
             /\ rehash(insert_elem(buckets, i, e), elem_cnt')
             /\ inside' = inside \cup {e}
        ELSE rehash(buckets, elem_cnt) /\ UNCHANGED <<elem_cnt, inside>>

hash_replace(e) ==
  LET i == find_bucket(bucket_cnt, e)
      old == find_elem(buckets[i], e)
  IN  /\ elem_cnt' = IF old = NULL THEN elem_cnt + 1 ELSE elem_cnt
      /\ rehash(insert_elem(IF old = NULL THEN buckets ELSE remove_elem(buckets, i, old), i, e), elem_cnt')
      /\ inside' = {x \in inside : Key[x] # Key[e]} \cup {e}

hash_delete(e) ==
  LET i == find_bucket(bucket_cnt, e)
      found == find_elem(buckets[i], e)
  IN  IF found = NULL
        THEN UNCHANGED vars
        ELSE /\ elem_cnt' = elem_cnt - 1
             /\ rehash(remove_elem(buckets, i, found), elem_cnt')
             /\ inside' = {x \in inside : Key[x] # Key[e]}

(* hash_clear keeps the buckets, with or without a destructor. *)
hash_clear ==
  /\ buckets' = Empty(bucket_cnt)
  /\ elem_cnt' = 0
  /\ inside' = {}
  /\ UNCHANGED bucket_cnt

Absent == Elem \ inside

Next ==
  \/ \E e \in Absent : hash_insert(e) \/ hash_replace(e)
  \/ \E e \in Elem : hash_delete(e)
  \/ hash_clear

Spec == Init /\ [][Next]_vars

(* hash_next from element n of bucket i: the elements still to come.         *)
(* Position 0 is the head of a bucket, where hash_first starts.              *)
RECURSIVE hash_next(_, _)
hash_next(i, n) ==
  IF n < Len(buckets[i]) THEN <<buckets[i][n + 1]>> \o hash_next(i, n + 1)
  ELSE IF i + 1 >= bucket_cnt THEN <<>>
  ELSE hash_next(i + 1, 0)

(* What hash_apply and an iteration from hash_first to the end visit. *)
hash_apply == hash_next(0, 0)

(* The table is a set, whatever was inserted, replaced and deleted, when it  *)
(* grew or shrank, and whether malloc failed in rehash: hash_find finds what *)
(* is inside and nothing else, an iteration visits each element once, and    *)
(* the counts stay true.                                                     *)
HashIsSet ==
  /\ is_power_of_2(bucket_cnt)
  /\ elem_cnt = Cardinality(inside)
  /\ Len(hash_apply) = elem_cnt /\ ToSet(hash_apply) = inside
  /\ \A e \in Elem : LET found == hash_find(e)
                     IN  IF \E x \in inside : Key[x] = Key[e]
                           THEN found \in inside /\ Key[found] = Key[e]
                           ELSE found = NULL
=============================================================================
