------------------------------- MODULE Bitmap -------------------------------
(***************************************************************************)
(* lib/kernel/bitmap.c: bits packed into words of ELEM_BITS bits.  A       *)
(* bitmap is [cnt, bits]: the number of bits and the words.                *)
(***************************************************************************)
EXTENDS Integers, Sequences, FiniteSets

CONSTANTS ELEM_BITS, Cnt   \* the bits of a word, and of the bitmap

VARIABLES bitmap, set        \* the bitmap, and the set of bits it stands for

BITMAP_ERROR == -1      \* SIZE_MAX

elem_idx(i) == i \div ELEM_BITS + 1
bit_mask(i) == 2 ^ (i % ELEM_BITS)
elem_cnt(n) == (n + ELEM_BITS - 1) \div ELEM_BITS

(* The bit of mask (a power of two) in word w. *)
Has(w, mask) == (w \div mask) % 2 = 1

last_mask(cnt) == IF cnt % ELEM_BITS = 0 THEN 2 ^ ELEM_BITS - 1 ELSE 2 ^ (cnt % ELEM_BITS) - 1

bitmap_test(b, i) == Has(b.bits[elem_idx(i)], bit_mask(i))

(* orl, andl and xorl on the word of the bit. *)
bitmap_mark(b, i) == [b EXCEPT !.bits[elem_idx(i)] = IF Has(@, bit_mask(i)) THEN @ ELSE @ + bit_mask(i)]
bitmap_reset(b, i) == [b EXCEPT !.bits[elem_idx(i)] = IF Has(@, bit_mask(i)) THEN @ - bit_mask(i) ELSE @]
bitmap_flip(b, i) == IF bitmap_test(b, i) THEN bitmap_reset(b, i) ELSE bitmap_mark(b, i)

bitmap_set(b, i, value) == IF value THEN bitmap_mark(b, i) ELSE bitmap_reset(b, i)

(* The loops over the CNT bits from START, as folds over the index. *)
bitmap_set_multiple(b, start, cnt, value) ==
  LET f[k \in 0 .. cnt] == IF k = 0 THEN b ELSE bitmap_set(f[k - 1], start + k - 1, value)
  IN  f[cnt]

bitmap_set_all(b, value) == bitmap_set_multiple(b, 0, b.cnt, value)

(* bitmap_create, bitmap_create_in_buf, in memory that holds WORDS: what     *)
(* lies beyond the last bit is left as it is.                                *)
bitmap_create(n, words) == bitmap_set_all([cnt |-> n, bits |-> words], FALSE)

bitmap_count(b, start, cnt, value) ==
  LET f[k \in 0 .. cnt] ==
        IF k = 0 THEN 0
        ELSE f[k - 1] + IF bitmap_test(b, start + k - 1) = value THEN 1 ELSE 0
  IN  f[cnt]

bitmap_contains(b, start, cnt, value) ==
  \E k \in 0 .. cnt - 1 : bitmap_test(b, start + k) = value

bitmap_any(b, start, cnt) == bitmap_contains(b, start, cnt, TRUE)
bitmap_none(b, start, cnt) == ~ bitmap_contains(b, start, cnt, TRUE)
bitmap_all(b, start, cnt) == ~ bitmap_contains(b, start, cnt, FALSE)

(* Mutant: the last possible start is forgotten. *)
bitmap_scan_short(b, start, cnt, value) ==
  LET hits == {i \in start .. b.cnt - cnt - 1 : ~ bitmap_contains(b, i, cnt, ~ value)} IN
  IF cnt > b.cnt \/ hits = {} THEN BITMAP_ERROR
  ELSE CHOOSE i \in hits : \A j \in hits : i <= j

bitmap_scan(b, start, cnt, value) ==
  LET hits == {i \in start .. b.cnt - cnt : ~ bitmap_contains(b, i, cnt, ~ value)} IN
  IF cnt > b.cnt \/ hits = {} THEN BITMAP_ERROR
  ELSE CHOOSE i \in hits : \A j \in hits : i <= j

(* The new bitmap and the index. *)
bitmap_scan_and_flip(b, start, cnt, value) ==
  LET idx == bitmap_scan(b, start, cnt, value) IN
  [b |-> IF idx = BITMAP_ERROR THEN b ELSE bitmap_set_multiple(b, idx, cnt, ~ value),
   idx |-> idx]

(* bitmap_read: the words of the file; what lies beyond the last bit is      *)
(* masked out of the last word.                                              *)
bitmap_read(b, words) ==
  LET n == elem_cnt(b.cnt) IN
  IF b.cnt = 0 THEN b
  ELSE [b EXCEPT !.bits = [e \in 1 .. n |->
          IF e = n THEN words[e] % (last_mask(b.cnt) + 1) ELSE words[e]]]
-----------------------------------------------------------------------------
vars == <<bitmap, set>>

Bits == 0 .. Cnt - 1

(* The buffer holds anything; the words of it that matter are the last one,  *)
(* which has bits beyond the end, and one other.                             *)
Init ==
  /\ \E w \in 0 .. 2 ^ ELEM_BITS - 1 :
       bitmap = bitmap_create(Cnt, [e \in 1 .. elem_cnt(Cnt) |-> w])
  /\ set = {}

Change(B, value) == IF value THEN set \cup B ELSE set \ B

SetMultiple(start, cnt, value) ==
  /\ bitmap' = bitmap_set_multiple(bitmap, start, cnt, value)
  /\ set' = Change(start .. start + cnt - 1, value)

Flip(i) ==
  /\ bitmap' = bitmap_flip(bitmap, i)
  /\ set' = IF i \in set THEN set \ {i} ELSE set \cup {i}

(* The runs of cnt bits with this value from start on. *)
Runs(start, cnt, value) ==
  {i \in start .. Cnt : i + cnt <= Cnt /\ \A j \in i .. i + cnt - 1 : (j \in set) = value}

ScanAndFlip(start, cnt, value) ==
  /\ bitmap' = bitmap_scan_and_flip(bitmap, start, cnt, value).b
  /\ LET runs == Runs(start, cnt, value)
         first == CHOOSE i \in runs : \A j \in runs : i <= j
     IN  set' = IF runs = {} THEN set ELSE Change(first .. first + cnt - 1, ~ value)

(* bitmap_write to a file, and bitmap_read of it at the next boot. *)
Reload ==
  /\ bitmap' = bitmap_read(bitmap, bitmap.bits)
  /\ UNCHANGED set

Next ==
  \/ \E start \in 0 .. Cnt, value \in BOOLEAN : \E cnt \in 0 .. Cnt - start :
       SetMultiple(start, cnt, value) \/ ScanAndFlip(start, cnt, value)
  \/ \E i \in Bits : Flip(i)
  \/ Reload

Spec == Init /\ [][Next]_vars

(* The packed words are the set of bits, across word boundaries and at the   *)
(* end of the last word, after any calls: test, count, contains, any, none,  *)
(* all and scan give what the set says, whatever lies beyond the last bit.   *)
(* The first group of no bits at or after START is at START: that is what    *)
(* bitmap_scan_and_flip returns too, where its comment says 0.               *)
BitmapIsSet ==
  /\ \A i \in Bits : bitmap_test(bitmap, i) <=> i \in set
  /\ \A start \in 0 .. Cnt : \A cnt \in 0 .. Cnt - start : \A value \in BOOLEAN :
       LET B == {i \in start .. start + cnt - 1 : (i \in set) = value}
           runs == Runs(start, cnt, value)
       IN  /\ bitmap_count(bitmap, start, cnt, value) = Cardinality(B)
           /\ bitmap_contains(bitmap, start, cnt, value) <=> B # {}
           /\ bitmap_any(bitmap, start, cnt) <=> \E i \in start .. start + cnt - 1 : i \in set
           /\ bitmap_none(bitmap, start, cnt) <=> ~ bitmap_any(bitmap, start, cnt)
           /\ bitmap_all(bitmap, start, cnt) <=> start .. start + cnt - 1 \subseteq set
           /\ bitmap_scan(bitmap, start, cnt, value) =
                IF runs = {} THEN BITMAP_ERROR ELSE CHOOSE i \in runs : \A j \in runs : i <= j
           /\ cnt = 0 => bitmap_scan_and_flip(bitmap, start, cnt, value).idx = start
=============================================================================
