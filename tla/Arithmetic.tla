----------------------------- MODULE Arithmetic -----------------------------
(* The 64-bit division of lib/arithmetic.c, on 2 * W bits with W-bit halves  *)
(* (W is 32 in the code), the number parsing, sorting and searching of       *)
(* lib/stdlib.c, and the random numbers of lib/random.c on W-bit bytes.      *)
EXTENDS Integers, Sequences, SequencesExt, FiniteSets

CONSTANT W

B == 2 ^ W                  \* the code's b
BB == B * B
U(x) == x % BB              \* an unsigned double word

Trap == -1                  \* a divide error

(* DIVL: double word by word, with the quotient in a word. *)
divl(n, d) == IF d = 0 \/ n \div d >= B THEN Trap ELSE n \div d

(* The number of leading zero bits of the word x: halves, quarters... *)
RECURSIVE NlzFrom(_, _)
NlzFrom(x, k) ==
  IF k = 0 THEN 0
  ELSE IF x <= 2 ^ (W - k) - 1 THEN k + NlzFrom((x * 2 ^ k) % B, k \div 2)
                               ELSE NlzFrom(x, k \div 2)
nlz(x) == NlzFrom(x, W \div 2)

(* Mutant: the estimate is taken as it is. *)
udiv64_estimate(n, d) ==
  IF d \div B = 0
    THEN LET q == divl(B * ((n \div B) % d) + (n % B), d) IN IF q = Trap THEN Trap ELSE q + B * ((n \div B) \div d)
    ELSE IF n < d THEN 0
    ELSE LET s == nlz(d \div B) IN divl(n \div 2, U(d * 2 ^ s) \div B) \div 2 ^ (W - 1 - s)

udiv64(n, d) ==
  IF d \div B = 0
    THEN LET q == divl(B * ((n \div B) % d) + (n % B), d) IN IF q = Trap THEN Trap ELSE q + B * ((n \div B) \div d)
    ELSE IF n < d THEN 0
    ELSE LET s == nlz(d \div B)
             q0 == divl(n \div 2, U(d * 2 ^ s) \div B)
             q == q0 \div 2 ^ (W - 1 - s)
         IN  IF q0 = Trap THEN Trap
             ELSE IF U(n - (q - 1) * d) < d THEN q - 1 ELSE q

(* The remainders are returned in a single word. *)
umod64(n, d) == U(n - d * udiv64(n, d)) % B

Signed(x) == IF x >= BB \div 2 THEN x - BB ELSE x
SignedWord(x) == LET w == x % B IN IF w >= B \div 2 THEN w - B ELSE w
Abs(x) == IF x >= 0 THEN x ELSE -x

sdiv64(n, d) ==
  LET q == udiv64(U(Abs(n)), U(Abs(d)))
  IN  IF (n < 0) = (d < 0) THEN Signed(q) ELSE Signed(U(-Signed(q)))

smod64(n, d) == SignedWord(n - d * sdiv64(n, d))

(* Division as in mathematics, rounded towards zero. *)
Quotient(n, d) == IF (n < 0) = (d < 0) THEN Abs(n) \div Abs(d) ELSE -(Abs(n) \div Abs(d))

(* udiv64 never traps and gives the quotient, for every dividend and every   *)
(* divisor but 0; so do the signed forms; the remainders are right for       *)
(* divisors of up to W - 1 bits, which are what the kernel divides by.       *)
DivisionIsRight(n, d) ==
  /\ udiv64(n, d) = n \div d
  /\ d < B => umod64(n, d) = n % d
  /\ LET sn == Signed(n)
         sd == Signed(d)
     IN  sd # 0 /\ ~ (sn = -(BB \div 2) /\ sd = -1) =>
           /\ sdiv64(sn, sd) = Quotient(sn, sd)
           /\ Abs(sd) < B \div 2 => smod64(sn, sd) = sn - sd * Quotient(sn, sd)
-----------------------------------------------------------------------------
(* heapify: float element i of a down in the heap of the first cnt. *)
RECURSIVE heapify(_, _, _)
heapify(a, i, cnt) ==
  LET left  == 2 * i
      right == 2 * i + 1
      m1 == IF left <= cnt /\ a[left] > a[i] THEN left ELSE i
      max == IF right <= cnt /\ a[right] > a[m1] THEN right ELSE m1
  IN  IF max = i THEN a ELSE heapify([a EXCEPT ![i] = a[max], ![max] = a[i]], max, cnt)

RECURSIVE BuildHeap(_, _)
BuildHeap(a, i) == IF i = 0 THEN a ELSE BuildHeap(heapify(a, i, Len(a)), i - 1)

RECURSIVE SortHeap(_, _)
SortHeap(a, i) ==
  IF i <= 1 THEN a ELSE SortHeap(heapify([a EXCEPT ![1] = a[i], ![i] = a[1]], 1, i - 1), i - 1)

sort(a) == SortHeap(BuildHeap(a, Len(a) \div 2), Len(a))

(* binary_search in a[first] .. a[last - 1]; 0 is the null pointer. *)
RECURSIVE SearchRange(_, _, _, _)
SearchRange(key, a, first, last) ==
  LET middle == first + (last - first) \div 2
  IN  IF first >= last THEN 0
      ELSE IF key < a[middle] THEN SearchRange(key, a, first, middle)
      ELSE IF key > a[middle] THEN SearchRange(key, a, middle + 1, last)
      ELSE middle

binary_search(key, a) == SearchRange(key, a, 1, Len(a) + 1)

Copies(x, a) == Cardinality({i \in DOMAIN a : a[i] = x})

(* sort returns the elements in order, each as often as before, and          *)
(* binary_search of the result finds a key if and only if it is there.       *)
SortIsRight(a, key) ==
  LET s == sort(a)
  IN  /\ \A i, j \in DOMAIN s : i < j => s[i] <= s[j]
      /\ Len(s) = Len(a) /\ \A x \in ToSet(a) : Copies(x, a) = Copies(x, s)
      /\ LET i == binary_search(key, s) IN IF key \in ToSet(a) THEN i # 0 /\ s[i] = key ELSE i = 0
-----------------------------------------------------------------------------
(* Characters are numbers; 10 is white space, 11 '+', 12 '-', 0 .. 9 digits. *)
Wrap(x) == ((x + B \div 2) % B) - B \div 2       \* wraps around, as int does

RECURSIVE Skip(_)
Skip(s) == IF s # <<>> /\ Head(s) = 10 THEN Skip(Tail(s)) ELSE s

(* The value is built as a negative number. *)
RECURSIVE Digits(_, _)
Digits(s, value) ==
  IF s = <<>> \/ Head(s) > 9 THEN value ELSE Digits(Tail(s), Wrap(value * 10 - Head(s)))

atoi(s) ==
  LET t == Skip(s)
      negative == t # <<>> /\ Head(t) = 12
      v == Digits(IF t # <<>> /\ Head(t) \in {11, 12} THEN Tail(t) ELSE t, 0)
  IN  IF negative THEN v ELSE Wrap(-v)

RECURSIVE Decimal(_)
Decimal(n) == IF n < 10 THEN <<n>> ELSE Append(Decimal(n \div 10), n % 10)

(* atoi reads back every number that an int can hold, the most negative one  *)
(* included, after white space and with or without a sign.                   *)
AtoiIsRight(n) ==
  /\ n < 0 => atoi(<<10, 12>> \o Decimal(-n)) = n
  /\ n >= 0 => atoi(Decimal(n)) = n /\ atoi(<<10, 10, 11>> \o Decimal(n) \o <<10>>) = n
-----------------------------------------------------------------------------
swap_byte(s, i, j) == [s EXCEPT ![i] = s[j], ![j] = s[i]]

RECURSIVE Mix(_, _, _, _)
Mix(s, i, j, seedp) ==
  IF i = B THEN s
  ELSE LET k == (j + s[i] + seedp[(i % Len(seedp)) + 1]) % B IN Mix(swap_byte(s, i, k), i + 1, k, seedp)

random_init(seedp) == [s |-> Mix([i \in 0 .. B - 1 |-> i], 0, 0, seedp), i |-> 0, j |-> 0]

(* random_bytes, for one byte: the generator afterwards. *)
random_bytes(r) ==
  LET i == (r.i + 1) % B
      j == (r.j + r.s[i]) % B
  IN  [s |-> swap_byte(r.s, i, j), i |-> i, j |-> j]

(* The table of the random number generator stays a permutation of the       *)
(* bytes, whatever the seed and however many bytes are drawn, so that every  *)
(* byte can still come up.                                                   *)
RandomIsRight(r) == {r.s[k] : k \in 0 .. B - 1} = 0 .. B - 1
=============================================================================
