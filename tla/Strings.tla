------------------------------ MODULE Strings -------------------------------
(* The functions of lib/string.c on a memory m of bytes; 0 ends a string and *)
(* pointers are addresses.  Loops are written as in the code, byte by byte.  *)
EXTENDS Integers, Sequences, SequencesExt, FiniteSetsExt

Null == -1

RECURSIVE Forward(_, _, _, _)
Forward(m, dst, src, size) ==
  IF size = 0 THEN m ELSE Forward([m EXCEPT ![dst] = m[src]], dst + 1, src + 1, size - 1)

RECURSIVE Backward(_, _, _, _)
Backward(m, dst, src, size) ==
  IF size = 0 THEN m ELSE Backward([m EXCEPT ![dst - 1] = m[src - 1]], dst - 1, src - 1, size - 1)

memcpy(m, dst, src, size) == Forward(m, dst, src, size)

(* The memory, and the pointer that is returned: dst where the loop left it. *)
memmove(m, dst, src, size) ==
  IF dst < src THEN [m |-> Forward(m, dst, src, size), ret |-> dst + size]
               ELSE [m |-> Backward(m, dst + size, src + size, size), ret |-> dst]

RECURSIVE memset(_, _, _, _)
memset(m, dst, value, size) == IF size = 0 THEN m ELSE memset([m EXCEPT ![dst] = value], dst + 1, value, size - 1)

RECURSIVE memcmp(_, _, _, _)
memcmp(m, a, b, size) ==
  IF size = 0 THEN 0
  ELSE IF m[a] # m[b] THEN (IF m[a] > m[b] THEN 1 ELSE -1)
  ELSE memcmp(m, a + 1, b + 1, size - 1)

RECURSIVE strcmp(_, _, _)
strcmp(m, a, b) ==
  IF m[a] # 0 /\ m[a] = m[b] THEN strcmp(m, a + 1, b + 1)
  ELSE IF m[a] < m[b] THEN -1 ELSE IF m[a] > m[b] THEN 1 ELSE 0

RECURSIVE memchr(_, _, _, _)
memchr(m, p, ch, size) ==
  IF size = 0 THEN Null ELSE IF m[p] = ch THEN p ELSE memchr(m, p + 1, ch, size - 1)

RECURSIVE strchr(_, _, _)
strchr(m, p, c) == IF m[p] = c THEN p ELSE IF m[p] = 0 THEN Null ELSE strchr(m, p + 1, c)

RECURSIVE strcspn(_, _, _)
strcspn(m, p, stop) ==
  IF m[p] = 0 \/ strchr(m, stop, m[p]) # Null THEN 0 ELSE 1 + strcspn(m, p + 1, stop)

RECURSIVE strpbrk(_, _, _)
strpbrk(m, p, stop) ==
  IF m[p] = 0 THEN Null ELSE IF strchr(m, stop, m[p]) # Null THEN p ELSE strpbrk(m, p + 1, stop)

RECURSIVE LastFrom(_, _, _, _)
LastFrom(m, p, c, found) ==
  IF m[p] = 0 THEN found ELSE LastFrom(m, p + 1, c, IF m[p] = c THEN p ELSE found)
strrchr(m, p, c) == LastFrom(m, p, c, Null)

RECURSIVE strspn(_, _, _)
strspn(m, p, skip) ==
  IF m[p] = 0 \/ strchr(m, skip, m[p]) = Null THEN 0 ELSE 1 + strspn(m, p + 1, skip)

RECURSIVE strlen(_, _)
strlen(m, p) == IF m[p] = 0 THEN 0 ELSE 1 + strlen(m, p + 1)

RECURSIVE strnlen(_, _, _)
strnlen(m, p, maxlen) == IF m[p] = 0 \/ maxlen = 0 THEN 0 ELSE 1 + strnlen(m, p + 1, maxlen - 1)

RECURSIVE StrstrFrom(_, _, _, _)
StrstrFrom(m, p, needle, i) ==
  IF i > strlen(m, p) - strlen(m, needle) THEN Null
  ELSE IF memcmp(m, p + i, needle, strlen(m, needle)) = 0 THEN p + i
  ELSE StrstrFrom(m, p, needle, i + 1)
strstr(m, p, needle) ==
  IF strlen(m, p) >= strlen(m, needle) THEN StrstrFrom(m, p, needle, 0) ELSE Null

(* strtok_r from s: the memory, the token and the saved position. *)
RECURSIVE EndOfToken(_, _, _)
EndOfToken(m, s, d) == IF strchr(m, d, m[s]) = Null THEN EndOfToken(m, s + 1, d) ELSE s

RECURSIVE strtok_r(_, _, _)
strtok_r(m, s, d) ==
  IF strchr(m, d, m[s]) # Null
    THEN IF m[s] = 0 THEN [m |-> m, token |-> Null, save |-> s] ELSE strtok_r(m, s + 1, d)
    ELSE LET e == EndOfToken(m, s, d)
         IN  IF m[e] # 0 THEN [m |-> [m EXCEPT ![e] = 0], token |-> s, save |-> e + 1]
                         ELSE [m |-> m, token |-> s, save |-> e]

(* The memory, and the length that is returned. *)
strlcpy(m, dst, src, size) ==
  LET n == Min({strlen(m, src), size - 1})
  IN  [m |-> IF size > 0 THEN [memcpy(m, dst, src, n) EXCEPT ![dst + n] = 0] ELSE m,
       ret |-> strlen(m, src)]

strlcat(m, dst, src, size) ==
  LET at == strlen(m, dst)
      n == Min({strlen(m, src), size - at - 1})
  IN  [m |-> IF size > 0 /\ at < size THEN [memcpy(m, dst + at, src, n) EXCEPT ![dst + at + n] = 0] ELSE m,
       ret |-> strlen(m, src) + at]
-----------------------------------------------------------------------------
(* The string at p, as a sequence. *)
Str(m, p) == [i \in 1 .. Min({x \in DOMAIN m : x >= p /\ m[x] = 0}) - p |-> m[p + i - 1]]

RECURSIVE AllTokens(_, _, _)
AllTokens(m, s, d) ==
  LET r == strtok_r(m, s, d)
  IN  IF r.token = Null THEN <<>> ELSE <<Str(r.m, r.token)>> \o AllTokens(r.m, r.save, d)

(* The longest runs of characters outside D, in order. *)
Split(s, D) ==
  LET starts == {i \in DOMAIN s : s[i] \notin D /\ (i = 1 \/ s[i - 1] \in D)}
      end(i) == Max({j \in i .. Len(s) : \A k \in i .. j : s[k] \notin D})
      is == SetToSortSeq(starts, LAMBDA x, y : x < y)
  IN  [n \in DOMAIN is |-> SubSeq(s, is[n], end(is[n]))]

First(S) == IF S = {} THEN Null ELSE Min(S)

(* Every function gives, for any two strings and any block in memory, what   *)
(* the words of its comment say of sequences: memmove copies as if through a *)
(* buffer however the blocks overlap, the searches find the first (or last)  *)
(* place, strtok_r splits at the delimiters, and strlcpy and strlcat write   *)
(* at most size bytes with a terminator and return the length aimed at.      *)
(* Two cases are stated as the code has them, against the comment: memmove   *)
(* returns the end of the block, not DST, when it copies to a lower address, *)
(* and strlcat writes nothing, no terminator either, to a DST that is        *)
(* already SIZE characters long.                                             *)
StringsAreRight(m, p, q, size) ==
  LET a == Str(m, p)
      b == Str(m, q)
      Pos(P(_)) == First({p + i - 1 : i \in {j \in DOMAIN a : P(j)}})
      sub(i) == \A k \in DOMAIN b : i + k - 1 <= Len(a) /\ a[i + k - 1] = b[k]
      cut(s) == SubSeq(s, 1, Min({Len(s), size - 1}))
      differ == {i \in 0 .. size - 1 : m[p + i] # m[q + i]}
      apart == q > p + Len(a) + size
  IN  /\ memmove(m, q, p, size) =
           [m |-> [x \in DOMAIN m |-> IF x \in q .. q + size - 1 THEN m[p + x - q] ELSE m[x]],
            ret |-> IF q < p THEN q + size ELSE q]
      /\ memset(m, p, 1, size) = [x \in DOMAIN m |-> IF x \in p .. p + size - 1 THEN 1 ELSE m[x]]
      /\ memcmp(m, p, q, size) = IF differ = {} THEN 0
                                 ELSE IF m[p + Min(differ)] > m[q + Min(differ)] THEN 1 ELSE -1
      /\ (strcmp(m, p, q) = 0) = (a = b)
      /\ strcmp(m, p, q) = -strcmp(m, q, p)
      /\ memchr(m, p, 1, size) = First({x \in p .. p + size - 1 : m[x] = 1})
      /\ strchr(m, p, 1) = Pos(LAMBDA i : a[i] = 1)
      /\ strrchr(m, p, 1) = LET S == {i \in DOMAIN a : a[i] = 1} IN IF S = {} THEN Null ELSE p + Max(S) - 1
      /\ strpbrk(m, p, q) = Pos(LAMBDA i : a[i] \in ToSet(b))
      /\ strcspn(m, p, q) = Min({Len(a)} \cup {i - 1 : i \in {j \in DOMAIN a : a[j] \in ToSet(b)}})
      /\ strspn(m, p, q) = Min({Len(a)} \cup {i - 1 : i \in {j \in DOMAIN a : a[j] \notin ToSet(b)}})
      /\ strnlen(m, p, size) = Min({size, strlen(m, p)})
      /\ strstr(m, p, q) = First({p + i - 1 : i \in {j \in 1 .. Len(a) + 1 : sub(j)}})
      /\ AllTokens(m, p, q) = Split(a, ToSet(b)) \/ q \in p .. p + Len(a)
      /\ apart /\ size > 0 =>
           /\ Str(strlcpy(m, p, q, size).m, p) = cut(b)
           /\ IF Len(a) < size THEN Str(strlcat(m, p, q, size).m, p) = cut(a \o b)
              ELSE strlcat(m, p, q, size).m = m
      /\ strlcpy(m, p, q, size).ret = Len(b) /\ strlcat(m, p, q, size).ret = Len(a) + Len(b)
=============================================================================
