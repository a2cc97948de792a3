---------------------------- MODULE BoundedQueue ----------------------------
(***************************************************************************)
(* What an interrupt queue promises: bytes come out in the order in which  *)
(* they went in, each of them once, and at most Capacity are inside.       *)
(***************************************************************************)
EXTENDS Naturals, Sequences

CONSTANTS Byte, Capacity

VARIABLES
  q,     \* the bytes inside, oldest first
  given, \* the byte that was put last (any byte at first)
  taken  \* the byte that was removed last (any byte at first)

Init == q = <<>> /\ given \in Byte /\ taken \in Byte

Put(b) ==
  /\ Len(q) < Capacity
  /\ q' = Append(q, b)
  /\ given' = b
  /\ UNCHANGED taken

Get ==
  /\ q # <<>>
  /\ taken' = Head(q)
  /\ q' = Tail(q)
  /\ UNCHANGED given

(* A full queue gives up its oldest byte to make room in one operation. *)
Replace(b) ==
  /\ q # <<>>
  /\ taken' = Head(q)
  /\ given' = b
  /\ q' = Append(Tail(q), b)

Next == Get \/ \E b \in Byte : Put(b) \/ Replace(b)

Spec == Init /\ [][Next]_<<q, given, taken>>
=============================================================================
