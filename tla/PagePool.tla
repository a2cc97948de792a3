------------------------------ MODULE PagePool ------------------------------
(* What the page allocator promises: pages are given out to one caller at a  *)
(* time, as runs of neighbours of one pool, and nobody but that caller       *)
(* changes what is in them until they are given back.                        *)
EXTENDS Naturals

CONSTANTS Thread, Page, Pools,
          Byte,       \* what callers write
          Filling     \* what the allocator itself writes

VARIABLES held,      \* the pages of each thread, each with whether it was asked to be zero
          content    \* what is in the pages

vars == <<held, content>>

Pages(t) == {h[1] : h \in held[t]}

Init == held = [t \in Thread |-> {}] /\ content \in [Page -> Byte \cup Filling]

(* Pages that nobody holds may hold anything, and change at any time. *)
HeldKept ==
  /\ content' \in [Page -> Byte \cup Filling]
  /\ \A t \in Thread : \A p \in Pages(t) : content'[p] = content[p]

Get(t, zero) ==
  /\ \E pool \in Pools : \E first, last \in pool :
       LET run == first .. last IN
       /\ first <= last
       /\ run \subseteq pool
       /\ \A s \in Thread : run \cap Pages(s) = {}
       /\ held' = [held EXCEPT ![t] = @ \cup (run \X {zero})]
       /\ zero => \A p \in run : content'[p] = 0
  /\ HeldKept

Use(t) ==
  /\ \E p \in Pages(t), b \in Byte : content' = [content EXCEPT ![p] = b]
  /\ UNCHANGED held

(* The pages that a caller gives back are no longer its own from the moment  *)
(* of the call.                                                              *)
Free(t) ==
  /\ \E runs \in SUBSET held[t] : held' = [held EXCEPT ![t] = @ \ runs]
  /\ content' = content

Idle == UNCHANGED held /\ HeldKept

Next == Idle \/ \E t \in Thread : Use(t) \/ Free(t) \/ \E z \in BOOLEAN : Get(t, z)

Spec == Init /\ [][Next]_vars
=============================================================================
