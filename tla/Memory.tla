------------------------------- MODULE Memory -------------------------------
(***************************************************************************)
(* What virtual memory promises to user programs: every process has pages  *)
(* of its own, and a page holds what the process wrote to it last.         *)
(***************************************************************************)
CONSTANTS Proc, FilePage, StackPage, Val, FileVal, NULL

UPage == FilePage \cup StackPage

VARIABLES
  mem,    \* what each page of each process holds, NULL if it has no such page
  last    \* the last access of a program

Init == mem = [p \in Proc |-> [u \in UPage |-> NULL]] /\ last = NULL

(* A program starts with the pages of its executable. *)
Start(p) ==
  /\ \A u \in UPage : mem[p][u] = NULL
  /\ mem' = [mem EXCEPT ![p] = [u \in UPage |-> IF u \in FilePage THEN FileVal ELSE NULL]]
  /\ UNCHANGED last

(* A stack page comes with some contents. *)
Grow(p, u) ==
  /\ u \in StackPage /\ mem[p][u] = NULL
  /\ \E v \in Val : mem' = [mem EXCEPT ![p][u] = v]
  /\ UNCHANGED last

Write(p, u, v) ==
  /\ mem[p][u] # NULL
  /\ mem' = [mem EXCEPT ![p][u] = v]
  /\ last' = <<"write", p, u, v>>

Read(p, u) ==
  /\ mem[p][u] # NULL
  /\ last' = <<"read", p, u, mem[p][u]>>
  /\ UNCHANGED mem

Exit(p) ==
  /\ mem' = [mem EXCEPT ![p] = [u \in UPage |-> NULL]]
  /\ UNCHANGED last

Next ==
  \E p \in Proc :
    \/ Start(p) \/ Exit(p)
    \/ \E u \in UPage : Read(p, u) \/ Grow(p, u) \/ \E v \in Val : Write(p, u, v)

Spec == Init /\ [][Next]_<<mem, last>>
=============================================================================
