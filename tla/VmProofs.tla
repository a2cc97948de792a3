------------------------------ MODULE VmProofs ------------------------------
(***************************************************************************)
(* Proofs about virtual memory.  For any number of processes that fault,   *)
(* evict and exit at the same time, until an eviction is disturbed: the    *)
(* frame table names no process that is gone (FrameOwnersAlive), and the   *)
(* count of occupied frames is not too high (NeverEvictsEarly).  For a     *)
(* process that runs alone: the invariant AInv, which says at every step   *)
(* of the kernel where each page is and what its tables say of it, whence  *)
(* frame table, page tables and swap table agree (TablesAgree), and paging *)
(* is invisible to programs (ImplementsMemory).                            *)
(***************************************************************************)
EXTENDS Vm, FiniteSetTheorems, TLAPS

(* Where a process is in frame_evict. *)
Evict1 == {"scan", "reset", "unmap", "swapout", "swapping", "upage", "pagedir", "location", "kpage",
           "pointer", "count", "result", "tick", "wrap"}

(* Where a process is while the kernel looks for a frame and fills it. *)
Serving == Evict1 \cup {"find", "nothing", "fill", "install"}

Label == Serving \cup {"out", "mark", "run", "exit", "free", "freed", "dead"}

Page == Proc \X UPage

(* The values that the variables of Vm can have. *)
PageType ==
  /\ location \in [Proc -> [UPage -> {"none", "filesys", "frame", "swap"}]]
  /\ kpage \in [Proc -> [UPage -> Frame \cup {NULL}]]
  /\ swap_location \in [Proc -> [UPage -> Slot \cup {NULL}]]
  /\ pte \in [Proc -> [UPage -> Frame \cup {NULL}]]
  /\ accessed \in [Proc -> [UPage -> BOOLEAN]]

FrameType ==
  /\ frame_upage \in [Frame -> UPage \cup {NULL}]
  /\ frame_pagedir \in [Frame -> Proc \cup {NULL}]
  /\ page_pointer \in [Frame -> Page \cup {NULL}]
  /\ occupancy \in Int /\ clock_pointer \in Nat

DataType ==
  /\ used \in SUBSET Slot
  /\ data \in [Frame -> Val] /\ disk \in [Slot -> Val]

LocalType ==
  /\ pc \in [Proc -> Label]
  /\ upage \in [Proc -> UPage \cup {NULL}]
  /\ kp \in [Proc -> Frame \cup {NULL}]
  /\ victim \in [Proc -> Page \cup {NULL}]
  /\ slot \in [Proc -> Slot \cup {NULL}]

TypeOK == PageType /\ FrameType /\ DataType /\ LocalType

(* A process that is served has a page, and later a frame. *)
PlaceOK ==
  ~ panic => \A p \in Proc :
    /\ pc[p] \in Serving \cup {"mark", "free", "freed"} => upage[p] \in UPage
    /\ pc[p] \in {"swapping", "fill", "install", "mark"} => kp[p] \in Frame

-----------------------------------------------------------------------------
(* The alternatives of the actions that have several, one operator each.     *)

(* frame_find_empty returns frame i. *)
Found(p, i) ==
  /\ pc[p] = "find" /\ frame_upage[i] = NULL
  /\ kp' = [kp EXCEPT ![p] = i] /\ Goto(p, "fill")
  /\ UNCHANGED <<spt, pte, accessed, frames, swap, data, upage, victim, slot, last, panic>>

(* It returns a null pointer. *)
FoundNone(p) ==
  /\ pc[p] = "find" /\ occupancy < TOTAL_PAGES /\ Empty = {}
  /\ kp' = [kp EXCEPT ![p] = NULL] /\ Goto(p, "nothing")
  /\ UNCHANGED <<spt, pte, accessed, frames, swap, data, upage, victim, slot, last, panic>>

(* It calls frame_evict. *)
MustEvict(p) ==
  /\ pc[p] = "find" /\ occupancy >= TOTAL_PAGES
  /\ kp' = [kp EXCEPT ![p] = NULL] /\ Goto(p, "scan")
  /\ UNCHANGED <<spt, pte, accessed, frames, swap, data, upage, victim, slot, last, panic>>

(* Stack growth got no frame: the program faults again. *)
Retry(p) ==
  /\ pc[p] = "nothing" /\ Goto(p, "run") /\ Forget(p)
  /\ UNCHANGED <<spt, pte, accessed, frames, swap, data, victim, slot, last, panic>>

(* The kernel stops. *)
Halt(p) ==
  /\ pc[p] \in Evict1 \cup {"nothing", "fill"} /\ panic'
  /\ UNCHANGED <<spt, pte, accessed, frames, swap, data, pc, victim, slot, last>>
  /\ Forget(p) \/ UNCHANGED <<upage, kp>>

(* frame_evict takes page w of q, or the page at address 0. *)
Unmapping(p, q, w) ==
  /\ pc[p] = "unmap" /\ Directory
  /\ frame_pagedir[clock_pointer] = q /\ frame_upage[clock_pointer] = w
  /\ pte' = [pte EXCEPT ![q][w] = NULL] /\ Goto(p, "swapout")
  /\ UNCHANGED <<spt, accessed, frames, swap, data, upage, kp, victim, slot, last, panic>>

UnmapsNone(p) ==
  /\ pc[p] = "unmap" /\ Directory /\ frame_upage[clock_pointer] = NULL
  /\ Goto(p, "swapout")
  /\ UNCHANGED <<spt, pte, accessed, frames, swap, data, upage, kp, victim, slot, last, panic>>

(* Page w of q is written to slot s. *)
SwapOut(p, q, w, s) ==
  /\ pc[p] = "swapping" /\ victim[p] = <<q, w>> /\ slot[p] = s
  /\ used' = used \cup {s}
  /\ swap_location' = [swap_location EXCEPT ![q][w] = s]
  /\ disk' = [disk EXCEPT ![s] = data[kp[p]]]
  /\ Goto(p, "upage") /\ kp' = [kp EXCEPT ![p] = NULL]
  /\ victim' = [victim EXCEPT ![p] = NULL] /\ slot' = [slot EXCEPT ![p] = NULL]
  /\ UNCHANGED <<location, kpage, pte, accessed, frames, data, upage, last, panic>>

(* Frame i, which held page w of q, is being emptied. *)
InSwap(p, i, q, w) ==
  /\ pc[p] = "location" /\ clock_pointer = i /\ page_pointer[i] = <<q, w>>
  /\ location' = [location EXCEPT ![q][w] = "swap"] /\ Goto(p, "kpage")
  /\ UNCHANGED <<kpage, swap_location, pte, accessed, frames, swap, data, upage, kp, victim, slot,
                 last, panic>>

OutOfFrame(p, i, q, w) ==
  /\ pc[p] = "kpage" /\ clock_pointer = i /\ page_pointer[i] = <<q, w>>
  /\ kpage' = [kpage EXCEPT ![q][w] = NULL] /\ Goto(p, "pointer")
  /\ UNCHANGED <<location, swap_location, pte, accessed, frames, swap, data, upage, kp, victim, slot,
                 last, panic>>

FromFile(p, u, i) ==
  /\ pc[p] = "fill" /\ upage[p] = u /\ kp[p] = i /\ location[p][u] = "filesys"
  /\ data' = [data EXCEPT ![i] = FileVal] /\ Goto(p, "install")
  /\ UNCHANGED <<spt, pte, accessed, frames, swap, upage, kp, victim, slot, last, panic>>

FromSwap(p, u, i, s) ==
  /\ pc[p] = "fill" /\ upage[p] = u /\ kp[p] = i
  /\ location[p][u] = "swap" /\ swap_location[p][u] = s
  /\ data' = [data EXCEPT ![i] = disk[s]] /\ used' = used \ {s}
  /\ swap_location' = [swap_location EXCEPT ![p][u] = NULL] /\ Goto(p, "install")
  /\ UNCHANGED <<location, kpage, pte, accessed, frames, disk, upage, kp, victim, slot, last, panic>>

NewStack(p, u) ==
  /\ pc[p] = "fill" /\ upage[p] = u /\ location[p][u] = "none"
  /\ location' = [location EXCEPT ![p][u] = "frame"] /\ Goto(p, "install")
  /\ UNCHANGED <<kpage, swap_location, pte, accessed, frames, swap, data, upage, kp, victim, slot,
                 last, panic>>

Installed(p, u, i) ==
  /\ pc[p] = "install" /\ upage[p] = u /\ kp[p] = i
  /\ pte[p][u] = NULL /\ frame_upage[i] = NULL
  /\ pte' = [pte EXCEPT ![p][u] = i] /\ accessed' = [accessed EXCEPT ![p][u] = FALSE]
  /\ frame_upage' = [frame_upage EXCEPT ![i] = u]
  /\ frame_pagedir' = [frame_pagedir EXCEPT ![i] = p]
  /\ page_pointer' = [page_pointer EXCEPT ![i] = <<p, u>>] /\ occupancy' = occupancy + 1
  /\ Goto(p, "mark")
  /\ UNCHANGED <<spt, clock_pointer, swap, data, upage, kp, victim, slot, last, panic>>

Marked(p, u, i) ==
  /\ pc[p] = "mark" /\ upage[p] = u /\ kp[p] = i
  /\ location' = [location EXCEPT ![p][u] = "frame"]
  /\ kpage' = [kpage EXCEPT ![p][u] = i]
  /\ Goto(p, "run") /\ Forget(p)
  /\ UNCHANGED <<swap_location, pte, accessed, frames, swap, data, victim, slot, last, panic>>

Freed(p, k) ==
  /\ pc[p] = "free" /\ kp[p] = k /\ FrameFree(k) /\ Goto(p, "freed")
  /\ UNCHANGED <<spt, pte, accessed, clock_pointer, swap, data, upage, kp, victim, slot, last, panic>>

Cleared(p, u) ==
  /\ pc[p] = "freed" /\ upage[p] = u
  /\ kpage' = [kpage EXCEPT ![p][u] = NULL]
  /\ location' = [location EXCEPT ![p][u] = "none"]
  /\ Goto(p, "exit") /\ Forget(p)
  /\ UNCHANGED <<swap_location, pte, accessed, frames, swap, data, victim, slot, last, panic>>

(* The fault ends in exit (-1), k is the frame that is given back. *)
Quit(p, k) ==
  /\ \/ pc[p] = "nothing" /\ k = NULL
     \/ pc[p] = "swapping" /\ k = NULL /\ victim[p] = NULL
     \/ /\ pc[p] \in {"location", "kpage"} /\ k = NULL
        /\ clock_pointer \in Frame /\ page_pointer[clock_pointer] = NULL
     \/ pc[p] = "fill" /\ k = kp[p] /\ Failures
     \/ pc[p] = "install" /\ k = kp[p] /\ (pte[p][upage[p]] # NULL \/ Failures)
     \/ pc[p] = "install" /\ k = NULL /\ frame_upage[kp[p]] # NULL
  /\ FrameFree(k) /\ Goto(p, "exit") /\ Forget(p)
  /\ \E b \in [UPage -> Frame \cup {NULL}] : pte' = [pte EXCEPT ![p] = b]
  /\ \E b \in [UPage -> BOOLEAN] : accessed' = [accessed EXCEPT ![p] = b]
  /\ victim' = [victim EXCEPT ![p] = NULL] \/ UNCHANGED victim
  /\ slot' = [slot EXCEPT ![p] = NULL] \/ UNCHANGED slot
  /\ used \subseteq used' /\ used' \subseteq used \cup (Slot \cap {slot[p]})
  /\ UNCHANGED <<spt, clock_pointer, disk, data, last, panic>>

Alternatives(p) ==
  \/ Start(p) \/ Exit(p)
  \/ \E u \in UPage : Read(p, u) \/ Fault(p, u) \/ \E v \in Val : Write(p, u, v)
  \/ \E i \in Frame : Found(p, i)
  \/ FoundNone(p) \/ MustEvict(p) \/ Retry(p) \/ Halt(p) \/ SwapScan(p)
  \/ Scan(p) \/ Reset(p) \/ UnmapsNone(p) \/ ClearUpage(p) \/ ClearPagedir(p) \/ ClearPointer(p)
  \/ Uncount(p) \/ SetResult(p) \/ Tick(p) \/ Wrap(p)
  \/ \E q \in Proc, w \in UPage : Unmapping(p, q, w)
  \/ \E q \in Proc, w \in UPage, s \in Slot : SwapOut(p, q, w, s)
  \/ \E q \in Proc, w \in UPage, i \in Frame : InSwap(p, i, q, w) \/ OutOfFrame(p, i, q, w)
  \/ \E u \in UPage, i \in Frame : FromFile(p, u, i) \/ Installed(p, u, i) \/ Marked(p, u, i)
  \/ \E u \in UPage, i \in Frame, s \in Slot : FromSwap(p, u, i, s)
  \/ \E u \in UPage : NewStack(p, u) \/ ClearTest(p, u) \/ Cleared(p, u)
  \/ \E k \in Frame \cup {NULL} : Freed(p, k) \/ Quit(p, k)
  \/ Die(p)
-----------------------------------------------------------------------------
LEMMA InitType == Init => TypeOK /\ PlaceOK
  BY VmAssumption
     DEF Init, TypeOK, PageType, FrameType, DataType, LocalType, PlaceOK, Label, Serving,
         Evict1, Frame

(* Every step of a process is one of the alternatives. *)
LEMMA NextCases ==
  ASSUME TypeOK, PlaceOK, NEW p \in Proc, ~ panic, KernelStep(p) \/ UserStep(p)
  PROVE  Alternatives(p)
  <1> USE VmAssumption DEF spt, frame_table, frames, swap, locals
  <1>1. CASE \/ UserStep(p) \/ Die(p) \/ \E u \in UPage : ClearTest(p, u)
             \/ Scan(p) \/ Reset(p) \/ SwapScan(p) \/ ClearUpage(p) \/ ClearPagedir(p)
             \/ ClearPointer(p) \/ Uncount(p) \/ SetResult(p) \/ Tick(p) \/ Wrap(p)
    BY <1>1, Zenon DEF UserStep, Alternatives
  <1>2. CASE FindEmpty(p)
    <2>1. ASSUME NEW i \in Least(Empty), occupancy < TOTAL_PAGES,
                 kp' = [kp EXCEPT ![p] = i], Goto(p, "fill")
          PROVE  Alternatives(p)
      <3>1. i \in Frame /\ Found(p, i)
        BY <1>2, <2>1, Zenon DEF FindEmpty, Found, Least, Empty
      <3>2. QED
        BY <3>1, Zenon DEF Alternatives
    <2>2. FoundNone(p) \/ MustEvict(p) => Alternatives(p)
      BY Zenon DEF Alternatives
    <2>3. QED
      BY <1>2, <2>1, <2>2, Zenon DEF FindEmpty, FoundNone, MustEvict
  <1>3. CASE NoFrame(p)
    <2>1. pte' = [pte EXCEPT ![p] = pte[p]] /\ pte[p] \in [UPage -> Frame \cup {NULL}]
          /\ accessed' = [accessed EXCEPT ![p] = accessed[p]] /\ accessed[p] \in [UPage -> BOOLEAN]
      BY <1>3, Zenon DEF NoFrame, TypeOK, PageType
    <2>2. Quit(p, NULL) \/ Retry(p) \/ Halt(p)
      BY <1>3, <2>1, Zenon DEF NoFrame, Quit, Retry, Halt, FrameFree
    <2>3. QED
      BY <2>2, Zenon DEF Alternatives
  <1>4. CASE Unmap(p)
    <2>1. CASE frame_upage[clock_pointer] = NULL
      <3>1. UnmapsNone(p)
        BY <1>4, <2>1, Zenon DEF Unmap, UnmapsNone
      <3>2. QED
        BY <3>1, Zenon DEF Alternatives
    <2>2. CASE frame_upage[clock_pointer] # NULL
      <3>1. PICK q \in Proc, w \in UPage : /\ frame_pagedir[clock_pointer] = q
                                          /\ frame_upage[clock_pointer] = w
        BY <1>4, <2>2, Zenon DEF Unmap, Directory, TypeOK, FrameType
      <3>2. Unmapping(p, q, w)
        BY <1>4, <2>2, <3>1, Zenon DEF Unmap, Unmapping
      <3>3. QED
        BY <3>2, Zenon DEF Alternatives
    <2>3. QED
      BY <2>1, <2>2, Zenon
  <1>5. CASE SwapWrite(p)
    <2>1. CASE slot[p] = NULL
      BY <1>5, <2>1, Zenon DEF SwapWrite, Halt, Evict1, Alternatives
    <2>2. CASE slot[p] # NULL /\ victim[p] = NULL
      <3>1. pte' = [pte EXCEPT ![p] = pte[p]] /\ pte[p] \in [UPage -> Frame \cup {NULL}]
            /\ accessed' = [accessed EXCEPT ![p] = accessed[p]] /\ accessed[p] \in [UPage -> BOOLEAN]
        BY <1>5, Zenon DEF SwapWrite, TypeOK, PageType
      <3>2. slot[p] \in Slot
        BY <2>2, Zenon DEF TypeOK, LocalType
      <3>3. Quit(p, NULL)
        BY <1>5, <2>2, <3>1, <3>2, Zenon DEF SwapWrite, Quit, FrameFree
      <3>4. QED
        BY <3>3, Zenon DEF Alternatives
    <2>3. CASE slot[p] # NULL /\ victim[p] # NULL
      <3>1. PICK q \in Proc, w \in UPage : victim[p] = <<q, w>>
        BY <2>3 DEF TypeOK, LocalType, Page
      <3>2. PICK s \in Slot : slot[p] = s
        BY <2>3, Zenon DEF TypeOK, LocalType
      <3>3. SwapOut(p, q, w, s)
        BY <1>5, <2>3, <3>1, <3>2 DEF SwapWrite, SwapOut
      <3>4. QED
        BY <3>3, Zenon DEF Alternatives
    <2>4. QED
      BY <2>1, <2>2, <2>3, Zenon
  <1>6. CASE EvictStops(p) \/ PageLost(p) \/ SetInSwap(p) \/ ClearKpage(p)
    <2>1. CASE EvictStops(p)
      BY <2>1, Zenon DEF EvictStops, Halt, Evict1, Alternatives
    <2>2. CASE PageLost(p)
      <3>1. pte' = [pte EXCEPT ![p] = pte[p]] /\ pte[p] \in [UPage -> Frame \cup {NULL}]
            /\ accessed' = [accessed EXCEPT ![p] = accessed[p]] /\ accessed[p] \in [UPage -> BOOLEAN]
        BY <2>2, Zenon DEF PageLost, TypeOK, PageType
      <3>2. Quit(p, NULL)
        BY <2>2, <3>1, Zenon DEF PageLost, Quit, FrameFree
      <3>3. QED
        BY <3>2, Zenon DEF Alternatives
    <2>3. CASE SetInSwap(p) \/ ClearKpage(p)
      <3>1. PICK i \in Frame : clock_pointer = i /\ page_pointer[i] # NULL
        BY <2>3, Zenon DEF SetInSwap, ClearKpage
      <3>2. PICK q \in Proc, w \in UPage : page_pointer[i] = <<q, w>>
        BY <3>1 DEF TypeOK, FrameType, Page
      <3>3. InSwap(p, i, q, w) \/ OutOfFrame(p, i, q, w)
        BY <2>3, <3>1, <3>2 DEF SetInSwap, ClearKpage, InSwap, OutOfFrame
      <3>4. QED
        BY <3>3, Zenon DEF Alternatives
    <2>4. QED
      BY <1>6, <2>1, <2>2, <2>3, Zenon
  <1>7. CASE Fill(p) \/ Install(p) \/ Mark(p)
    <2>1. PICK u \in UPage, i \in Frame : upage[p] = u /\ kp[p] = i
      BY <1>7, Zenon DEF Fill, ReadFile, ReadSwap, AddStack, Install, Mark, PlaceOK, Serving
    <2>2. CASE ReadFile(p)
      <3>1. pte' = [pte EXCEPT ![p] = pte[p]] /\ pte[p] \in [UPage -> Frame \cup {NULL}]
            /\ accessed' = [accessed EXCEPT ![p] = accessed[p]] /\ accessed[p] \in [UPage -> BOOLEAN]
        BY <2>2, Zenon DEF ReadFile, TypeOK, PageType
      <3>2. FromFile(p, u, i) \/ Quit(p, i)
        BY <2>1, <2>2, <3>1, Zenon DEF ReadFile, FromFile, Quit
      <3>3. QED
        BY <3>2, Zenon DEF Alternatives
    <2>3. CASE ReadSwap(p)
      <3>1. CASE swap_location[p][u] = NULL
        BY <2>1, <2>3, <3>1, Zenon DEF ReadSwap, Halt, Alternatives
      <3>2. CASE swap_location[p][u] # NULL
        <4>1. PICK s \in Slot : swap_location[p][u] = s
          BY <3>2 DEF TypeOK, PageType
        <4>2. FromSwap(p, u, i, s)
          BY <2>1, <2>3, <4>1, Zenon DEF ReadSwap, FromSwap
        <4>3. QED
          BY <4>2, Zenon DEF Alternatives
      <3>3. QED
        BY <3>1, <3>2, Zenon
    <2>4. CASE AddStack(p)
      BY <2>1, <2>4, Zenon DEF AddStack, NewStack, Alternatives
    <2>5. CASE Install(p)
      <3> DEFINE Back == /\ pte[p][u] # NULL \/ Failures
                         /\ FrameFree(i) /\ Goto(p, "exit") /\ Forget(p)
                         /\ UNCHANGED <<pte, accessed>>
      <3>1. CASE Back
        <4>1. pte' = [pte EXCEPT ![p] = pte[p]] /\ pte[p] \in [UPage -> Frame \cup {NULL}]
              /\ accessed' = [accessed EXCEPT ![p] = accessed[p]] /\ accessed[p] \in [UPage -> BOOLEAN]
          BY <3>1, Zenon DEF TypeOK, PageType
        <4>2. Quit(p, i)
          BY <2>1, <2>5, <3>1, <4>1, Zenon DEF Install, Quit
        <4>3. QED
          BY <4>2, Zenon DEF Alternatives
      <3>2. CASE frame_upage[i] # NULL /\ ~ Back
        <4>1. PICK b \in [UPage -> Frame \cup {NULL}] : pte' = [pte EXCEPT ![p] = b]
          BY <2>1, <2>5, <3>2, Zenon DEF Install, TypeOK, PageType
        <4>2. PICK c \in [UPage -> BOOLEAN] : accessed' = [accessed EXCEPT ![p] = c]
          BY <2>1, <2>5, <3>2, Zenon DEF Install, TypeOK, PageType
        <4>3. Quit(p, NULL)
          BY <2>1, <2>5, <3>2, <4>1, <4>2, Zenon DEF Install, Quit, FrameFree
        <4>4. QED
          BY <4>3, Zenon DEF Alternatives
      <3>3. CASE frame_upage[i] = NULL /\ ~ Back
        <4>1. Installed(p, u, i)
          BY <2>1, <2>5, <3>3, Zenon DEF Install, Installed
        <4>2. QED
          BY <4>1, Zenon DEF Alternatives
      <3>4. QED
        BY <3>1, <3>2, <3>3, Zenon
    <2>6. CASE Mark(p)
      <3>1. Marked(p, u, i)
        BY <2>1, <2>6, Zenon DEF Mark, Marked
      <3>2. QED
        BY <3>1, Zenon DEF Alternatives
    <2>7. QED
      BY <1>7, <2>2, <2>3, <2>4, <2>5, <2>6, Zenon DEF Fill
  <1>8. CASE ClearFree(p) \/ ClearPage(p)
    <2>1. PICK u \in UPage, k \in Frame \cup {NULL} : upage[p] = u /\ kp[p] = k
      BY <1>8, Zenon DEF ClearFree, ClearPage, TypeOK, LocalType, PlaceOK
    <2>2. Freed(p, k) \/ Cleared(p, u)
      BY <1>8, <2>1, Zenon DEF ClearFree, Freed, ClearPage, Cleared
    <2>3. QED
      BY <2>2, Zenon DEF Alternatives
  <1>9. QED
    BY <1>1, <1>2, <1>3, <1>4, <1>5, <1>6, <1>7, <1>8, Zenon
       DEF KernelStep, Evict, Choose, EmptyFrame, Clear

LEMMA NextType ==
  ASSUME TypeOK, PlaceOK, NEW p \in Proc, ~ panic, KernelStep(p) \/ UserStep(p)
  PROVE  TypeOK' /\ PlaceOK'
  <1> USE VmAssumption DEF spt, frame_table, frames, swap, locals
  <1>1. CASE Start(p)
    <2>0. First \in UPage
      BY Zenon DEF UPage
    <2>1. PageType' /\ FrameType' /\ DataType'
      BY <1>1, <2>0, Zenon DEF TypeOK, PageType, FrameType, DataType, Page, Start, Goto
    <2>2. LocalType' /\ PlaceOK'
      BY <1>1, <2>0, Zenon
         DEF TypeOK, FrameType, PageType, LocalType, PlaceOK, Label, Serving, Evict1, Start, Goto
    <2>3. QED
      BY <2>1, <2>2, Zenon DEF TypeOK
  <1>2. CASE Exit(p)
    <2>1. PageType' /\ FrameType' /\ DataType'
      BY <1>2, Zenon DEF TypeOK, PageType, FrameType, DataType, Page, Exit, Goto
    <2>2. LocalType' /\ PlaceOK'
      BY <1>2, Zenon
         DEF TypeOK, FrameType, PageType, LocalType, PlaceOK, Label, Serving, Evict1, Exit, Goto
    <2>3. QED
      BY <2>1, <2>2, Zenon DEF TypeOK
  <1>3. ASSUME NEW u \in UPage, Read(p, u) PROVE TypeOK' /\ PlaceOK'
    <2>1. PageType' /\ FrameType' /\ DataType'
      BY <1>3, Zenon DEF TypeOK, PageType, FrameType, DataType, Page, Read
    <2>2. LocalType' /\ PlaceOK'
      BY <1>3, Zenon
         DEF TypeOK, FrameType, PageType, LocalType, PlaceOK, Label, Serving, Evict1, Read
    <2>3. QED
      BY <2>1, <2>2, Zenon DEF TypeOK
  <1>4. ASSUME NEW u \in UPage, Fault(p, u) PROVE TypeOK' /\ PlaceOK'
    <2>1. PageType' /\ FrameType' /\ DataType'
      BY <1>4, Zenon DEF TypeOK, PageType, FrameType, DataType, Page, Fault, Goto
    <2>2. LocalType' /\ PlaceOK'
      BY <1>4, Zenon
         DEF TypeOK, FrameType, PageType, LocalType, PlaceOK, Label, Serving, Evict1, Fault, Goto
    <2>3. QED
      BY <2>1, <2>2, Zenon DEF TypeOK
  <1>5. ASSUME NEW u \in UPage, NEW v \in Val, Write(p, u, v) PROVE TypeOK' /\ PlaceOK'
    <2>1. PageType' /\ FrameType' /\ DataType'
      BY <1>5, Zenon DEF TypeOK, PageType, FrameType, DataType, Page, Write
    <2>2. LocalType' /\ PlaceOK'
      BY <1>5, Zenon
         DEF TypeOK, FrameType, PageType, LocalType, PlaceOK, Label, Serving, Evict1, Write
    <2>3. QED
      BY <2>1, <2>2, Zenon DEF TypeOK
  <1>6. ASSUME NEW i \in Frame, Found(p, i) PROVE TypeOK' /\ PlaceOK'
    <2>1. PageType' /\ FrameType' /\ DataType'
      BY <1>6, Zenon DEF TypeOK, PageType, FrameType, DataType, Page, Found, Goto
    <2>2. LocalType' /\ PlaceOK'
      BY <1>6, Zenon
         DEF TypeOK, FrameType, PageType, LocalType, PlaceOK, Label, Serving, Evict1, Found, Goto
    <2>3. QED
      BY <2>1, <2>2, Zenon DEF TypeOK
  <1>7. CASE FoundNone(p)
    <2>1. PageType' /\ FrameType' /\ DataType'
      BY <1>7, Zenon DEF TypeOK, PageType, FrameType, DataType, Page, FoundNone, Goto
    <2>2. LocalType' /\ PlaceOK'
      BY <1>7, Zenon
         DEF TypeOK, FrameType, PageType, LocalType, PlaceOK, Label, Serving, Evict1, FoundNone,
             Goto
    <2>3. QED
      BY <2>1, <2>2, Zenon DEF TypeOK
  <1>8. CASE MustEvict(p)
    <2>1. PageType' /\ FrameType' /\ DataType'
      BY <1>8, Zenon DEF TypeOK, PageType, FrameType, DataType, Page, MustEvict, Goto
    <2>2. LocalType' /\ PlaceOK'
      BY <1>8, Zenon
         DEF TypeOK, FrameType, PageType, LocalType, PlaceOK, Label, Serving, Evict1, MustEvict,
             Goto
    <2>3. QED
      BY <2>1, <2>2, Zenon DEF TypeOK
  <1>9. CASE Retry(p)
    <2>1. PageType' /\ FrameType' /\ DataType'
      BY <1>9, Zenon DEF TypeOK, PageType, FrameType, DataType, Page, Retry, Goto, Forget
    <2>2. LocalType' /\ PlaceOK'
      BY <1>9, Zenon
         DEF TypeOK, FrameType, PageType, LocalType, PlaceOK, Label, Serving, Evict1, Retry, Goto, Forget
    <2>3. QED
      BY <2>1, <2>2, Zenon DEF TypeOK
  <1>10. CASE Halt(p)
    <2>1. PageType' /\ FrameType' /\ DataType'
      BY <1>10, Zenon DEF TypeOK, PageType, FrameType, DataType, Page, Halt, Forget
    <2>2. LocalType' /\ PlaceOK'
      BY <1>10, Zenon
         DEF TypeOK, FrameType, PageType, LocalType, PlaceOK, Label, Serving, Evict1, Halt,
             Forget
    <2>3. QED
      BY <2>1, <2>2, Zenon DEF TypeOK
  <1>11. CASE SwapScan(p)
    <2>0. PICK s \in Slot \cup {NULL} : slot' = [slot EXCEPT ![p] = s]
      BY <1>11, Zenon DEF SwapScan, Least
    <2>1. PageType' /\ FrameType' /\ DataType'
      BY <1>11, Zenon DEF TypeOK, PageType, FrameType, DataType, Page, SwapScan, Goto
    <2>2. LocalType' /\ PlaceOK'
      BY <1>11, <2>0, Zenon
         DEF TypeOK, FrameType, PageType, LocalType, PlaceOK, Label, Serving, Evict1, SwapScan, Goto
    <2>3. QED
      BY <2>1, <2>2, Zenon DEF TypeOK
  <1>12. CASE Scan(p)
    <2>1. PageType' /\ FrameType' /\ DataType'
      BY <1>12, Zenon DEF TypeOK, PageType, FrameType, DataType, Page, Scan, Goto
    <2>2. LocalType' /\ PlaceOK'
      BY <1>12, Zenon
         DEF TypeOK, FrameType, LocalType, PlaceOK, Label, Serving, Evict1, Scan, Goto
    <2>3. QED
      BY <2>1, <2>2, Zenon DEF TypeOK
  <1>13. CASE Reset(p) \/ UnmapsNone(p)
    <2>1. PageType'
      <3>1. PICK q \in Proc, u \in UPage \cup {NULL} : /\ frame_pagedir[clock_pointer] = q
                                                       /\ frame_upage[clock_pointer] = u
        BY <1>13, Zenon DEF Reset, UnmapsNone, Directory, TypeOK, FrameType
      <3>2. CASE UnmapsNone(p) \/ u = NULL
        BY <1>13, <3>1, <3>2, Zenon DEF TypeOK, PageType, Reset, UnmapsNone
      <3>3. CASE Reset(p) /\ u \in UPage
        <4>1. accessed' \in [Proc -> [UPage -> BOOLEAN]]
          BY <3>1, <3>3 DEF TypeOK, PageType, Reset
        <4>2. QED
          BY <3>3, <4>1, Zenon DEF TypeOK, PageType, Reset
      <3>4. QED
        BY <1>13, <3>2, <3>3, Zenon
    <2>2. FrameType' /\ DataType'
      BY <1>13, Zenon DEF TypeOK, FrameType, DataType, Page, Reset, UnmapsNone
    <2>3. LocalType' /\ PlaceOK'
      <3>1. CASE Reset(p)
        BY <3>1, Zenon DEF TypeOK, LocalType, PlaceOK, Label, Serving, Evict1, Reset, Goto
      <3>2. CASE UnmapsNone(p)
        BY <3>2, Zenon DEF TypeOK, LocalType, PlaceOK, Label, Serving, Evict1, UnmapsNone, Goto
      <3>3. QED
        BY <1>13, <3>1, <3>2, Zenon
    <2>4. QED
      BY <2>1, <2>2, <2>3, Zenon DEF TypeOK
  <1>14. ASSUME NEW q \in Proc, NEW w \in UPage, NEW s \in Slot, SwapOut(p, q, w, s) PROVE TypeOK' /\ PlaceOK'
    <2>0. kp[p] \in Frame
      BY <1>14, Zenon DEF SwapOut, PlaceOK
    <2>1. PageType' /\ FrameType' /\ DataType'
      BY <1>14, <2>0, Zenon DEF TypeOK, PageType, FrameType, DataType, Page, SwapOut, Goto
    <2>2. LocalType' /\ PlaceOK'
      BY <1>14, <2>0, Zenon
         DEF TypeOK, FrameType, PageType, LocalType, PlaceOK, Label, Serving, Evict1, SwapOut, Goto
    <2>3. QED
      BY <2>1, <2>2, Zenon DEF TypeOK
  <1>15. ASSUME NEW i \in Frame, NEW q \in Proc, NEW w \in UPage, InSwap(p, i, q, w)
         PROVE  TypeOK' /\ PlaceOK'
    <2>1. PageType' /\ FrameType' /\ DataType'
      BY <1>15, Zenon DEF TypeOK, PageType, FrameType, DataType, Page, InSwap
    <2>2. LocalType' /\ PlaceOK'
      BY <1>15, Zenon DEF TypeOK, LocalType, PlaceOK, Label, Serving, Evict1, InSwap, Goto
    <2>3. QED
      BY <2>1, <2>2, Zenon DEF TypeOK
  <1>16. ASSUME NEW u \in UPage, NEW i \in Frame, FromFile(p, u, i) PROVE TypeOK' /\ PlaceOK'
    <2>1. PageType' /\ FrameType' /\ DataType'
      BY <1>16, Zenon DEF TypeOK, PageType, FrameType, DataType, Page, FromFile, Goto
    <2>2. LocalType' /\ PlaceOK'
      BY <1>16, Zenon
         DEF TypeOK, FrameType, PageType, LocalType, PlaceOK, Label, Serving, Evict1, FromFile,
             Goto
    <2>3. QED
      BY <2>1, <2>2, Zenon DEF TypeOK
  <1>17. ASSUME NEW u \in UPage, NEW i \in Frame, NEW s \in Slot, FromSwap(p, u, i, s) PROVE TypeOK' /\ PlaceOK'
    <2>1. PageType' /\ FrameType' /\ DataType'
      BY <1>17, Zenon DEF TypeOK, PageType, FrameType, DataType, Page, FromSwap, Goto
    <2>2. LocalType' /\ PlaceOK'
      BY <1>17, Zenon
         DEF TypeOK, FrameType, PageType, LocalType, PlaceOK, Label, Serving, Evict1, FromSwap,
             Goto
    <2>3. QED
      BY <2>1, <2>2, Zenon DEF TypeOK
  <1>18. ASSUME NEW u \in UPage, NewStack(p, u) PROVE TypeOK' /\ PlaceOK'
    <2>1. PageType' /\ FrameType' /\ DataType'
      BY <1>18, Zenon DEF TypeOK, PageType, FrameType, DataType, Page, NewStack, Goto
    <2>2. LocalType' /\ PlaceOK'
      BY <1>18, Zenon
         DEF TypeOK, FrameType, PageType, LocalType, PlaceOK, Label, Serving, Evict1, NewStack,
             Goto
    <2>3. QED
      BY <2>1, <2>2, Zenon DEF TypeOK
  <1>19. ASSUME NEW u \in UPage, NEW i \in Frame, Installed(p, u, i) PROVE TypeOK' /\ PlaceOK'
    <2>1. PageType' /\ FrameType' /\ DataType'
      BY <1>19 DEF TypeOK, PageType, FrameType, DataType, Page, Installed, Goto
    <2>2. LocalType' /\ PlaceOK'
      BY <1>19, Zenon
         DEF TypeOK, FrameType, PageType, LocalType, PlaceOK, Label, Serving, Evict1, Installed,
             Goto
    <2>3. QED
      BY <2>1, <2>2, Zenon DEF TypeOK
  <1>20. ASSUME NEW u \in UPage, NEW i \in Frame, Marked(p, u, i) PROVE TypeOK' /\ PlaceOK'
    <2>1. PageType' /\ FrameType' /\ DataType'
      BY <1>20, Zenon DEF TypeOK, PageType, FrameType, DataType, Page, Marked, Goto, Forget
    <2>2. LocalType' /\ PlaceOK'
      BY <1>20, Zenon
         DEF TypeOK, FrameType, PageType, LocalType, PlaceOK, Label, Serving, Evict1, Marked, Goto,
             Forget
    <2>3. QED
      BY <2>1, <2>2, Zenon DEF TypeOK
  <1>21. ASSUME NEW u \in UPage, ClearTest(p, u) PROVE TypeOK' /\ PlaceOK'
    <2>1. PageType' /\ FrameType' /\ DataType'
      BY <1>21, Zenon DEF TypeOK, PageType, FrameType, DataType, Page, ClearTest, Goto
    <2>2. LocalType' /\ PlaceOK'
      BY <1>21
         DEF TypeOK, FrameType, PageType, LocalType, PlaceOK, Label, Serving, Evict1, ClearTest,
             Goto
    <2>3. QED
      BY <2>1, <2>2, Zenon DEF TypeOK
  <1>22. ASSUME NEW k \in Frame \cup {NULL}, Freed(p, k) PROVE TypeOK' /\ PlaceOK'
    <2>1. PageType' /\ DataType'
      BY <1>22, Zenon DEF TypeOK, PageType, DataType, Freed, FrameFree, Goto
    <2>2. FrameType'
      BY <1>22 DEF TypeOK, FrameType, Freed, FrameFree, Goto
    <2>3. LocalType' /\ PlaceOK'
      BY <1>22, Zenon DEF TypeOK, LocalType, PlaceOK, Label, Serving, Evict1, Freed, FrameFree, Goto
    <2>4. QED
      BY <2>1, <2>2, <2>3, Zenon DEF TypeOK
  <1>23. ASSUME NEW k \in Frame \cup {NULL}, Quit(p, k) PROVE TypeOK' /\ PlaceOK'
    <2>1. PageType' /\ DataType'
      BY <1>23 DEF TypeOK, PageType, DataType, Quit, FrameFree, Goto, Forget
    <2>2. FrameType'
      BY <1>23 DEF TypeOK, FrameType, Quit, FrameFree, Goto, Forget
    <2>3. LocalType' /\ PlaceOK'
      BY <1>23, Zenon
         DEF TypeOK, LocalType, PlaceOK, Label, Serving, Evict1, Quit, FrameFree, Goto, Forget
    <2>4. QED
      BY <2>1, <2>2, <2>3, Zenon DEF TypeOK
  <1>24. CASE Die(p)
    <2>1. PageType' /\ FrameType' /\ DataType'
      BY <1>24, Zenon DEF TypeOK, PageType, FrameType, DataType, Page, Die, Goto
    <2>2. LocalType' /\ PlaceOK'
      BY <1>24, Zenon
         DEF TypeOK, FrameType, PageType, LocalType, PlaceOK, Label, Serving, Evict1, Die, Goto
    <2>3. QED
      BY <2>1, <2>2, Zenon DEF TypeOK
  <1>25. ASSUME NEW u \in UPage, Cleared(p, u) PROVE TypeOK' /\ PlaceOK'
    <2>1. PageType' /\ FrameType' /\ DataType'
      BY <1>25, Zenon DEF TypeOK, PageType, FrameType, DataType, Page, Cleared, Goto, Forget
    <2>2. LocalType' /\ PlaceOK'
      BY <1>25, Zenon
         DEF TypeOK, FrameType, LocalType, PlaceOK, Label, Serving, Evict1, Cleared, Goto, Forget
    <2>3. QED
      BY <2>1, <2>2, Zenon DEF TypeOK
  <1>26. ASSUME NEW q \in Proc, NEW w \in UPage, Unmapping(p, q, w) PROVE TypeOK' /\ PlaceOK'
    <2>1. PageType' /\ FrameType' /\ DataType'
      BY <1>26, Zenon DEF TypeOK, PageType, FrameType, DataType, Page, Unmapping, Goto
    <2>2. LocalType' /\ PlaceOK'
      BY <1>26, Zenon
         DEF TypeOK, FrameType, LocalType, PlaceOK, Label, Serving, Evict1, Unmapping, Goto
    <2>3. QED
      BY <2>1, <2>2, Zenon DEF TypeOK
  <1>27. CASE ClearUpage(p)
    <2>1. PageType' /\ FrameType' /\ DataType'
      BY <1>27, Zenon DEF TypeOK, PageType, FrameType, DataType, Page, ClearUpage, Goto
    <2>2. LocalType' /\ PlaceOK'
      BY <1>27, Zenon
         DEF TypeOK, FrameType, LocalType, PlaceOK, Label, Serving, Evict1, ClearUpage, Goto
    <2>3. QED
      BY <2>1, <2>2, Zenon DEF TypeOK
  <1>28. CASE ClearPagedir(p)
    <2>1. PageType' /\ FrameType' /\ DataType'
      BY <1>28, Zenon DEF TypeOK, PageType, FrameType, DataType, Page, ClearPagedir, Goto
    <2>2. LocalType' /\ PlaceOK'
      BY <1>28, Zenon
         DEF TypeOK, FrameType, LocalType, PlaceOK, Label, Serving, Evict1, ClearPagedir, Goto
    <2>3. QED
      BY <2>1, <2>2, Zenon DEF TypeOK
  <1>29. CASE ClearPointer(p)
    <2>1. PageType' /\ FrameType' /\ DataType'
      BY <1>29, Zenon DEF TypeOK, PageType, FrameType, DataType, Page, ClearPointer, Goto
    <2>2. LocalType' /\ PlaceOK'
      BY <1>29, Zenon
         DEF TypeOK, FrameType, LocalType, PlaceOK, Label, Serving, Evict1, ClearPointer, Goto
    <2>3. QED
      BY <2>1, <2>2, Zenon DEF TypeOK
  <1>30. CASE Uncount(p)
    <2>0. occupancy - 1 \in Int
      BY DEF TypeOK, FrameType
    <2>1. PageType' /\ FrameType' /\ DataType'
      BY <1>30, <2>0, Zenon DEF TypeOK, PageType, FrameType, DataType, Page, Uncount, Goto
    <2>2. LocalType' /\ PlaceOK'
      BY <1>30, Zenon
         DEF TypeOK, FrameType, LocalType, PlaceOK, Label, Serving, Evict1, Uncount, Goto
    <2>3. QED
      BY <2>1, <2>2, Zenon DEF TypeOK
  <1>31. CASE SetResult(p)
    <2>1. PageType' /\ FrameType' /\ DataType'
      BY <1>31, Zenon DEF TypeOK, PageType, FrameType, DataType, Page, SetResult, Goto
    <2>2. LocalType' /\ PlaceOK'
      BY <1>31, Zenon
         DEF TypeOK, FrameType, LocalType, PlaceOK, Label, Serving, Evict1, SetResult, Goto
    <2>3. QED
      BY <2>1, <2>2, Zenon DEF TypeOK
  <1>32. CASE Tick(p)
    <2>0. clock_pointer + 1 \in Nat
      BY DEF TypeOK, FrameType
    <2>1. PageType' /\ FrameType' /\ DataType'
      BY <1>32, <2>0, Zenon DEF TypeOK, PageType, FrameType, DataType, Page, Tick, Goto
    <2>2. LocalType' /\ PlaceOK'
      BY <1>32, Zenon
         DEF TypeOK, FrameType, LocalType, PlaceOK, Label, Serving, Evict1, Tick, Goto
    <2>3. QED
      BY <2>1, <2>2, Zenon DEF TypeOK
  <1>33. CASE Wrap(p)
    <2>0. CLOCK_START \in Nat
      BY DEF Frame
    <2>1. PageType' /\ FrameType' /\ DataType'
      BY <1>33, <2>0, Zenon DEF TypeOK, PageType, FrameType, DataType, Page, Wrap, Goto
    <2>2. LocalType' /\ PlaceOK'
      BY <1>33, Zenon
         DEF TypeOK, FrameType, LocalType, PlaceOK, Label, Serving, Evict1, Wrap, Goto
    <2>3. QED
      BY <2>1, <2>2, Zenon DEF TypeOK
  <1>34. ASSUME NEW i \in Frame, NEW q \in Proc, NEW w \in UPage, OutOfFrame(p, i, q, w)
         PROVE  TypeOK' /\ PlaceOK'
    <2>1. PageType' /\ FrameType' /\ DataType'
      BY <1>34, Zenon DEF TypeOK, PageType, FrameType, DataType, Page, OutOfFrame
    <2>2. LocalType' /\ PlaceOK'
      BY <1>34, Zenon DEF TypeOK, LocalType, PlaceOK, Label, Serving, Evict1, OutOfFrame, Goto
    <2>3. QED
      BY <2>1, <2>2, Zenon DEF TypeOK
  <1>35. QED
    BY <1>1, <1>2, <1>3, <1>4, <1>5, <1>6, <1>7, <1>8, <1>9, <1>10, <1>11, <1>12, <1>13, <1>14,
       <1>15, <1>16, <1>17, <1>18, <1>19, <1>20, <1>21, <1>22, <1>23, <1>24, <1>25, <1>26, <1>27,
       <1>28, <1>29, <1>30, <1>31, <1>32, <1>33, <1>34, NextCases, Zenon
       DEF Alternatives
-----------------------------------------------------------------------------
(* The frame table, as long as no eviction has been disturbed. *)

(* A frame is in use, or not; one that is being emptied is between the two.  *)
Whole(i) ==
  /\ frame_upage[i] # NULL /\ frame_pagedir[i] # NULL
  /\ page_pointer[i] = <<frame_pagedir[i], frame_upage[i]>>

Blank(i) == frame_upage[i] = NULL /\ frame_pagedir[i] = NULL /\ page_pointer[i] = NULL

ShapeInv ==
  \A i \in Frame : Whole(i) \/ Blank(i) \/ (i = clock_pointer /\ \E p \in Proc : pc[p] \in Clearing)

(* How far p has come in emptying the frame under the hand, alone.           *)
BusyOK(p) ==
  pc[p] \in Clearing =>
    /\ \A q \in Proc : pc[q] \in Clearing => q = p
    /\ clock_pointer \in Frame /\ frame_upage[clock_pointer] = NULL
    /\ pc[p] = "pagedir" => \/ frame_pagedir[clock_pointer] = NULL
                            \/ \E u \in UPage : page_pointer[clock_pointer]
                                                  = <<frame_pagedir[clock_pointer], u>>
    /\ pc[p] # "pagedir" => frame_pagedir[clock_pointer] = NULL
    /\ pc[p] = "count" => page_pointer[clock_pointer] = NULL
    /\ pc[p] \in {"kpage", "pointer"} =>
         /\ page_pointer[clock_pointer] # NULL
         /\ \A i \in Frame : page_pointer[i] = page_pointer[clock_pointer] => i = clock_pointer

Holds(i, p, u) == page_pointer[i] = <<p, u>>

(* The entry of a frame that holds page u of p: p has not died; it is not    *)
(* being served for u; and the struct page knows the frame, or is about to.  *)
EntryOK(i, p, u) ==
  Holds(i, p, u) =>
    /\ pc[p] \notin {"out", "dead"}
    /\ upage[p] = u => /\ pc[p] \notin Serving \cup {"freed"}
                       /\ pc[p] \in {"mark", "free"} => kp[p] = i
    /\ \/ pc[p] = "mark" /\ upage[p] = u
       \/ location[p][u] = "frame" /\ kpage[p][u] = i

(* The struct page has been told already that the frame lets go of it. *)
Going(i) == i = clock_pointer /\ \E p \in Proc : pc[p] \in {"kpage", "pointer"}

EntryInv == \A i \in Frame, p \in Proc, u \in UPage : Going(i) \/ EntryOK(i, p, u)

FieldInv == ShapeInv /\ (\A p \in Proc : BusyOK(p)) /\ EntryInv

LEMMA NullApart ==
  /\ NULL \notin Val /\ NULL \notin Frame /\ NULL \notin Slot
  /\ NULL \notin UPage /\ NULL \notin Proc
  /\ \A p \in Proc, u \in UPage : <<p, u>> # NULL
  BY VmAssumption

(* A step changes where one process is. *)
LEMMA NextPc ==
  ASSUME TypeOK, NEW p \in Proc, KernelStep(p) \/ UserStep(p), NEW r \in Proc, r # p
  PROVE  pc'[r] = pc[r]
  <1> USE DEF TypeOK, LocalType, Goto
  <1>1. CASE UserStep(p)
    BY <1>1, Zenon DEF UserStep, Start, Exit, Read, Fault, Write
  <1>2. CASE FindEmpty(p) \/ NoFrame(p) \/ Fill(p) \/ Install(p) \/ Mark(p) \/ Clear(p)
    <2>1. CASE FindEmpty(p) \/ NoFrame(p)
      BY <2>1, Zenon DEF FindEmpty, NoFrame
    <2>2. CASE Fill(p) \/ Install(p) \/ Mark(p)
      BY <2>2, Zenon DEF Fill, ReadFile, ReadSwap, AddStack, Install, Mark
    <2>3. CASE Clear(p)
      BY <2>3, Zenon DEF Clear, ClearTest, ClearFree, ClearPage, Die
    <2>4. QED
      BY <1>2, <2>1, <2>2, <2>3, Zenon
  <1>3. CASE Evict(p)
    <2>1. CASE Choose(p)
      BY <2>1, Zenon DEF Choose, Scan, Reset, Unmap, SwapScan, SwapWrite
    <2>2. CASE EmptyFrame(p)
      BY <2>2, Zenon DEF EmptyFrame, ClearUpage, ClearPagedir, PageLost, SetInSwap, ClearKpage,
             ClearPointer, Uncount
    <2>3. CASE SetResult(p) \/ Tick(p) \/ Wrap(p) \/ EvictStops(p)
      BY <2>3, Zenon DEF SetResult, Tick, Wrap, EvictStops
    <2>4. QED
      BY <1>3, <2>1, <2>2, <2>3, Zenon DEF Evict
  <1>4. QED
    BY <1>1, <1>2, <1>3, Zenon DEF KernelStep

(* A step that disturbs no eviction leaves the frame table alone while       *)
(* another process empties a frame, and does not begin to empty one.         *)
LEMMA Undisturbed ==
  ASSUME NEW p \in Proc, KernelStep(p) \/ UserStep(p), ~ met',
         NEW a \in Proc, a # p, pc[a] \in Clearing
  PROVE  UNCHANGED frames /\ pc'[p] \notin Clearing
  <1>1. ~ Disturbs(p)
    BY Zenon DEF KernelStep, UserStep, Watch
  <1>2. QED
    BY <1>1, Zenon DEF Disturbs

(* Another process stays where it lets go of a frame. *)
LEMMA GoingKept ==
  ASSUME TypeOK, NEW p \in Proc, KernelStep(p) \/ UserStep(p), ~ met',
         pc[p] \notin {"kpage", "pointer"}, NEW i \in Frame, Going(i)
  PROVE  Going(i)'
  <1>1. PICK a \in Proc : i = clock_pointer /\ pc[a] \in {"kpage", "pointer"}
    BY Zenon DEF Going
  <1>2. a # p /\ pc[a] \in Clearing
    BY <1>1, Zenon DEF Clearing
  <1>3. pc'[a] = pc[a] /\ UNCHANGED clock_pointer
    BY <1>1, <1>2, NextPc, Undisturbed, Zenon DEF frames
  <1>4. QED
    BY <1>1, <1>3, Zenon DEF Going

LEMMA NextEntry ==
  ASSUME TypeOK, PlaceOK, FieldInv, NEW p \in Proc, ~ panic, KernelStep(p) \/ UserStep(p), ~ met'
  PROVE  EntryInv'
  <1> USE VmAssumption DEF spt, frame_table, frames, swap, locals
  <1> SUFFICES ASSUME NEW j \in Frame, NEW r \in Proc, NEW x \in UPage, ~ Going(j)'
               PROVE  EntryOK(j, r, x)'
    BY Zenon DEF EntryInv
  <1>0. pc[p] \notin {"kpage", "pointer"} => EntryOK(j, r, x)
    BY GoingKept, Zenon DEF FieldInv, EntryInv
  <1>1. CASE Start(p)
    BY <1>0, <1>1
       DEF EntryOK, Holds, Serving, Evict1, TypeOK, PageType, FrameType, LocalType, Page,
           Start, Goto
  <1>2. CASE Exit(p)
    BY <1>0, <1>2
       DEF EntryOK, Holds, Serving, Evict1, TypeOK, PageType, FrameType, LocalType, Page, Exit,
           Goto
  <1>3. ASSUME NEW u \in UPage, Read(p, u) PROVE EntryOK(j, r, x)'
    BY <1>0, <1>3, Zenon
       DEF EntryOK, Holds, Serving, Evict1, TypeOK, PageType, FrameType, LocalType, Page, Read
  <1>4. ASSUME NEW u \in UPage, Fault(p, u) PROVE EntryOK(j, r, x)'
    BY <1>0, <1>4
       DEF EntryOK, Holds, Serving, Evict1, TypeOK, PageType, FrameType, LocalType, Page,
           Fault, Goto
  <1>5. ASSUME NEW u \in UPage, NEW v \in Val, Write(p, u, v) PROVE EntryOK(j, r, x)'
    BY <1>0, <1>5, Zenon
       DEF EntryOK, Holds, Serving, Evict1, TypeOK, PageType, FrameType, LocalType, Page, Write
  <1>6. ASSUME NEW i \in Frame, Found(p, i) PROVE EntryOK(j, r, x)'
    BY <1>0, <1>6
       DEF EntryOK, Holds, Serving, Evict1, TypeOK, PageType, FrameType, LocalType, Page,
           Found, Goto
  <1>7. CASE FoundNone(p)
    BY <1>0, <1>7
       DEF EntryOK, Holds, Serving, Evict1, TypeOK, PageType, FrameType, LocalType, Page,
           FoundNone, Goto
  <1>8. CASE MustEvict(p)
    BY <1>0, <1>8
       DEF EntryOK, Holds, Serving, Evict1, TypeOK, PageType, FrameType, LocalType, Page,
           MustEvict, Goto
  <1>9. CASE Retry(p)
    BY <1>0, <1>9
       DEF EntryOK, Holds, Serving, Evict1, TypeOK, PageType, FrameType, LocalType, Page,
           Retry, Goto, Forget
  <1>10. CASE Halt(p)
    <2>1. /\ UNCHANGED <<pc, clock_pointer, page_pointer, location, kpage>>
          /\ upage'[p] = NULL \/ upage'[p] = upage[p]
      BY <1>10, Zenon DEF Halt, Forget, TypeOK, LocalType
    <2>2. EntryOK(j, r, x)
      BY <2>1, Zenon DEF FieldInv, EntryInv, Going
    <2>3. pc[p] \in Serving
      BY <1>10, Zenon DEF Halt, Serving
    <2>4. \A a \in Proc : a # p => upage'[a] = upage[a] /\ kp'[a] = kp[a]
      BY <1>10, Zenon DEF Halt, Forget, TypeOK, LocalType
    <2>5. QED
      BY <2>1, <2>2, <2>3, <2>4, NullApart, Zenon DEF EntryOK, Holds, Serving, Evict1
  <1>11. CASE SwapScan(p)
    BY <1>0, <1>11
       DEF EntryOK, Holds, Serving, Evict1, TypeOK, PageType, FrameType, LocalType, Page,
           SwapScan, Goto
  <1>12. CASE Scan(p)
    BY <1>0, <1>12
       DEF EntryOK, Holds, Serving, Evict1, TypeOK, PageType, FrameType, LocalType, Page, Scan, Goto
  <1>13. CASE Reset(p) \/ UnmapsNone(p)
    BY <1>0, <1>13
       DEF EntryOK, Holds, Serving, Evict1, TypeOK, PageType, FrameType, LocalType, Page, Reset, UnmapsNone, Goto
  <1>14. ASSUME NEW q \in Proc, NEW w \in UPage, NEW s \in Slot, SwapOut(p, q, w, s) PROVE EntryOK(j, r, x)'
    BY <1>0, <1>14
       DEF EntryOK, Holds, Serving, Evict1, TypeOK, PageType, FrameType, LocalType, Page,
           SwapOut, Goto
  <1>15. ASSUME NEW i \in Frame, NEW q \in Proc, NEW w \in UPage, InSwap(p, i, q, w)
         PROVE  EntryOK(j, r, x)'
    <2>1. pc[p] = "location" /\ Holds(i, q, w) /\ clock_pointer = i
      BY <1>15, Zenon DEF InSwap, Holds
    <2>2. EntryOK(i, q, w)
      <3>1. ~ Going(i)
        BY <2>1, Zenon DEF FieldInv, BusyOK, Clearing, Going
      <3>2. QED
        BY <3>1, Zenon DEF FieldInv, EntryInv
    <2>3. /\ \A a \in Proc : pc'[a] = IF a = p THEN "kpage" ELSE pc[a]
          /\ UNCHANGED <<upage, kp, kpage, page_pointer, clock_pointer>>
          /\ ~ (r = q /\ x = w) => location'[r][x] = location[r][x]
      BY <1>15, Zenon DEF InSwap, Goto, TypeOK, PageType, LocalType
    <2>4. j # i
      BY <2>1, <2>3, Zenon DEF Going
    <2>5. Holds(j, r, x) => ~ (r = q /\ x = w)
      BY <1>0, <2>1, <2>2, <2>4, Zenon DEF EntryOK, Serving, Evict1
    <2>6. QED
      BY <1>0, <2>1, <2>3, <2>5, Zenon DEF EntryOK, Holds, Serving, Evict1
  <1>16. ASSUME NEW u \in UPage, NEW i \in Frame, FromFile(p, u, i) PROVE EntryOK(j, r, x)'
    BY <1>0, <1>16
       DEF EntryOK, Holds, Serving, Evict1, TypeOK, PageType, FrameType, LocalType, Page,
           FromFile, Goto
  <1>17. ASSUME NEW u \in UPage, NEW i \in Frame, NEW s \in Slot, FromSwap(p, u, i, s) PROVE EntryOK(j, r, x)'
    BY <1>0, <1>17
       DEF EntryOK, Holds, Serving, Evict1, TypeOK, PageType, FrameType, LocalType, Page,
           FromSwap, Goto
  <1>18. ASSUME NEW u \in UPage, NewStack(p, u) PROVE EntryOK(j, r, x)'
    BY <1>0, <1>18
       DEF EntryOK, Holds, Serving, Evict1, TypeOK, PageType, FrameType, LocalType, Page,
           NewStack, Goto
  <1>19. ASSUME NEW u \in UPage, NEW i \in Frame, Installed(p, u, i) PROVE EntryOK(j, r, x)'
    BY <1>0, <1>19
       DEF EntryOK, Holds, Serving, Evict1, TypeOK, PageType, FrameType, LocalType, Page,
           Installed, Goto
  <1>20. ASSUME NEW u \in UPage, NEW i \in Frame, Marked(p, u, i) PROVE EntryOK(j, r, x)'
    BY <1>0, <1>20
       DEF EntryOK, Holds, Serving, Evict1, TypeOK, PageType, FrameType, LocalType, Page,
           Marked, Goto, Forget
  <1>21. ASSUME NEW u \in UPage, ClearTest(p, u) PROVE EntryOK(j, r, x)'
    BY <1>0, <1>21
       DEF EntryOK, Holds, Serving, Evict1, TypeOK, PageType, FrameType, LocalType, Page,
           ClearTest, Goto
  <1>22. ASSUME NEW k \in Frame \cup {NULL}, Freed(p, k) PROVE EntryOK(j, r, x)'
    <2>1. /\ pc[p] = "free" /\ kp[p] = k /\ UNCHANGED <<location, kpage, upage, kp>>
          /\ \A a \in Proc : pc'[a] = IF a = p THEN "freed" ELSE pc[a]
      BY <1>22, Zenon DEF Freed, Goto, TypeOK, LocalType
    <2>2. Holds(j, r, x)' => Holds(j, r, x) /\ j # k
      BY <1>22, NullApart, Zenon DEF Freed, FrameFree, Holds, TypeOK, FrameType
    <2>3. QED
      BY <1>0, <2>1, <2>2, Zenon DEF EntryOK, Serving, Evict1
  <1>23. ASSUME NEW k \in Frame \cup {NULL}, Quit(p, k) PROVE EntryOK(j, r, x)'
    <2>1. /\ pc[p] \in Serving /\ UNCHANGED <<location, kpage>>
          /\ \A a \in Proc : a # p => pc'[a] = pc[a] /\ kp'[a] = kp[a] /\ upage'[a] = upage[a]
          /\ pc'[p] = "exit" /\ upage'[p] = NULL
      BY <1>23, Zenon DEF Quit, Goto, Forget, TypeOK, LocalType, Serving, Evict1
    <2>2. Holds(j, r, x)' => Holds(j, r, x)
      BY <1>23, NullApart, Zenon DEF Quit, FrameFree, Holds, TypeOK, FrameType
    <2>3. pc[p] \in {"kpage", "pointer"} => page_pointer[clock_pointer] = NULL
      BY <1>23, Zenon DEF Quit
    <2>4. EntryOK(j, r, x)
      <3>1. CASE Going(j)
        <4>1. PICK a \in Proc : j = clock_pointer /\ pc[a] \in {"kpage", "pointer"}
          BY <3>1, Zenon DEF Going
        <4>2. page_pointer[clock_pointer] # NULL
          BY <4>1, Zenon DEF FieldInv, BusyOK, Clearing
        <4>3. QED
          BY <1>0, <2>3, <4>2, Zenon
      <3>2. CASE ~ Going(j)
        BY <3>2, Zenon DEF FieldInv, EntryInv
      <3>3. QED
        BY <3>1, <3>2, Zenon
    <2>5. QED
      BY <2>1, <2>2, <2>4, Zenon DEF EntryOK, Serving, Evict1
  <1>24. CASE Die(p)
    BY <1>0, <1>24
       DEF EntryOK, Holds, Serving, Evict1, TypeOK, PageType, FrameType, LocalType, Page, Die,
           Goto
  <1>25. ASSUME NEW u \in UPage, Cleared(p, u) PROVE EntryOK(j, r, x)'
    <2>1. /\ pc[p] = "freed" /\ upage[p] = u /\ UNCHANGED page_pointer
          /\ \A a \in Proc : a # p => pc'[a] = pc[a] /\ kp'[a] = kp[a] /\ upage'[a] = upage[a]
          /\ pc'[p] = "exit" /\ upage'[p] = NULL
          /\ ~ (r = p /\ x = u) => location'[r][x] = location[r][x] /\ kpage'[r][x] = kpage[r][x]
      BY <1>25 DEF Cleared, Goto, Forget, TypeOK, PageType, LocalType
    <2>2. QED
      BY <1>0, <2>1, NullApart, Zenon DEF EntryOK, Holds, Serving, Evict1
  <1>26. ASSUME NEW q \in Proc, NEW w \in UPage, Unmapping(p, q, w) PROVE EntryOK(j, r, x)'
    BY <1>0, <1>26
       DEF EntryOK, Holds, Serving, Evict1, TypeOK, PageType, FrameType, LocalType, Page, Unmapping, Goto
  <1>27. CASE ClearUpage(p) \/ ClearPagedir(p)
    BY <1>0, <1>27
       DEF EntryOK, Holds, Serving, Evict1, TypeOK, PageType, FrameType, LocalType, Page, ClearUpage, ClearPagedir, Goto
  <1>28. CASE ClearPointer(p)
    <2>1. /\ pc[p] = "pointer" /\ pc'[p] = "count" /\ UNCHANGED <<location, kpage, upage, kp>>
          /\ \A a \in Proc : a # p => pc'[a] = pc[a]
          /\ page_pointer' = [page_pointer EXCEPT ![clock_pointer] = NULL] /\ clock_pointer \in Frame
      BY <1>28, Zenon DEF ClearPointer, Goto, TypeOK, LocalType
    <2>2. Holds(j, r, x)' => Holds(j, r, x) /\ j # clock_pointer
      BY <2>1, NullApart, Zenon DEF Holds, TypeOK, FrameType
    <2>3. j # clock_pointer => EntryOK(j, r, x)
      BY Zenon DEF FieldInv, EntryInv, Going
    <2>4. QED
      BY <2>1, <2>2, <2>3, Zenon DEF EntryOK, Serving, Evict1
  <1>29. CASE Uncount(p) \/ SetResult(p)
    BY <1>0, <1>29
       DEF EntryOK, Holds, Serving, Evict1, TypeOK, PageType, FrameType, LocalType, Page, Uncount, SetResult, Goto
  <1>30. CASE Tick(p) \/ Wrap(p)
    BY <1>0, <1>30
       DEF EntryOK, Holds, Serving, Evict1, TypeOK, PageType, FrameType, LocalType, Page, Tick, Wrap, Goto
  <1>31. ASSUME NEW i \in Frame, NEW q \in Proc, NEW w \in UPage, OutOfFrame(p, i, q, w)
         PROVE  EntryOK(j, r, x)'
    <2>1. pc[p] = "kpage" /\ Holds(i, q, w) /\ clock_pointer = i
      BY <1>31, Zenon DEF OutOfFrame, Holds
    <2>2. /\ \A a \in Proc : pc'[a] = IF a = p THEN "pointer" ELSE pc[a]
          /\ UNCHANGED <<upage, kp, location, page_pointer, clock_pointer>>
          /\ ~ (r = q /\ x = w) => kpage'[r][x] = kpage[r][x]
      BY <1>31, Zenon DEF OutOfFrame, Goto, TypeOK, PageType, LocalType
    <2>3. j # i
      BY <2>1, <2>2, Zenon DEF Going
    <2>4. EntryOK(j, r, x)
      BY <2>1, <2>3, Zenon DEF FieldInv, EntryInv, Going
    <2>5. Holds(j, r, x) => ~ (r = q /\ x = w)
      BY <2>1, <2>3, Zenon DEF FieldInv, BusyOK, Clearing, Holds
    <2>6. QED
      BY <2>1, <2>2, <2>4, <2>5, Zenon DEF EntryOK, Holds, Serving, Evict1
  <1>32. QED
    BY <1>1, <1>2, <1>3, <1>4, <1>5, <1>6, <1>7, <1>8, <1>9, <1>10, <1>11, <1>12, <1>13, <1>14,
       <1>15, <1>16, <1>17, <1>18, <1>19, <1>20, <1>21, <1>22, <1>23, <1>24, <1>25, <1>26, <1>27,
       <1>28, <1>29, <1>30, <1>31, NextCases, Zenon
       DEF Alternatives

(* Which steps change the frame table, or whether p empties a frame. *)
Quiet(p) ==
  UNCHANGED <<frame_table, occupancy>> /\ pc[p] \notin Clearing /\ pc'[p] \notin Clearing

LEMMA FieldCases ==
  ASSUME TypeOK, PlaceOK, NEW p \in Proc, ~ panic, KernelStep(p) \/ UserStep(p)
  PROVE  \/ Quiet(p) \/ Halt(p)
         \/ \E u \in UPage, i \in Frame : Installed(p, u, i)
         \/ \E k \in Frame \cup {NULL} : Freed(p, k) \/ Quit(p, k)
         \/ ClearUpage(p) \/ ClearPagedir(p) \/ ClearPointer(p) \/ Uncount(p)
         \/ \E q \in Proc, w \in UPage, i \in Frame : InSwap(p, i, q, w) \/ OutOfFrame(p, i, q, w)
  <1> USE DEF frame_table, frames, TypeOK, LocalType, Quiet, Clearing, Goto
  <1>1. CASE \/ Start(p) \/ Exit(p) \/ \E u \in UPage : Read(p, u) \/ Fault(p, u)
             \/ \E u \in UPage, v \in Val : Write(p, u, v)
    BY <1>1, Zenon DEF Start, Exit, Read, Fault, Write
  <1>2. CASE \/ \E i \in Frame : Found(p, i)
             \/ FoundNone(p) \/ MustEvict(p) \/ Retry(p)
    BY <1>2, Zenon DEF Found, FoundNone, MustEvict, Retry
  <1>3. CASE \/ Scan(p) \/ Reset(p) \/ UnmapsNone(p) \/ SwapScan(p)
             \/ \E q \in Proc, w \in UPage : Unmapping(p, q, w)
             \/ \E q \in Proc, w \in UPage, s \in Slot : SwapOut(p, q, w, s)
    BY <1>3, Zenon DEF Scan, Reset, UnmapsNone, SwapScan, Unmapping, SwapOut
  <1>4. CASE SetResult(p) \/ Tick(p) \/ Wrap(p)
    BY <1>4, Zenon DEF SetResult, Tick, Wrap
  <1>5. CASE \/ \E u \in UPage, i \in Frame : FromFile(p, u, i) \/ Marked(p, u, i)
             \/ \E u \in UPage, i \in Frame, s \in Slot : FromSwap(p, u, i, s)
             \/ \E u \in UPage : NewStack(p, u) \/ ClearTest(p, u) \/ Cleared(p, u)
             \/ Die(p)
    BY <1>5, Zenon DEF FromFile, Marked, FromSwap, NewStack, ClearTest, Cleared, Die
  <1>6. QED
    BY <1>1, <1>2, <1>3, <1>4, <1>5, NextCases, Zenon DEF Alternatives

LEMMA NextShape ==
  ASSUME TypeOK, PlaceOK, FieldInv, NEW p \in Proc, ~ panic, KernelStep(p) \/ UserStep(p), ~ met'
  PROVE  ShapeInv'
  <1> USE DEF frame_table, frames
  <1> DEFINE Busy == \E a \in Proc : pc[a] \in Clearing
             Good(j) == Whole(j) \/ Blank(j) \/ (j = clock_pointer /\ Busy)
  <1> SUFFICES ASSUME NEW j \in Frame PROVE Good(j)'
    BY Zenon DEF ShapeInv
  <1>0. Good(j) /\ BusyOK(p)
    BY Zenon DEF FieldInv, ShapeInv
  <1>1. CASE \E a \in Proc : a # p /\ pc[a] \in Clearing
    <2>1. PICK a \in Proc : a # p /\ pc[a] \in Clearing
      BY <1>1, Zenon
    <2>2. UNCHANGED frames /\ pc'[a] = pc[a]
      BY <2>1, Undisturbed, NextPc, Zenon
    <2>3. QED
      BY <1>0, <2>1, <2>2, Zenon DEF Whole, Blank
  <1>2. CASE \A a \in Proc : a # p => pc[a] \notin Clearing
    <2>1. pc[p] \notin Clearing => Whole(j) \/ Blank(j)
      BY <1>0, <1>2, Zenon
    <2>2. CASE Quiet(p)
      BY <2>1, <2>2, Zenon DEF Quiet, Whole, Blank
    <2>3. CASE Halt(p)
      <3>1. UNCHANGED <<frames, pc>>
        BY <2>3, Zenon DEF Halt
      <3>2. QED
        BY <1>0, <3>1, Zenon DEF Whole, Blank
    <2>4. ASSUME NEW u \in UPage, NEW i \in Frame, Installed(p, u, i) PROVE Good(j)'
      <3>1. pc[p] \notin Clearing
        BY <2>4, Zenon DEF Installed, Clearing
      <3>2. CASE j = i
        BY <2>4, <3>2, NullApart, Zenon DEF Installed, Whole, TypeOK, FrameType
      <3>3. CASE j # i
        BY <2>1, <2>4, <3>1, <3>3, Zenon DEF Installed, Whole, Blank, TypeOK, FrameType
      <3>4. QED
        BY <3>2, <3>3, Zenon
    <2>5. ASSUME NEW k \in Frame \cup {NULL}, Freed(p, k) \/ Quit(p, k) PROVE Good(j)'
      <3>1. Blank(j)' \/ (frame_upage'[j] = frame_upage[j] /\ frame_pagedir'[j] = frame_pagedir[j]
                          /\ page_pointer'[j] = page_pointer[j])
        BY <2>5, Zenon DEF Freed, Quit, FrameFree, Blank, TypeOK, FrameType
      <3>2. CASE pc[p] \notin Clearing
        BY <2>1, <3>1, <3>2, Zenon DEF Whole, Blank
      <3>3. CASE pc[p] \in Clearing
        <4>1. pc[p] \in {"location", "kpage"} /\ page_pointer[clock_pointer] = NULL
          BY <2>5, <3>3, Zenon DEF Freed, Quit, Clearing
        <4>2. Whole(j) \/ Blank(j)
          BY <1>0, <3>3, <4>1, Zenon DEF BusyOK, Blank
        <4>3. QED
          BY <3>1, <4>2, Zenon DEF Whole, Blank
      <3>4. QED
        BY <3>2, <3>3, Zenon
    <2>6. CASE ClearUpage(p) \/ ClearPagedir(p) \/ ClearPointer(p)
      <3>1. UNCHANGED clock_pointer /\ pc'[p] \in Clearing
        BY <2>6, Zenon DEF ClearUpage, ClearPagedir, ClearPointer, Goto, Clearing, TypeOK, LocalType
      <3>2. CASE j # clock_pointer
        <4>1. /\ frame_upage'[j] = frame_upage[j] /\ frame_pagedir'[j] = frame_pagedir[j]
              /\ page_pointer'[j] = page_pointer[j]
          BY <2>6, <3>2, Zenon DEF ClearUpage, ClearPagedir, ClearPointer, TypeOK, FrameType
        <4>2. QED
          BY <1>0, <3>2, <4>1, Zenon DEF Whole, Blank
      <3>3. QED
        BY <3>1, <3>2, Zenon
    <2>7. CASE Uncount(p)
      <3>1. pc[p] = "count" /\ UNCHANGED frame_table
        BY <2>7, Zenon DEF Uncount
      <3>2. Whole(j) \/ Blank(j)
        BY <1>0, <3>1, Zenon DEF BusyOK, Blank, Clearing
      <3>3. QED
        BY <3>1, <3>2, Zenon DEF Whole, Blank
    <2>8. ASSUME NEW q \in Proc, NEW w \in UPage, NEW i \in Frame,
                 InSwap(p, i, q, w) \/ OutOfFrame(p, i, q, w)
          PROVE  Good(j)'
      <3>1. UNCHANGED frames /\ pc'[p] \in Clearing
        BY <2>8, Zenon DEF InSwap, OutOfFrame, Goto, Clearing, TypeOK, LocalType
      <3>2. QED
        BY <1>0, <3>1, Zenon DEF Whole, Blank
    <2>9. QED
      BY <2>2, <2>3, <2>4, <2>5, <2>6, <2>7, <2>8, FieldCases, Zenon
  <1>3. QED
    BY <1>1, <1>2, Zenon

LEMMA NextBusy ==
  ASSUME TypeOK, PlaceOK, FieldInv, NEW p \in Proc, ~ panic, KernelStep(p) \/ UserStep(p), ~ met',
         NEW r \in Proc
  PROVE  BusyOK(r)'
  <1> USE DEF frame_table, frames
  <1> SUFFICES ASSUME pc'[r] \in Clearing PROVE BusyOK(r)'
    BY Zenon DEF BusyOK
  <1>0. BusyOK(r)
    BY Zenon DEF FieldInv
  <1>1. CASE r # p
    <2>1. pc'[r] = pc[r] /\ UNCHANGED frames /\ pc'[p] \notin Clearing
      BY <1>1, NextPc, Undisturbed, Zenon
    <2>2. \A q \in Proc : pc'[q] \in Clearing => q = r
      BY <1>0, <2>1, NextPc, Zenon DEF BusyOK
    <2>3. QED
      BY <1>0, <2>1, <2>2, Zenon DEF BusyOK
  <1>2. CASE r = p
    <2>1. \A q \in Proc : q # p => pc[q] \notin Clearing
      BY <1>2, Undisturbed, Zenon
    <2>2. \A q \in Proc : pc'[q] \in Clearing => q = p
      BY <2>1, NextPc, Zenon
    <2>3. CASE Halt(p)
      <3>1. UNCHANGED <<frames, pc>>
        BY <2>3, Zenon DEF Halt
      <3>2. QED
        BY <1>0, <3>1, Zenon DEF BusyOK
    <2>4. CASE ClearUpage(p)
      <3>1. /\ pc[p] = "upage" /\ clock_pointer \in Frame /\ pc'[p] = "pagedir"
            /\ UNCHANGED <<clock_pointer, frame_pagedir, page_pointer>>
            /\ frame_upage'[clock_pointer] = NULL
        BY <2>4, Zenon DEF ClearUpage, Goto, TypeOK, LocalType, FrameType
      <3>2. Whole(clock_pointer) \/ Blank(clock_pointer)
        BY <2>1, <3>1, Zenon DEF FieldInv, ShapeInv, Clearing
      <3>3. \/ frame_pagedir[clock_pointer] = NULL
            \/ \E u \in UPage : page_pointer[clock_pointer] = <<frame_pagedir[clock_pointer], u>>
        BY <3>1, <3>2, Zenon DEF Whole, Blank, TypeOK, FrameType
      <3>4. QED
        BY <1>2, <2>2, <3>1, <3>3, Zenon DEF BusyOK
    <2>5. CASE ClearPagedir(p)
      <3>1. /\ pc[p] = "pagedir" /\ clock_pointer \in Frame /\ pc'[p] = "location"
            /\ UNCHANGED <<clock_pointer, frame_upage>>
            /\ frame_pagedir'[clock_pointer] = NULL
        BY <2>5, Zenon DEF ClearPagedir, Goto, TypeOK, LocalType, FrameType
      <3>2. QED
        BY <1>0, <1>2, <2>2, <3>1, Zenon DEF BusyOK, Clearing
    <2>6. CASE ClearPointer(p)
      <3>1. /\ pc[p] = "pointer" /\ clock_pointer \in Frame /\ pc'[p] = "count"
            /\ UNCHANGED <<clock_pointer, frame_upage, frame_pagedir>>
            /\ page_pointer'[clock_pointer] = NULL
        BY <2>6, Zenon DEF ClearPointer, Goto, TypeOK, LocalType, FrameType
      <3>2. QED
        BY <1>0, <1>2, <2>2, <3>1, Zenon DEF BusyOK, Clearing
    <2>7. ASSUME NEW q \in Proc, NEW w \in UPage, NEW i \in Frame, InSwap(p, i, q, w)
          PROVE  BusyOK(r)'
      <3>1. /\ pc[p] = "location" /\ clock_pointer = i /\ page_pointer[i] = <<q, w>>
            /\ UNCHANGED frames /\ pc'[p] = "kpage"
        BY <2>7, Zenon DEF InSwap, Goto, TypeOK, LocalType
      <3>2. ASSUME NEW j \in Frame, page_pointer[j] = page_pointer[i] PROVE j = i
        <4>1. EntryOK(j, q, w) /\ EntryOK(i, q, w)
          BY <2>1, <3>1, Zenon DEF FieldInv, EntryInv, Going, Clearing
        <4>2. QED
          BY <3>1, <3>2, <4>1, Zenon DEF EntryOK, Holds
      <3>3. QED
        BY <1>0, <1>2, <2>2, <3>1, <3>2, NullApart, Zenon DEF BusyOK, Clearing
    <2>8. ASSUME NEW q \in Proc, NEW w \in UPage, NEW i \in Frame, OutOfFrame(p, i, q, w)
          PROVE  BusyOK(r)'
      <3>1. pc[p] = "kpage" /\ UNCHANGED frames /\ pc'[p] = "pointer"
        BY <2>8, Zenon DEF OutOfFrame, Goto, TypeOK, LocalType
      <3>2. QED
        BY <1>0, <1>2, <2>2, <3>1, Zenon DEF BusyOK, Clearing
    <2>9. \/ Quiet(p) \/ Uncount(p)
          \/ \E u \in UPage, i \in Frame : Installed(p, u, i)
          \/ \E k \in Frame \cup {NULL} : Freed(p, k) \/ Quit(p, k)
          => pc'[p] \notin Clearing
      BY Zenon DEF Quiet, Uncount, Installed, Freed, Quit, Goto, Clearing, TypeOK, LocalType
    <2>10. QED
      BY <1>2, <2>3, <2>4, <2>5, <2>6, <2>7, <2>8, <2>9, FieldCases, Zenon
  <1>3. QED
    BY <1>1, <1>2, Zenon

(* What every step keeps, whatever the processes do at the same time. *)
VInv == TypeOK /\ PlaceOK /\ (~ met => FieldInv)

LEMMA InitVInv == Init => VInv
  <1> SUFFICES ASSUME Init PROVE VInv
    BY Zenon
  <1>1. EntryInv
    BY NullApart, Zenon DEF Init, EntryInv, EntryOK, Holds
  <1>2. ShapeInv /\ \A p \in Proc : BusyOK(p)
    BY Zenon DEF Init, ShapeInv, Blank, BusyOK, Clearing
  <1>3. QED
    BY <1>1, <1>2, InitType, Zenon DEF VInv, FieldInv

LEMMA StutterVInv == VInv /\ UNCHANGED vars => VInv'
  <1> SUFFICES ASSUME VInv, UNCHANGED vars PROVE VInv'
    BY Zenon
  <1> USE DEF vars, spt, frame_table, frames, swap
  <1>1. TypeOK' /\ PlaceOK'
    BY Zenon DEF VInv, TypeOK, PageType, FrameType, DataType, LocalType, PlaceOK
  <1>2. ASSUME ~ met' PROVE FieldInv'
    <2>1. FieldInv
      BY <1>2, Zenon DEF VInv
    <2>2. ShapeInv'
      BY <2>1, Zenon DEF FieldInv, ShapeInv, Whole, Blank
    <2>3. \A p \in Proc : BusyOK(p)'
      BY <2>1, Zenon DEF FieldInv, BusyOK
    <2>4. EntryInv'
      <3>1. ASSUME NEW i \in Frame, NEW p \in Proc, NEW u \in UPage PROVE (Going(i) \/ EntryOK(i, p, u))'
        <4>1. Going(i) \/ EntryOK(i, p, u)
          BY <2>1, Zenon DEF FieldInv, EntryInv
        <4>2. QED
          BY <4>1, Zenon DEF EntryOK, Going, Holds
      <3>2. QED
        BY <3>1, Zenon DEF EntryInv
    <2>5. QED
      BY <2>2, <2>3, <2>4, Zenon DEF FieldInv
  <1>3. QED
    BY <1>1, <1>2, Zenon DEF VInv

LEMMA NextVInv == VInv /\ [Next]_vars => VInv'
  <1> SUFFICES ASSUME VInv, Next PROVE VInv'
    BY StutterVInv, Zenon
  <1>1. PICK p \in Proc : KernelStep(p) \/ UserStep(p)
    BY Zenon DEF Next
  <1>2. ~ panic /\ (met => met')
    BY <1>1, Zenon DEF KernelStep, UserStep, Watch
  <1>3. TypeOK' /\ PlaceOK'
    BY <1>1, <1>2, NextType, Zenon DEF VInv
  <1>4. ASSUME ~ met' PROVE FieldInv'
    BY <1>1, <1>2, <1>4, NextShape, NextBusy, NextEntry, Zenon DEF VInv, FieldInv
  <1>5. QED
    BY <1>3, <1>4, Zenon DEF VInv

LEMMA VInvHolds == Spec => []VInv
  BY InitVInv, NextVInv, PTL DEF Spec

(* Until an eviction is disturbed, the entries of frame_table belong to      *)
(* processes that have not been through process_exit: page_clear_all finds   *)
(* every one of them, also if frame_evict is half way through emptying it.   *)
THEOREM FrameOwnersAliveHolds == Spec => []FrameOwnersAlive
  <1>1. ASSUME VInv PROVE FrameOwnersAlive
    <2> SUFFICES ASSUME ~ met, NEW i \in Frame, frame_pagedir[i] # NULL
                 PROVE  pc[frame_pagedir[i]] \notin {"out", "dead"}
      BY Zenon DEF FrameOwnersAlive
    <2>1. TypeOK /\ ShapeInv /\ EntryInv /\ \A p \in Proc : BusyOK(p)
      BY <1>1, Zenon DEF VInv, FieldInv
    <2>2. PICK q \in Proc : frame_pagedir[i] = q
      BY <2>1, Zenon DEF TypeOK, FrameType
    <2>3. ~ Going(i) /\ \E u \in UPage : Holds(i, q, u)
      <3>1. CASE Whole(i)
        <4>1. ~ Going(i)
          BY <2>1, <3>1, Zenon DEF Going, Whole, BusyOK, Clearing
        <4>2. QED
          BY <2>1, <2>2, <3>1, <4>1, Zenon DEF Whole, Holds, TypeOK, FrameType
      <3>2. CASE i = clock_pointer /\ \E p \in Proc : pc[p] \in Clearing
        <4>1. PICK p \in Proc : pc[p] \in Clearing
          BY <3>2, Zenon
        <4>2. pc[p] = "pagedir"
          BY <2>1, <3>2, <4>1, Zenon DEF BusyOK
        <4>3. ~ Going(i)
          BY <2>1, <4>1, <4>2, Zenon DEF Going, BusyOK, Clearing
        <4>4. QED
          BY <2>1, <2>2, <3>2, <4>1, <4>2, <4>3, Zenon DEF BusyOK, Holds
      <3>3. QED
        BY <2>1, <3>1, <3>2, Zenon DEF ShapeInv, Blank
    <2>4. QED
      BY <2>1, <2>2, <2>3, Zenon DEF EntryInv, EntryOK
  <1>2. QED
    BY <1>1, VInvHolds, PTL
-----------------------------------------------------------------------------
(* A process that runs alone. *)

Evicting == {"swapout", "swapping", "upage", "pagedir", "location", "kpage", "pointer"}

(* Page u of p is where its struct page says. *)
Normal(p, u) ==
  /\ location[p][u] = "frame" =>
       /\ kpage[p][u] \in Frame /\ pte[p][u] = kpage[p][u]
       /\ Holds(kpage[p][u], p, u) /\ swap_location[p][u] = NULL
  /\ location[p][u] = "swap" =>
       kpage[p][u] = NULL /\ pte[p][u] = NULL /\ swap_location[p][u] \in used
  /\ location[p][u] \in {"filesys", "none"} =>
       kpage[p][u] = NULL /\ pte[p][u] = NULL /\ swap_location[p][u] = NULL
  /\ location[p][u] = "none" => u \in StackPage

(* The page under the hand of the clock, which frame_evict has unmapped,     *)
(* which then is on disk too, and whose struct page is told in the end.      *)
Unmapped(p, u) ==
  /\ pte[p][u] = NULL
  /\ location[p][u] = IF pc[p] \in {"kpage", "pointer"} THEN "swap" ELSE "frame"
  /\ kpage[p][u] = IF pc[p] = "pointer" THEN NULL ELSE clock_pointer
  /\ IF pc[p] \in {"swapout", "swapping"} THEN swap_location[p][u] = NULL
     ELSE /\ swap_location[p][u] \in used
          /\ disk[swap_location[p][u]] = data[clock_pointer]

(* The page of a fault, before frame_install.  Its frame holds what the page *)
(* held; a stack page is new.                                                *)
Filled(p, u) ==
  /\ pte[p][u] = NULL /\ kpage[p][u] = NULL /\ swap_location[p][u] = NULL
  /\ location[p][u] = "filesys" => data[kp[p]] = FileVal
  /\ location[p][u] = "frame" => u \in StackPage
  /\ location[p][u] # "none"

(* The same page, before its struct page is told. *)
Mapped(p, u) ==
  /\ pte[p][u] = kp[p] /\ kpage[p][u] = NULL /\ swap_location[p][u] = NULL
  /\ Holds(kp[p], p, u)

Gone(p, u) ==
  /\ location[p][u] = "none" /\ kpage[p][u] = NULL
  /\ swap_location[p][u] = NULL /\ pte[p][u] = NULL

(* A page of a process that exits: page_clear_all can find its frame.        *)
Leaving(p, u) ==
  /\ location[p][u] = "frame" =>
       \/ pc[p] = "freed" /\ u = upage[p]
       \/ kpage[p][u] \in Frame /\ Holds(kpage[p][u], p, u)
       \/ Failures /\ kpage[p][u] = NULL
  /\ swap_location[p][u] # NULL => swap_location[p][u] \in used

PageOK(p, u) ==
  /\ pc[p] = "out" => Gone(p, u)
  /\ pc[p] \in {"exit", "free", "freed"} => Leaving(p, u)
  /\ pc[p] \in Evicting /\ Holds(clock_pointer, p, u) => Unmapped(p, u)
  /\ pc[p] = "install" /\ u = upage[p] => Filled(p, u)
  /\ pc[p] = "mark" /\ u = upage[p] => Mapped(p, u)
  /\ \/ pc[p] \in {"out", "exit", "free", "freed"}
     \/ pc[p] \in Evicting /\ Holds(clock_pointer, p, u)
     \/ pc[p] \in {"install", "mark"} /\ u = upage[p]
     \/ Normal(p, u)

(* What p has found out so far is true. *)
StepOK(p) ==
  /\ pc[p] # "dead"
  /\ pc[p] \in Serving \ {"install"} => location[p][upage[p]] # "frame"
  /\ pc[p] \in {"scan", "reset", "unmap"} => kp[p] = NULL
  /\ pc[p] \in Evicting => page_pointer[clock_pointer] # NULL
  /\ pc[p] = "swapping" => /\ victim[p] = page_pointer[clock_pointer] /\ kp[p] = clock_pointer
                           /\ slot[p] # NULL => slot[p] \notin used
  /\ pc[p] = "result" => page_pointer[clock_pointer] = NULL
  /\ pc[p] \in {"tick", "wrap"} /\ kp[p] # NULL => page_pointer[kp[p]] = NULL
  /\ pc[p] \in {"fill", "install"} => page_pointer[kp[p]] = NULL
  /\ pc[p] \in {"free", "freed"} => /\ location[p][upage[p]] = "frame"
                                    /\ kp[p] = kpage[p][upage[p]]

SlotsApart ==
  \A p, q \in Proc : \A u, w \in UPage :
    swap_location[p][u] # NULL /\ swap_location[p][u] = swap_location[q][w] => p = q /\ u = w

OnlyOne == \A p, q \in Proc : pc[p] # "out" /\ pc[q] # "out" => p = q

(* The hand is past the end of the table for a moment only. *)
HandOK ==
  clock_pointer \in Frame \/ (clock_pointer = TOTAL_PAGES /\ \E p \in Proc : pc[p] = "wrap")

(* The frame table has no page of a process that is gone. *)
Owned == \A i \in Frame, p \in Proc, u \in UPage : Holds(i, p, u) => pc[p] # "out"

AInv ==
  /\ ~ met /\ OnlyOne /\ SlotsApart /\ HandOK /\ Owned
  /\ ~ panic => \A p \in Proc : StepOK(p)
  /\ \A p \in Proc, u \in UPage : PageOK(p, u)

(* A frame holds one page. *)
LEMMA HoldsOne ==
  ASSUME NEW i, NEW p \in Proc, NEW u \in UPage, Holds(i, p, u)
  PROVE  /\ page_pointer[i] # NULL
         /\ \A q \in Proc, w \in UPage : Holds(i, q, w) => q = p /\ w = u
  BY NullApart DEF Holds

(* No other process is under way. *)
LEMMA Solo ==
  ASSUME Alone, VInv, OnlyOne, NEW p \in Proc, ~ panic, KernelStep(p) \/ UserStep(p)
  PROVE  \A r \in Proc : r # p => pc[r] = "out"
  <1>1. pc[p] # "out" \/ Start(p)
    BY Zenon DEF KernelStep, UserStep, Exit, Read, Fault, Write, FindEmpty, NoFrame, Evict, Choose,
           Scan, Reset, Unmap, SwapScan, SwapWrite, EmptyFrame, ClearUpage, ClearPagedir, PageLost,
           SetInSwap, ClearKpage, ClearPointer, Uncount, SetResult, Tick, Wrap, EvictStops, Fill,
           ReadFile, ReadSwap, AddStack, Install, Mark, Clear, ClearTest, ClearFree, ClearPage, Die
  <1>2. QED
    BY <1>1, Zenon DEF OnlyOne, Start

(* The entries of the frame table are those of the process. *)
LEMMA OwnFrame ==
  ASSUME AInv, NEW p \in Proc, \A r \in Proc : r # p => pc[r] = "out",
         NEW i \in Frame, NEW q \in Proc, NEW w \in UPage, Holds(i, q, w)
  PROVE  q = p
  BY Zenon DEF AInv, Owned

(* No frame is half empty, unless the process is emptying it. *)
LEMMA Settled ==
  ASSUME VInv, AInv, NEW p \in Proc, \A r \in Proc : r # p => pc[r] = "out",
         pc[p] \notin Clearing, NEW i \in Frame
  PROVE  Whole(i) \/ Blank(i)
  <1>1. \A r \in Proc : pc[r] \notin Clearing
    BY Zenon DEF Clearing
  <1>2. QED
    BY <1>1, Zenon DEF VInv, AInv, FieldInv, ShapeInv

LEMMA HandIn ==
  ASSUME AInv, NEW p \in Proc, \A r \in Proc : r # p => pc[r] = "out", pc[p] # "wrap"
  PROVE  clock_pointer \in Frame
  BY Zenon DEF AInv, HandOK

(* What a step leaves alone, if the process is the only one. *)
LEMMA OthersKept ==
  ASSUME Alone, VInv, AInv, NEW p \in Proc, ~ panic, KernelStep(p) \/ UserStep(p),
         NEW r \in Proc, r # p
  PROVE  /\ pc'[r] = pc[r] /\ location'[r] = location[r] /\ kpage'[r] = kpage[r]
         /\ swap_location'[r] = swap_location[r] /\ pte'[r] = pte[r]
  <1> USE DEF spt, frame_table, frames, swap, locals
  <1> DEFINE Kept == /\ pc'[r] = pc[r] /\ location'[r] = location[r] /\ kpage'[r] = kpage[r]
                     /\ swap_location'[r] = swap_location[r] /\ pte'[r] = pte[r]
  <1>0. TypeOK /\ PlaceOK /\ \A a \in Proc : a # p => pc[a] = "out"
    BY Solo, Zenon DEF VInv, AInv
  <1>1. CASE Start(p)
    BY <1>0, <1>1, Zenon DEF TypeOK, PageType, LocalType, Start, Goto
  <1>2. CASE Exit(p)
    BY <1>0, <1>2, Zenon DEF TypeOK, PageType, LocalType, Exit, Goto
  <1>3. ASSUME NEW u \in UPage, Read(p, u) PROVE Kept
    BY <1>0, <1>3, Zenon DEF TypeOK, PageType, LocalType, Read
  <1>4. ASSUME NEW u \in UPage, Fault(p, u) PROVE Kept
    BY <1>0, <1>4, Zenon DEF TypeOK, PageType, LocalType, Fault, Goto
  <1>5. ASSUME NEW u \in UPage, NEW v \in Val, Write(p, u, v) PROVE Kept
    BY <1>0, <1>5, Zenon DEF TypeOK, PageType, LocalType, Write
  <1>6. ASSUME NEW i \in Frame, Found(p, i) PROVE Kept
    BY <1>0, <1>6, Zenon DEF TypeOK, PageType, LocalType, Found, Goto
  <1>7. CASE FoundNone(p)
    BY <1>0, <1>7, Zenon DEF TypeOK, PageType, LocalType, FoundNone, Goto
  <1>8. CASE MustEvict(p)
    BY <1>0, <1>8, Zenon DEF TypeOK, PageType, LocalType, MustEvict, Goto
  <1>9. CASE Retry(p)
    BY <1>0, <1>9, Zenon DEF TypeOK, PageType, LocalType, Retry, Goto, Forget
  <1>10. CASE Halt(p)
    BY <1>0, <1>10, Zenon DEF TypeOK, PageType, LocalType, Halt, Forget
  <1>11. CASE SwapScan(p)
    BY <1>0, <1>11, Zenon DEF TypeOK, PageType, LocalType, SwapScan, Goto
  <1>12. CASE Scan(p)
    BY <1>0, <1>12, Zenon DEF TypeOK, PageType, LocalType, Scan, Goto
  <1>13. CASE Reset(p) \/ UnmapsNone(p)
    BY <1>0, <1>13, Zenon DEF TypeOK, PageType, LocalType, Reset, UnmapsNone, Goto
  <1>14. ASSUME NEW q \in Proc, NEW w \in UPage, NEW s \in Slot, SwapOut(p, q, w, s) PROVE Kept
    <2>1. page_pointer[clock_pointer] = <<q, w>>
      BY <1>14, Zenon DEF SwapOut, AInv, StepOK
    <2>2. q = p
      <3>1. clock_pointer \in Frame
        BY <1>0, <1>14, HandIn, Zenon DEF SwapOut
      <3>2. QED
        BY <1>0, <2>1, <3>1, OwnFrame, Zenon DEF Holds
    <2>3. QED
      BY <1>0, <1>14, <2>2, Zenon DEF TypeOK, PageType, LocalType, SwapOut, Goto
  <1>15. ASSUME NEW i \in Frame, NEW q \in Proc, NEW w \in UPage, InSwap(p, i, q, w) PROVE Kept
    <2>1. q = p
      BY <1>0, <1>15, OwnFrame, Zenon DEF InSwap, Holds
    <2>2. QED
      BY <1>0, <1>15, <2>1, Zenon DEF TypeOK, PageType, LocalType, InSwap, Goto
  <1>16. ASSUME NEW u \in UPage, NEW i \in Frame, FromFile(p, u, i) PROVE Kept
    BY <1>0, <1>16, Zenon DEF TypeOK, PageType, LocalType, FromFile, Goto
  <1>17. ASSUME NEW u \in UPage, NEW i \in Frame, NEW s \in Slot, FromSwap(p, u, i, s) PROVE Kept
    BY <1>0, <1>17, Zenon DEF TypeOK, PageType, LocalType, FromSwap, Goto
  <1>18. ASSUME NEW u \in UPage, NewStack(p, u) PROVE Kept
    BY <1>0, <1>18, Zenon DEF TypeOK, PageType, LocalType, NewStack, Goto
  <1>19. ASSUME NEW u \in UPage, NEW i \in Frame, Installed(p, u, i) PROVE Kept
    BY <1>0, <1>19, Zenon DEF TypeOK, PageType, LocalType, Installed, Goto
  <1>20. ASSUME NEW u \in UPage, NEW i \in Frame, Marked(p, u, i) PROVE Kept
    BY <1>0, <1>20, Zenon DEF TypeOK, PageType, LocalType, Marked, Goto, Forget
  <1>21. ASSUME NEW u \in UPage, ClearTest(p, u) PROVE Kept
    BY <1>0, <1>21, Zenon DEF TypeOK, PageType, LocalType, ClearTest, Goto
  <1>22. ASSUME NEW k \in Frame \cup {NULL}, Freed(p, k) PROVE Kept
    BY <1>0, <1>22, Zenon DEF TypeOK, PageType, LocalType, Freed, FrameFree, Goto
  <1>23. ASSUME NEW k \in Frame \cup {NULL}, Quit(p, k) PROVE Kept
    BY <1>0, <1>23, Zenon DEF TypeOK, PageType, LocalType, Quit, FrameFree, Goto, Forget
  <1>24. CASE Die(p)
    BY <1>0, <1>24, Zenon DEF TypeOK, PageType, LocalType, Die, Goto
  <1>25. ASSUME NEW u \in UPage, Cleared(p, u) PROVE Kept
    BY <1>0, <1>25, Zenon DEF TypeOK, PageType, LocalType, Cleared, Goto, Forget
  <1>26. ASSUME NEW q \in Proc, NEW w \in UPage, Unmapping(p, q, w) PROVE Kept
    <2>1. pc[p] \notin Clearing /\ clock_pointer \in Frame /\ frame_pagedir[clock_pointer] = q
          /\ frame_upage[clock_pointer] = w
      BY <1>26, Zenon DEF Unmapping, Directory, Clearing
    <2>2. Whole(clock_pointer)
      BY <1>0, <2>1, Settled, NullApart, Zenon DEF Blank
    <2>3. q = p
      BY <1>0, <2>1, <2>2, OwnFrame, Zenon DEF Whole, Holds
    <2>4. QED
      BY <1>0, <1>26, <2>3, Zenon DEF TypeOK, PageType, LocalType, Unmapping, Goto
  <1>27. CASE ClearUpage(p) \/ ClearPagedir(p)
    BY <1>0, <1>27, Zenon DEF TypeOK, PageType, LocalType, ClearUpage, ClearPagedir, Goto
  <1>28. CASE ClearPointer(p)
    BY <1>0, <1>28, Zenon DEF TypeOK, PageType, LocalType, ClearPointer, Goto
  <1>29. CASE Uncount(p) \/ SetResult(p)
    BY <1>0, <1>29, Zenon DEF TypeOK, PageType, LocalType, Uncount, SetResult, Goto
  <1>30. CASE Tick(p) \/ Wrap(p)
    BY <1>0, <1>30, Zenon DEF TypeOK, PageType, LocalType, Tick, Wrap, Goto
  <1>31. ASSUME NEW i \in Frame, NEW q \in Proc, NEW w \in UPage, OutOfFrame(p, i, q, w) PROVE Kept
    <2>1. q = p
      BY <1>0, <1>31, OwnFrame, Zenon DEF OutOfFrame, Holds
    <2>2. QED
      BY <1>0, <1>31, <2>1, Zenon DEF TypeOK, PageType, LocalType, OutOfFrame, Goto
  <1>32. QED
    BY <1>1, <1>2, <1>3, <1>4, <1>5, <1>6, <1>7, <1>8, <1>9, <1>10, <1>11, <1>12, <1>13, <1>14,
       <1>15, <1>16, <1>17, <1>18, <1>19, <1>20, <1>21, <1>22, <1>23, <1>24, <1>25, <1>26, <1>27,
       <1>28, <1>29, <1>30, <1>31, <1>0, NextCases, Zenon
       DEF Alternatives

(* A step of p and its page x. *)
LEMMA NextPage ==
  ASSUME Alone, VInv, AInv, NEW p \in Proc, ~ panic, KernelStep(p) \/ UserStep(p), NEW x \in UPage
  PROVE  PageOK(p, x)'
  <1> USE DEF spt, frame_table, frames, swap, locals
  <1>0. /\ TypeOK /\ PlaceOK /\ StepOK(p) /\ PageOK(p, x) /\ FieldInv
        /\ \A r \in Proc : r # p => pc[r] = "out"
        /\ NULL \notin Slot /\ NULL \notin Frame
    BY Solo, NullApart, Zenon DEF VInv, AInv
  <1>1. CASE Start(p)
    <2>1. Gone(p, x)
      BY <1>0, <1>1, Zenon DEF PageOK, Start
    <2>2. /\ location'[p][x] = IF x \in FilePage THEN "filesys" ELSE "none"
          /\ UNCHANGED <<kpage, swap_location, pte>> /\ pc'[p] = "find"
      BY <1>0, <1>1, Zenon DEF Start, Goto, TypeOK, PageType, LocalType
    <2>3. Normal(p, x)'
      BY <2>1, <2>2, Zenon DEF Gone, Normal, UPage
    <2>4. QED
      BY <2>2, <2>3, Zenon DEF PageOK, Evicting
  <1>2. CASE Exit(p)
    <2>1. Normal(p, x)
      BY <1>0, <1>2, Zenon DEF PageOK, Evicting, Exit
    <2>2. /\ UNCHANGED <<location, kpage, swap_location, page_pointer, used>> /\ pc'[p] = "exit"
      BY <1>0, <1>2, Zenon DEF Exit, Goto, TypeOK, LocalType
    <2>3. Leaving(p, x)'
      BY <1>0, <2>1, <2>2 DEF Normal, Leaving, Holds, TypeOK, PageType
    <2>4. QED
      BY <2>2, <2>3, Zenon DEF PageOK, Evicting
  <1>3. ASSUME NEW u \in UPage, Read(p, u) PROVE PageOK(p, x)'
    BY <1>0, <1>3, Zenon
       DEF PageOK, Normal, Holds, Evicting, Gone, Leaving, Unmapped, Filled, Mapped, TypeOK,
           PageType, FrameType, DataType, LocalType, Read
  <1>4. ASSUME NEW u \in UPage, Fault(p, u) PROVE PageOK(p, x)'
    BY <1>0, <1>4, Zenon
       DEF PageOK, Normal, Holds, Evicting, Gone, Leaving, Unmapped, Filled, Mapped, TypeOK,
           PageType, FrameType, DataType, LocalType, Fault, Goto
  <1>5. ASSUME NEW u \in UPage, NEW v \in Val, Write(p, u, v) PROVE PageOK(p, x)'
    BY <1>0, <1>5, Zenon
       DEF PageOK, Normal, Holds, Evicting, Gone, Leaving, Unmapped, Filled, Mapped, TypeOK,
           PageType, FrameType, DataType, LocalType, Write
  <1>6. ASSUME NEW i \in Frame, Found(p, i) PROVE PageOK(p, x)'
    BY <1>0, <1>6, Zenon
       DEF PageOK, Normal, Holds, Evicting, Gone, Leaving, Unmapped, Filled, Mapped, TypeOK,
           PageType, FrameType, DataType, LocalType, Found, Goto
  <1>7. CASE FoundNone(p)
    BY <1>0, <1>7, Zenon
       DEF PageOK, Normal, Holds, Evicting, Gone, Leaving, Unmapped, Filled, Mapped, TypeOK,
           PageType, FrameType, DataType, LocalType, FoundNone, Goto
  <1>8. CASE MustEvict(p)
    BY <1>0, <1>8, Zenon
       DEF PageOK, Normal, Holds, Evicting, Gone, Leaving, Unmapped, Filled, Mapped, TypeOK,
           PageType, FrameType, DataType, LocalType, MustEvict, Goto
  <1>9. CASE Retry(p)
    BY <1>0, <1>9, Zenon
       DEF PageOK, Normal, Holds, Evicting, Gone, Leaving, Unmapped, Filled, Mapped, TypeOK,
           PageType, FrameType, DataType, LocalType, Retry, Goto, Forget
  <1>10. CASE Halt(p)
    <2>1. /\ pc[p] \in Evict1 \cup {"nothing", "fill"} /\ UNCHANGED pc
          /\ UNCHANGED <<location, kpage, swap_location, pte, used, disk, data, page_pointer,
                         clock_pointer>>
      BY <1>10, Zenon DEF Halt
    <2>2. pc[p] \notin {"out", "exit", "free", "freed", "install", "mark"}
      BY <2>1, Zenon DEF Evict1
    <2>3. /\ Unmapped(p, x) => Unmapped(p, x)'
          /\ Normal(p, x) => Normal(p, x)'
          /\ Holds(clock_pointer, p, x) <=> Holds(clock_pointer, p, x)'
      BY <2>1, Zenon DEF Unmapped, Normal, Holds
    <2>4. QED
      BY <1>0, <2>1, <2>2, <2>3, Zenon DEF PageOK
  <1>11. CASE SwapScan(p)
    BY <1>0, <1>11, Zenon
       DEF PageOK, Normal, Holds, Evicting, Gone, Leaving, Unmapped, Filled, Mapped, TypeOK,
           PageType, FrameType, DataType, LocalType, SwapScan, Goto
  <1>12. CASE Scan(p)
    BY <1>0, <1>12, Zenon
       DEF PageOK, Normal, Holds, Evicting, Gone, Leaving, Unmapped, Filled, Mapped, TypeOK,
           PageType, FrameType, DataType, LocalType, Scan, Goto
  <1>13. CASE Reset(p) \/ UnmapsNone(p)
    <2>1. CASE Reset(p)
      BY <1>0, <2>1, Zenon
         DEF PageOK, Normal, Holds, Evicting, Gone, Leaving, Unmapped, Filled, Mapped, TypeOK,
           PageType, FrameType, DataType, LocalType, Reset, Goto
    <2>2. CASE UnmapsNone(p)
      <3>1. /\ pc[p] \notin Clearing /\ clock_pointer \in Frame
            /\ frame_pagedir[clock_pointer] # NULL /\ frame_upage[clock_pointer] = NULL
        BY <2>2, Zenon DEF UnmapsNone, Directory, Clearing
      <3>2. QED
        BY <1>0, <3>1, Settled, Zenon DEF Whole, Blank
    <2>3. QED
      BY <1>13, <2>1, <2>2, Zenon
  <1>14. ASSUME NEW q \in Proc, NEW w \in UPage, NEW s \in Slot, SwapOut(p, q, w, s) PROVE PageOK(p, x)'
    <2>1. /\ page_pointer[clock_pointer] = <<q, w>> /\ kp[p] = clock_pointer /\ s \notin used
          /\ pc[p] = "swapping"
      BY <1>0, <1>14, Zenon DEF SwapOut, StepOK
    <2>2. q = p /\ (Holds(clock_pointer, p, x) <=> x = w)
      <3>1. Holds(clock_pointer, q, w) /\ clock_pointer \in Frame
        BY <1>0, <2>1, HandIn, Zenon DEF Holds
      <3>2. QED
        BY <1>0, <3>1, OwnFrame, HoldsOne, Zenon
    <2>3. /\ UNCHANGED <<location, kpage, pte, page_pointer, clock_pointer, data>>
          /\ pc'[p] = "upage" /\ used' = used \cup {s}
          /\ swap_location'[p][x] = IF x = w THEN s ELSE swap_location[p][x]
      BY <1>0, <1>14, <2>2, Zenon DEF SwapOut, Goto, TypeOK, PageType, LocalType
    <2>4. disk'[s] = data[clock_pointer]
      BY <1>0, <1>14, <2>1, Zenon DEF SwapOut, TypeOK, DataType
    <2>5. CASE x = w
      <3>1. Unmapped(p, x)
        BY <1>0, <2>1, <2>2, <2>5, Zenon DEF PageOK, Evicting
      <3>2. Unmapped(p, x)'
        BY <2>1, <2>3, <2>4, <2>5, <3>1, Zenon DEF Unmapped
      <3>3. QED
        BY <2>2, <2>3, <2>5, <3>2, Zenon DEF PageOK, Evicting, Holds
    <2>6. CASE x # w
      <3>1. Normal(p, x)
        BY <1>0, <2>1, <2>2, <2>6, Zenon DEF PageOK, Evicting
      <3>2. Normal(p, x)'
        BY <2>3, <2>6, <3>1, Zenon DEF Normal, Holds
      <3>3. QED
        BY <2>2, <2>3, <2>6, <3>2, Zenon DEF PageOK, Evicting, Holds
    <2>7. QED
      BY <2>5, <2>6, Zenon
  <1>15. ASSUME NEW i \in Frame, NEW q \in Proc, NEW w \in UPage, InSwap(p, i, q, w)
         PROVE  PageOK(p, x)'
    <2>1. pc[p] = "location" /\ clock_pointer = i /\ Holds(i, q, w)
      BY <1>15, Zenon DEF InSwap, Holds
    <2>2. q = p /\ (Holds(i, p, x) <=> x = w)
      BY <1>0, <2>1, OwnFrame, HoldsOne, Zenon
    <2>3. /\ UNCHANGED <<kpage, swap_location, pte, used, disk, data, page_pointer, clock_pointer>>
          /\ pc'[p] = "kpage" /\ location'[p][x] = IF x = w THEN "swap" ELSE location[p][x]
      BY <1>0, <1>15, <2>2, Zenon DEF InSwap, Goto, TypeOK, PageType, LocalType
    <2>4. CASE x = w
      <3>1. Unmapped(p, x)
        BY <1>0, <2>1, <2>2, <2>4, Zenon DEF PageOK, Evicting
      <3>2. Unmapped(p, x)'
        BY <2>1, <2>3, <2>4, <3>1, Zenon DEF Unmapped
      <3>3. QED
        BY <2>1, <2>2, <2>3, <2>4, <3>2, Zenon DEF PageOK, Evicting, Holds
    <2>5. CASE x # w
      <3>1. Normal(p, x)
        BY <1>0, <2>1, <2>2, <2>5, Zenon DEF PageOK, Evicting
      <3>2. Normal(p, x)'
        BY <2>3, <2>5, <3>1, Zenon DEF Normal, Holds
      <3>3. QED
        BY <2>1, <2>2, <2>3, <2>5, <3>2, Zenon DEF PageOK, Evicting, Holds
    <2>6. QED
      BY <2>4, <2>5, Zenon
  <1>16. ASSUME NEW u \in UPage, NEW i \in Frame, FromFile(p, u, i) PROVE PageOK(p, x)'
    BY <1>0, <1>16, Zenon
       DEF PageOK, Normal, Holds, Evicting, Gone, Leaving, Unmapped, Filled, Mapped, TypeOK,
           PageType, FrameType, DataType, LocalType, FromFile, Goto
  <1>17. ASSUME NEW u \in UPage, NEW i \in Frame, NEW s \in Slot, FromSwap(p, u, i, s) PROVE PageOK(p, x)'
    <2>1. pc[p] = "fill" /\ Normal(p, x)
      BY <1>0, <1>17, Zenon DEF FromSwap, PageOK, Evicting
    <2>2. /\ UNCHANGED <<location, kpage, pte, page_pointer, upage>>
          /\ pc'[p] = "install" /\ upage[p] = u /\ location[p][u] = "swap"
          /\ swap_location[p][u] = s /\ used' = used \ {s}
          /\ swap_location'[p][x] = IF x = u THEN NULL ELSE swap_location[p][x]
      BY <1>0, <1>17, Zenon DEF FromSwap, Goto, TypeOK, PageType, LocalType
    <2>3. CASE x = u
      <3>1. Filled(p, x)'
        BY <2>1, <2>2, <2>3, Zenon DEF Normal, Filled
      <3>2. QED
        BY <2>2, <2>3, <3>1, Zenon DEF PageOK, Evicting
    <2>4. CASE x # u
      <3>1. swap_location[p][x] # s
        BY <1>0, <2>2, <2>4, Zenon DEF AInv, SlotsApart
      <3>2. Normal(p, x)'
        BY <2>1, <2>2, <2>4, <3>1, Zenon DEF Normal, Holds
      <3>3. QED
        BY <2>2, <2>4, <3>2, Zenon DEF PageOK, Evicting
    <2>5. QED
      BY <2>3, <2>4, Zenon
  <1>18. ASSUME NEW u \in UPage, NewStack(p, u) PROVE PageOK(p, x)'
    BY <1>0, <1>18, Zenon
       DEF PageOK, Normal, Holds, Evicting, Gone, Leaving, Unmapped, Filled, Mapped, TypeOK,
           PageType, FrameType, DataType, LocalType, NewStack, Goto
  <1>19. ASSUME NEW u \in UPage, NEW i \in Frame, Installed(p, u, i) PROVE PageOK(p, x)'
    <2>1. /\ pc[p] = "install" /\ upage[p] = u /\ kp[p] = i
          /\ page_pointer[i] = NULL
      BY <1>0, <1>19, Zenon DEF Installed, StepOK
    <2>2. /\ UNCHANGED <<location, kpage, swap_location, used, upage, kp>> /\ pc'[p] = "mark"
          /\ pte'[p][x] = IF x = u THEN i ELSE pte[p][x]
          /\ page_pointer'[i] = <<p, u>>
          /\ \A j \in Frame : j # i => page_pointer'[j] = page_pointer[j]
      BY <1>0, <1>19, Zenon DEF Installed, Goto, TypeOK, PageType, FrameType, LocalType
    <2>3. CASE x = u
      <3>1. Mapped(p, x)'
        <4>1. Filled(p, x)
          BY <1>0, <2>1, <2>3, Zenon DEF PageOK
        <4>2. QED
          BY <2>1, <2>2, <2>3, <4>1, Zenon DEF Filled, Mapped, Holds
      <3>2. QED
        BY <2>1, <2>2, <2>3, <3>1, Zenon DEF PageOK, Evicting
    <2>4. CASE x # u
      <3>1. Normal(p, x)
        BY <1>0, <2>1, <2>4, Zenon DEF PageOK, Evicting
      <3>2. location[p][x] = "frame" => kpage[p][x] # i
        BY <2>1, <3>1, HoldsOne, Zenon DEF Normal
      <3>3. Normal(p, x)'
        BY <2>2, <2>4, <3>1, <3>2, Zenon DEF Normal, Holds
      <3>4. QED
        BY <2>1, <2>2, <2>4, <3>3, Zenon DEF PageOK, Evicting
    <2>5. QED
      BY <2>3, <2>4, Zenon
  <1>20. ASSUME NEW u \in UPage, NEW i \in Frame, Marked(p, u, i) PROVE PageOK(p, x)'
    BY <1>0, <1>20, Zenon
       DEF PageOK, Normal, Holds, Evicting, Gone, Leaving, Unmapped, Filled, Mapped, TypeOK,
           PageType, FrameType, DataType, LocalType, Marked, Goto, Forget
  <1>21. ASSUME NEW u \in UPage, ClearTest(p, u) PROVE PageOK(p, x)'
    BY <1>0, <1>21, Zenon
       DEF PageOK, Normal, Holds, Evicting, Gone, Leaving, Unmapped, Filled, Mapped, TypeOK,
           PageType, FrameType, DataType, LocalType, ClearTest, Goto
  <1>22. ASSUME NEW k \in Frame \cup {NULL}, Freed(p, k) PROVE PageOK(p, x)'
    <2>1. PICK u \in UPage : upage[p] = u
      BY <1>0, <1>22, Zenon DEF Freed, PlaceOK
    <2>2. /\ pc[p] = "free" /\ k = kpage[p][u]
          /\ Leaving(p, x) /\ Leaving(p, u) /\ location[p][u] = "frame"
      BY <1>0, <1>22, <2>1, Zenon DEF Freed, StepOK, AInv, PageOK
    <2>3. /\ UNCHANGED <<swap_location, used, location, kpage, upage>> /\ pc'[p] = "freed"
      BY <1>0, <1>22, Zenon DEF Freed, Goto, TypeOK, LocalType
    <2>4. ASSUME NEW i \in Frame, Holds(i, p, x), x # u PROVE Holds(i, p, x)'
      <3>1. k # NULL => i # k
        BY <2>2, <2>4, HoldsOne DEF Leaving
      <3>2. QED
        BY <1>0, <1>22, <2>4, <3>1, Zenon DEF Freed, FrameFree, Holds, TypeOK, FrameType
    <2>5. Leaving(p, x)'
      BY <2>1, <2>2, <2>3, <2>4, Zenon DEF Leaving
    <2>6. QED
      BY <2>3, <2>5, Zenon DEF PageOK, Evicting
  <1>23. ASSUME NEW k \in Frame \cup {NULL}, Quit(p, k) PROVE PageOK(p, x)'
    <2>1. /\ UNCHANGED <<location, kpage, swap_location>> /\ pc'[p] = "exit" /\ used \subseteq used'
          /\ page_pointer' = IF k = NULL THEN page_pointer ELSE [page_pointer EXCEPT ![k] = NULL]
      BY <1>0, <1>23, Zenon DEF Quit, FrameFree, Goto, TypeOK, LocalType
    <2>2. \/ pc[p] = "nothing" /\ k = NULL
          \/ pc[p] = "fill" /\ k = kp[p]
          \/ pc[p] = "install" /\ k = kp[p] /\ Failures
      <3>1. pc[p] = "install" => pte[p][upage[p]] = NULL /\ frame_upage[kp[p]] = NULL
        <4>1. pc[p] = "install" => /\ pte[p][upage[p]] = NULL /\ page_pointer[kp[p]] = NULL
                                   /\ pc[p] \notin Clearing /\ kp[p] \in Frame
          BY <1>0, Zenon DEF AInv, PageOK, Filled, StepOK, PlaceOK, Serving, Clearing
        <4>2. ASSUME NEW i \in Frame, Whole(i) PROVE page_pointer[i] # NULL
          <5>1. PICK a \in Proc, y \in UPage : page_pointer[i] = <<a, y>>
            BY <1>0, <4>2, Zenon DEF Whole, TypeOK, FrameType
          <5>2. QED
            BY <5>1, NullApart, Zenon
        <4>3. QED
          BY <1>0, <4>1, <4>2, Settled, Zenon DEF Blank
      <3>2. /\ pc[p] = "swapping" => victim[p] # NULL
            /\ pc[p] \in {"location", "kpage"} => page_pointer[clock_pointer] # NULL
        BY <1>0, Zenon DEF StepOK, Evicting
      <3>3. QED
        BY <1>23, <3>1, <3>2, Zenon DEF Quit
    <2>3. k # NULL => page_pointer[k] = NULL
      BY <1>0, <2>2, Zenon DEF StepOK
    <2>4. \A i \in Frame : Holds(i, p, x) => Holds(i, p, x)'
      BY <1>0, <2>1, <2>3, Zenon DEF Holds, TypeOK, FrameType
    <2>5. Normal(p, x) \/ (pc[p] = "install" /\ Filled(p, x))
      BY <1>0, <2>2, Zenon DEF PageOK, Evicting
    <2>6. Leaving(p, x)'
      <3>1. CASE Normal(p, x)
        <4>1. ASSUME location[p][x] = "frame"
              PROVE  kpage'[p][x] \in Frame /\ page_pointer'[kpage'[p][x]] = <<p, x>>
          <5>1. PICK i \in Frame : i = kpage[p][x] /\ Holds(i, p, x)
            BY <3>1, <4>1, Zenon DEF Normal
          <5>2. QED
            BY <2>1, <2>4, <5>1, Zenon DEF Holds
        <4>2. swap_location[p][x] # NULL => swap_location[p][x] \in used
          BY <1>0, <3>1 DEF Normal, TypeOK, PageType
        <4>3. QED
          BY <2>1, <4>1, <4>2, Zenon DEF Leaving, Holds
      <3>2. CASE pc[p] = "install" /\ Filled(p, x)
        BY <2>1, <2>2, <3>2, Zenon DEF Leaving, Filled
      <3>3. QED
        BY <2>5, <3>1, <3>2, Zenon
    <2>7. QED
      BY <2>1, <2>6, Zenon DEF PageOK, Evicting
  <1>24. CASE Die(p)
    BY <1>0, <1>24, Zenon
       DEF PageOK, Normal, Holds, Evicting, Gone, Leaving, Unmapped, Filled, Mapped, TypeOK,
           PageType, FrameType, DataType, LocalType, Die, Goto
  <1>25. ASSUME NEW u \in UPage, Cleared(p, u) PROVE PageOK(p, x)'
    <2>1. pc[p] = "freed" /\ upage[p] = u /\ Leaving(p, x)
      BY <1>0, <1>25, Zenon DEF Cleared, PageOK
    <2>2. /\ UNCHANGED <<swap_location, used, page_pointer>> /\ pc'[p] = "exit"
          /\ location'[p][x] = IF x = u THEN "none" ELSE location[p][x]
          /\ kpage'[p][x] = IF x = u THEN NULL ELSE kpage[p][x]
      BY <1>0, <1>25, Zenon DEF Cleared, Goto, TypeOK, PageType, LocalType
    <2>3. Leaving(p, x)'
      BY <2>1, <2>2, Zenon DEF Leaving, Holds
    <2>4. QED
      BY <2>2, <2>3, Zenon DEF PageOK, Evicting
  <1>26. ASSUME NEW q \in Proc, NEW w \in UPage, Unmapping(p, q, w) PROVE PageOK(p, x)'
    <2>1. /\ pc[p] = "unmap" /\ clock_pointer \in Frame
          /\ frame_pagedir[clock_pointer] = q /\ frame_upage[clock_pointer] = w
      BY <1>26, Zenon DEF Unmapping, Directory
    <2>2. q = p /\ Holds(clock_pointer, p, w)
      <3>1. Whole(clock_pointer)
        BY <1>0, <2>1, Settled, NullApart, Zenon DEF Blank, Clearing
      <3>2. Holds(clock_pointer, q, w)
        BY <2>1, <3>1, Zenon DEF Whole, Holds
      <3>3. QED
        BY <1>0, <2>1, <3>2, OwnFrame, Zenon
    <2>3. Normal(p, x) /\ EntryOK(clock_pointer, p, w)
      BY <1>0, <2>1, Zenon DEF PageOK, Evicting, FieldInv, EntryInv, Going
    <2>4. /\ UNCHANGED <<location, kpage, swap_location, page_pointer, clock_pointer, used>>
          /\ pc'[p] = "swapout" /\ pte'[p][x] = IF x = w THEN NULL ELSE pte[p][x]
      BY <1>0, <1>26, <2>2, Zenon DEF Unmapping, Goto, TypeOK, PageType, LocalType
    <2>5. Holds(clock_pointer, p, x)' <=> x = w
      BY <2>2, <2>4 DEF Holds
    <2>6. CASE x = w
      <3>1. Unmapped(p, x)'
        BY <2>1, <2>2, <2>3, <2>4, <2>6, Zenon DEF Unmapped, Normal, EntryOK
      <3>2. QED
        BY <2>4, <2>5, <2>6, <3>1, Zenon DEF PageOK, Evicting
    <2>7. CASE x # w
      <3>1. Normal(p, x)'
        BY <2>3, <2>4, <2>7, Zenon DEF Normal, Holds
      <3>2. QED
        BY <2>4, <2>5, <2>7, <3>1, Zenon DEF PageOK, Evicting
    <2>8. QED
      BY <2>6, <2>7, Zenon
  <1>27. CASE ClearUpage(p) \/ ClearPagedir(p)
    <2>1. /\ UNCHANGED <<location, kpage, swap_location, pte, used, disk, data, page_pointer,
                         clock_pointer>>
          /\ \/ pc[p] = "upage" /\ pc'[p] = "pagedir"
             \/ pc[p] = "pagedir" /\ pc'[p] = "location"
      BY <1>0, <1>27, Zenon DEF ClearUpage, ClearPagedir, Goto, TypeOK, LocalType
    <2>2. /\ Unmapped(p, x) => Unmapped(p, x)'
          /\ Normal(p, x) => Normal(p, x)'
          /\ Holds(clock_pointer, p, x) <=> Holds(clock_pointer, p, x)'
      BY <2>1, Zenon DEF Unmapped, Normal, Holds
    <2>3. QED
      BY <1>0, <2>1, <2>2, Zenon DEF PageOK, Evicting
  <1>28. CASE ClearPointer(p)
    <2>1. /\ pc[p] = "pointer" /\ pc'[p] = "count"
          /\ UNCHANGED <<location, kpage, swap_location, pte, used>>
          /\ \A j \in Frame : j # clock_pointer => page_pointer'[j] = page_pointer[j]
      BY <1>0, <1>28, Zenon DEF ClearPointer, Goto, TypeOK, FrameType, LocalType
    <2>2. CASE Holds(clock_pointer, p, x)
      <3>1. Unmapped(p, x)
        BY <1>0, <2>1, <2>2, Zenon DEF PageOK, Evicting
      <3>2. Normal(p, x)'
        BY <2>1, <3>1, Zenon DEF Unmapped, Normal
      <3>3. QED
        BY <2>1, <3>2, Zenon DEF PageOK, Evicting
    <2>3. CASE ~ Holds(clock_pointer, p, x)
      <3>1. Normal(p, x)
        BY <1>0, <2>1, <2>3, Zenon DEF PageOK, Evicting
      <3>2. Normal(p, x)'
        BY <2>1, <2>3, <3>1, Zenon DEF Normal, Holds
      <3>3. QED
        BY <2>1, <3>2, Zenon DEF PageOK, Evicting
    <2>4. QED
      BY <2>2, <2>3, Zenon
  <1>29. CASE Uncount(p) \/ SetResult(p)
    BY <1>0, <1>29, Zenon
       DEF PageOK, Normal, Holds, Evicting, Gone, Leaving, Unmapped, Filled, Mapped, TypeOK,
           PageType, FrameType, DataType, LocalType, Uncount, SetResult, Goto
  <1>30. CASE Tick(p) \/ Wrap(p)
    BY <1>0, <1>30, Zenon
       DEF PageOK, Normal, Holds, Evicting, Gone, Leaving, Unmapped, Filled, Mapped, TypeOK,
           PageType, FrameType, DataType, LocalType, Tick, Wrap, Goto
  <1>31. ASSUME NEW i \in Frame, NEW q \in Proc, NEW w \in UPage, OutOfFrame(p, i, q, w)
         PROVE  PageOK(p, x)'
    <2>1. pc[p] = "kpage" /\ clock_pointer = i /\ Holds(i, q, w)
      BY <1>31, Zenon DEF OutOfFrame, Holds
    <2>2. q = p /\ (Holds(i, p, x) <=> x = w)
      BY <1>0, <2>1, OwnFrame, HoldsOne, Zenon
    <2>3. /\ UNCHANGED <<location, swap_location, pte, used, disk, data, page_pointer, clock_pointer>>
          /\ pc'[p] = "pointer" /\ kpage'[p][x] = IF x = w THEN NULL ELSE kpage[p][x]
      BY <1>0, <1>31, <2>2, Zenon DEF OutOfFrame, Goto, TypeOK, PageType, LocalType
    <2>4. CASE x = w
      <3>1. Unmapped(p, x)
        BY <1>0, <2>1, <2>2, <2>4, Zenon DEF PageOK, Evicting
      <3>2. Unmapped(p, x)'
        BY <2>1, <2>3, <2>4, <3>1, Zenon DEF Unmapped
      <3>3. QED
        BY <2>1, <2>2, <2>3, <2>4, <3>2, Zenon DEF PageOK, Evicting, Holds
    <2>5. CASE x # w
      <3>1. Normal(p, x)
        BY <1>0, <2>1, <2>2, <2>5, Zenon DEF PageOK, Evicting
      <3>2. Normal(p, x)'
        BY <2>3, <2>5, <3>1, Zenon DEF Normal, Holds
      <3>3. QED
        BY <2>1, <2>2, <2>3, <2>5, <3>2, Zenon DEF PageOK, Evicting, Holds
    <2>6. QED
      BY <2>4, <2>5, Zenon
  <1>32. QED
    BY <1>1, <1>2, <1>3, <1>4, <1>5, <1>6, <1>7, <1>8, <1>9, <1>10, <1>11, <1>12, <1>13, <1>14,
       <1>15, <1>16, <1>17, <1>18, <1>19, <1>20, <1>21, <1>22, <1>23, <1>24, <1>25, <1>26, <1>27,
       <1>28, <1>29, <1>30, <1>31, <1>0, NextCases, Zenon
       DEF Alternatives

LEMMA NextStepOK ==
  ASSUME Alone, VInv, AInv, NEW p \in Proc, ~ panic, KernelStep(p) \/ UserStep(p), ~ panic'
  PROVE  StepOK(p)'
  <1> USE NullApart DEF spt, frame_table, frames, swap, locals
  <1>0. /\ TypeOK /\ PlaceOK /\ StepOK(p) /\ BusyOK(p)
        /\ \A r \in Proc : r # p => pc[r] = "out"
    BY Solo, Zenon DEF VInv, AInv, FieldInv
  <1>1. CASE Start(p)
    <2>1. First \in UPage
      BY VmAssumption, Zenon DEF UPage
    <2>2. /\ pc'[p] = "find" /\ upage'[p] = First
          /\ location'[p][First] \in {"filesys", "none"}
      BY <1>0, <1>1, <2>1, Zenon DEF Start, Goto, TypeOK, PageType, LocalType
    <2>3. QED
      BY <2>2, Zenon DEF StepOK, Serving, Evict1, Evicting
  <1>2. CASE Exit(p)
    BY <1>0, <1>2, Zenon
       DEF StepOK, PlaceOK, Serving, Evict1, Evicting, TypeOK, PageType, FrameType, LocalType, Exit, Goto
  <1>3. ASSUME NEW u \in UPage, Read(p, u) PROVE StepOK(p)'
    BY <1>0, <1>3, Zenon
       DEF StepOK, PlaceOK, Serving, Evict1, Evicting, TypeOK, PageType, FrameType, LocalType, Read
  <1>4. ASSUME NEW u \in UPage, Fault(p, u) PROVE StepOK(p)'
    BY <1>0, <1>4, Zenon
       DEF StepOK, PlaceOK, Serving, Evict1, Evicting, TypeOK, PageType, FrameType, LocalType, Fault,
           Goto
  <1>5. ASSUME NEW u \in UPage, NEW v \in Val, Write(p, u, v) PROVE StepOK(p)'
    BY <1>0, <1>5, Zenon
       DEF StepOK, PlaceOK, Serving, Evict1, Evicting, TypeOK, PageType, FrameType, LocalType, Write
  <1>6. ASSUME NEW i \in Frame, Found(p, i) PROVE StepOK(p)'
    <2>1. page_pointer[i] = NULL
      BY <1>0, <1>6, Settled, Zenon DEF Found, Clearing, Whole, Blank
    <2>2. QED
      BY <1>0, <1>6, <2>1, Zenon
         DEF StepOK, Serving, Evict1, Evicting, TypeOK, LocalType, Found, Goto
  <1>7. CASE FoundNone(p)
    BY <1>0, <1>7, Zenon
       DEF StepOK, PlaceOK, Serving, Evict1, Evicting, TypeOK, PageType, FrameType, LocalType, FoundNone,
           Goto
  <1>8. CASE MustEvict(p)
    BY <1>0, <1>8, Zenon
       DEF StepOK, PlaceOK, Serving, Evict1, Evicting, TypeOK, PageType, FrameType, LocalType, MustEvict,
           Goto
  <1>9. CASE Retry(p)
    BY <1>0, <1>9, Zenon
       DEF StepOK, PlaceOK, Serving, Evict1, Evicting, TypeOK, PageType, FrameType, LocalType, Retry,
           Goto, Forget
  <1>10. CASE Halt(p)
    BY <1>0, <1>10, Zenon
       DEF StepOK, PlaceOK, Serving, Evict1, Evicting, TypeOK, PageType, FrameType, LocalType, Halt,
           Forget
  <1>11. CASE SwapScan(p)
    <2>1. slot'[p] # NULL => slot'[p] \notin used
      <3>1. PICK s : /\ s = NULL \/ s \in Slot \ used
                     /\ slot' = [slot EXCEPT ![p] = s]
        BY <1>11, Zenon DEF SwapScan, Least
      <3>2. QED
        BY <1>0, <3>1, Zenon DEF TypeOK, LocalType
    <2>2. QED
      BY <1>0, <1>11, <2>1, Zenon
         DEF StepOK, Serving, Evict1, Evicting, TypeOK, FrameType, LocalType, SwapScan, Goto
  <1>12. CASE Scan(p)
    BY <1>0, <1>12, Zenon
       DEF StepOK, PlaceOK, Serving, Evict1, Evicting, TypeOK, PageType, FrameType, LocalType, Scan, Goto
  <1>13. CASE Reset(p) \/ UnmapsNone(p)
    <2>1. CASE Reset(p)
      BY <1>0, <2>1, Zenon
         DEF StepOK, Serving, Evict1, Evicting, TypeOK, LocalType, Reset, Goto
    <2>2. CASE UnmapsNone(p)
      <3>1. /\ pc[p] \notin Clearing /\ clock_pointer \in Frame
            /\ frame_pagedir[clock_pointer] # NULL /\ frame_upage[clock_pointer] = NULL
        BY <2>2, Zenon DEF UnmapsNone, Directory, Clearing
      <3>2. QED
        BY <1>0, <3>1, Settled, Zenon DEF Whole, Blank
    <2>3. QED
      BY <1>13, <2>1, <2>2, Zenon
  <1>14. ASSUME NEW q \in Proc, NEW w \in UPage, NEW s \in Slot, SwapOut(p, q, w, s) PROVE StepOK(p)'
    BY <1>0, <1>14, Zenon
       DEF StepOK, PlaceOK, Serving, Evict1, Evicting, TypeOK, PageType, FrameType, LocalType, SwapOut,
           Goto
  <1>15. ASSUME NEW i \in Frame, NEW q \in Proc, NEW w \in UPage, InSwap(p, i, q, w)
         PROVE  StepOK(p)'
    <2>1. /\ UNCHANGED <<page_pointer, clock_pointer, upage>> /\ pc[p] \in Evicting
          /\ pc'[p] = "kpage" /\ pc[p] \in Serving \ {"install"} /\ upage[p] \in UPage
      BY <1>0, <1>15, Zenon
         DEF InSwap, Goto, TypeOK, LocalType, Evicting, Serving, Evict1, PlaceOK
    <2>2. location'[p][upage[p]] \in {location[p][upage[p]], "swap"}
      BY <1>0, <1>15, <2>1, Zenon DEF InSwap, TypeOK, PageType
    <2>3. QED
      BY <1>0, <2>1, <2>2, Zenon DEF StepOK, Serving, Evict1, Evicting
  <1>16. ASSUME NEW u \in UPage, NEW i \in Frame, FromFile(p, u, i) PROVE StepOK(p)'
    BY <1>0, <1>16, Zenon
       DEF StepOK, PlaceOK, Serving, Evict1, Evicting, TypeOK, PageType, FrameType, LocalType, FromFile,
           Goto
  <1>17. ASSUME NEW u \in UPage, NEW i \in Frame, NEW s \in Slot, FromSwap(p, u, i, s) PROVE StepOK(p)'
    BY <1>0, <1>17, Zenon
       DEF StepOK, PlaceOK, Serving, Evict1, Evicting, TypeOK, PageType, FrameType, LocalType, FromSwap,
           Goto
  <1>18. ASSUME NEW u \in UPage, NewStack(p, u) PROVE StepOK(p)'
    BY <1>0, <1>18, Zenon
       DEF StepOK, PlaceOK, Serving, Evict1, Evicting, TypeOK, PageType, FrameType, LocalType, NewStack,
           Goto
  <1>19. ASSUME NEW u \in UPage, NEW i \in Frame, Installed(p, u, i) PROVE StepOK(p)'
    BY <1>0, <1>19, Zenon
       DEF StepOK, PlaceOK, Serving, Evict1, Evicting, TypeOK, PageType, FrameType, LocalType, Installed,
           Goto
  <1>20. ASSUME NEW u \in UPage, NEW i \in Frame, Marked(p, u, i) PROVE StepOK(p)'
    BY <1>0, <1>20, Zenon
       DEF StepOK, PlaceOK, Serving, Evict1, Evicting, TypeOK, PageType, FrameType, LocalType, Marked,
           Goto, Forget
  <1>21. ASSUME NEW u \in UPage, ClearTest(p, u) PROVE StepOK(p)'
    BY <1>0, <1>21, Zenon
       DEF StepOK, PlaceOK, Serving, Evict1, Evicting, TypeOK, PageType, FrameType, LocalType, ClearTest,
           Goto
  <1>22. ASSUME NEW k \in Frame \cup {NULL}, Freed(p, k) PROVE StepOK(p)'
    BY <1>0, <1>22, Zenon
       DEF StepOK, Serving, Evict1, Evicting, TypeOK, LocalType, Freed, FrameFree, Goto
  <1>23. ASSUME NEW k \in Frame \cup {NULL}, Quit(p, k) PROVE StepOK(p)'
    BY <1>0, <1>23, Zenon
       DEF StepOK, PlaceOK, Serving, Evict1, Evicting, TypeOK, PageType, FrameType, LocalType, Quit,
           FrameFree, Goto, Forget
  <1>24. CASE Die(p)
    BY <1>0, <1>24, Zenon
       DEF StepOK, PlaceOK, Serving, Evict1, Evicting, TypeOK, PageType, FrameType, LocalType, Die, Goto
  <1>25. ASSUME NEW u \in UPage, Cleared(p, u) PROVE StepOK(p)'
    BY <1>0, <1>25, Zenon
       DEF StepOK, Serving, Evict1, Evicting, TypeOK, LocalType, Cleared, Goto, Forget
  <1>26. ASSUME NEW q \in Proc, NEW w \in UPage, Unmapping(p, q, w) PROVE StepOK(p)'
    <2>1. /\ pc[p] \notin Clearing /\ clock_pointer \in Frame
          /\ frame_upage[clock_pointer] = w
      BY <1>26, Zenon DEF Unmapping, Directory, Clearing
    <2>2. page_pointer[clock_pointer] # NULL
      <3>1. Whole(clock_pointer)
        BY <1>0, <2>1, Settled, Zenon DEF Blank
      <3>2. PICK a \in Proc, y \in UPage : page_pointer[clock_pointer] = <<a, y>>
        BY <1>0, <2>1, <3>1, Zenon DEF Whole, TypeOK, FrameType
      <3>3. QED
        BY <3>2, Zenon
    <2>3. QED
      BY <1>0, <1>26, <2>2, Zenon
         DEF StepOK, Serving, Evict1, Evicting, TypeOK, LocalType, Unmapping, Goto
  <1>27. CASE ClearUpage(p) \/ ClearPagedir(p)
    BY <1>0, <1>27, Zenon
       DEF StepOK, PlaceOK, Serving, Evict1, Evicting, TypeOK, PageType, FrameType, LocalType, ClearUpage, ClearPagedir, Goto
  <1>28. CASE ClearPointer(p)
    BY <1>0, <1>28, Zenon
       DEF StepOK, Serving, Evict1, Evicting, TypeOK, LocalType, ClearPointer, Goto
  <1>29. CASE Uncount(p) \/ SetResult(p)
    <2>1. CASE Uncount(p)
      <3>1. page_pointer[clock_pointer] = NULL
        BY <1>0, <2>1, Zenon DEF Uncount, BusyOK, Clearing
      <3>2. QED
        BY <1>0, <2>1, <3>1, Zenon
           DEF StepOK, Serving, Evict1, Evicting, TypeOK, LocalType, Uncount, Goto
    <2>2. CASE SetResult(p)
      BY <1>0, <2>2, Zenon
         DEF StepOK, Serving, Evict1, Evicting, TypeOK, LocalType, SetResult, Goto
    <2>3. QED
      BY <1>29, <2>1, <2>2, Zenon
  <1>30. CASE Tick(p) \/ Wrap(p)
    <2>1. CASE Tick(p)
      BY <1>0, <2>1, Zenon DEF StepOK, Serving, Evict1, Evicting, TypeOK, LocalType, Tick, Goto
    <2>2. CASE Wrap(p)
      BY <1>0, <2>2, Zenon DEF StepOK, Serving, Evict1, Evicting, TypeOK, LocalType, Wrap, Goto
    <2>3. QED
      BY <1>30, <2>1, <2>2, Zenon
  <1>31. ASSUME NEW i \in Frame, NEW q \in Proc, NEW w \in UPage, OutOfFrame(p, i, q, w)
         PROVE  StepOK(p)'
    <2>1. /\ UNCHANGED <<page_pointer, clock_pointer, upage>> /\ pc[p] \in Evicting
          /\ pc'[p] = "pointer" /\ pc[p] \in Serving \ {"install"} /\ upage[p] \in UPage
      BY <1>0, <1>31, Zenon
         DEF OutOfFrame, Goto, TypeOK, LocalType, Evicting, Serving, Evict1, PlaceOK
    <2>2. location'[p][upage[p]] \in {location[p][upage[p]], "swap"}
      BY <1>0, <1>31, <2>1, Zenon DEF OutOfFrame, TypeOK, PageType
    <2>3. QED
      BY <1>0, <2>1, <2>2, Zenon DEF StepOK, Serving, Evict1, Evicting
  <1>32. QED
    BY <1>1, <1>2, <1>3, <1>4, <1>5, <1>6, <1>7, <1>8, <1>9, <1>10, <1>11, <1>12, <1>13, <1>14,
       <1>15, <1>16, <1>17, <1>18, <1>19, <1>20, <1>21, <1>22, <1>23, <1>24, <1>25, <1>26, <1>27,
       <1>28, <1>29, <1>30, <1>31, <1>0, NextCases, Zenon
       DEF Alternatives

(* A slot that a page has is marked. *)
LEMMA SlotsUsed ==
  ASSUME VInv, AInv, NEW p \in Proc, NEW u \in UPage, swap_location[p][u] # NULL
  PROVE  swap_location[p][u] \in used
  <1>1. /\ PageOK(p, u) /\ location[p][u] \in {"none", "filesys", "frame", "swap"}
    BY Zenon DEF VInv, TypeOK, PageType, AInv
  <1>2. \/ Gone(p, u) \/ Leaving(p, u) \/ Unmapped(p, u) \/ Filled(p, u) \/ Mapped(p, u)
        \/ Normal(p, u)
    BY <1>1, Zenon DEF PageOK
  <1>3. QED
    BY <1>1, <1>2, Zenon DEF Gone, Leaving, Unmapped, Filled, Mapped, Normal

LEMMA NextSlots ==
  ASSUME Alone, VInv, AInv, NEW p \in Proc, ~ panic, KernelStep(p) \/ UserStep(p)
  PROVE  SlotsApart'
  <1> USE DEF spt
  <1> SUFFICES ASSUME NEW a \in Proc, NEW b \in Proc, NEW x \in UPage, NEW z \in UPage,
                      swap_location'[a][x] # NULL, swap_location'[a][x] = swap_location'[b][z]
               PROVE  a = b /\ x = z
    BY DEF SlotsApart
  <1>0. /\ TypeOK /\ PlaceOK /\ StepOK(p)
        /\ swap_location[a][x] # NULL /\ swap_location[a][x] = swap_location[b][z] => a = b /\ x = z
    BY DEF VInv, AInv, SlotsApart
  <1>1. CASE Start(p)
    BY <1>0, <1>1, Zenon DEF Start
  <1>2. CASE Exit(p)
    BY <1>0, <1>2, Zenon DEF Exit
  <1>3. ASSUME NEW u \in UPage, Read(p, u) PROVE a = b /\ x = z
    BY <1>0, <1>3, Zenon DEF Read
  <1>4. ASSUME NEW u \in UPage, Fault(p, u) PROVE a = b /\ x = z
    BY <1>0, <1>4, Zenon DEF Fault
  <1>5. ASSUME NEW u \in UPage, NEW v \in Val, Write(p, u, v) PROVE a = b /\ x = z
    BY <1>0, <1>5, Zenon DEF Write
  <1>6. ASSUME NEW i \in Frame, Found(p, i) PROVE a = b /\ x = z
    BY <1>0, <1>6, Zenon DEF Found
  <1>7. CASE FoundNone(p)
    BY <1>0, <1>7, Zenon DEF FoundNone
  <1>8. CASE MustEvict(p)
    BY <1>0, <1>8, Zenon DEF MustEvict
  <1>9. CASE Retry(p)
    BY <1>0, <1>9, Zenon DEF Retry
  <1>10. CASE Halt(p)
    BY <1>0, <1>10, Zenon DEF Halt
  <1>11. CASE SwapScan(p)
    BY <1>0, <1>11, Zenon DEF SwapScan
  <1>12. CASE Scan(p)
    BY <1>0, <1>12, Zenon DEF Scan
  <1>13. CASE Reset(p) \/ UnmapsNone(p)
    BY <1>0, <1>13, Zenon DEF Reset, UnmapsNone
  <1>14. ASSUME NEW q \in Proc, NEW w \in UPage, NEW s \in Slot, SwapOut(p, q, w, s) PROVE a = b /\ x = z
    <2>1. page_pointer[clock_pointer] = <<q, w>> /\ s \notin used
      BY <1>0, <1>14, NullApart, Zenon DEF SwapOut, StepOK
    <2>2. \A c \in Proc, y \in UPage :
            swap_location'[c][y] = IF c = q /\ y = w THEN s ELSE swap_location[c][y]
      BY <1>0, <1>14, Zenon DEF SwapOut, TypeOK, PageType
    <2>3. swap_location[a][x] # s /\ swap_location[b][z] # s
      BY <2>1, SlotsUsed, NullApart, Zenon
    <2>4. QED
      BY <1>0, <2>2, <2>3
  <1>15. ASSUME NEW i \in Frame, NEW q \in Proc, NEW w \in UPage, InSwap(p, i, q, w)
         PROVE  a = b /\ x = z
    BY <1>0, <1>15, Zenon DEF InSwap
  <1>16. ASSUME NEW u \in UPage, NEW i \in Frame, FromFile(p, u, i) PROVE a = b /\ x = z
    BY <1>0, <1>16, Zenon DEF FromFile
  <1>17. ASSUME NEW u \in UPage, NEW i \in Frame, NEW s \in Slot, FromSwap(p, u, i, s) PROVE a = b /\ x = z
    <2>1. \A c \in Proc, y \in UPage :
            swap_location'[c][y] = IF c = p /\ y = u THEN NULL ELSE swap_location[c][y]
      BY <1>0, <1>17, Zenon DEF FromSwap, TypeOK, PageType
    <2>2. QED
      BY <1>0, <2>1, Zenon
  <1>18. ASSUME NEW u \in UPage, NewStack(p, u) PROVE a = b /\ x = z
    BY <1>0, <1>18, Zenon DEF NewStack
  <1>19. ASSUME NEW u \in UPage, NEW i \in Frame, Installed(p, u, i) PROVE a = b /\ x = z
    BY <1>0, <1>19, Zenon DEF Installed
  <1>20. ASSUME NEW u \in UPage, NEW i \in Frame, Marked(p, u, i) PROVE a = b /\ x = z
    BY <1>0, <1>20, Zenon DEF Marked
  <1>21. ASSUME NEW u \in UPage, ClearTest(p, u) PROVE a = b /\ x = z
    BY <1>0, <1>21, Zenon DEF ClearTest
  <1>22. ASSUME NEW k \in Frame \cup {NULL}, Freed(p, k) PROVE a = b /\ x = z
    BY <1>0, <1>22, Zenon DEF Freed
  <1>23. ASSUME NEW k \in Frame \cup {NULL}, Quit(p, k) PROVE a = b /\ x = z
    BY <1>0, <1>23, Zenon DEF Quit
  <1>24. CASE Die(p)
    <2>1. \A c \in Proc, y \in UPage : swap_location'[c][y] \in {NULL, swap_location[c][y]}
      BY <1>0, <1>24, Zenon DEF Die, TypeOK, PageType
    <2>2. QED
      BY <1>0, <2>1, Zenon
  <1>25. ASSUME NEW u \in UPage, Cleared(p, u) PROVE a = b /\ x = z
    BY <1>0, <1>25, Zenon DEF Cleared
  <1>26. ASSUME NEW q \in Proc, NEW w \in UPage, Unmapping(p, q, w) PROVE a = b /\ x = z
    BY <1>0, <1>26, Zenon DEF Unmapping
  <1>27. CASE ClearUpage(p) \/ ClearPagedir(p)
    BY <1>0, <1>27, Zenon DEF ClearUpage, ClearPagedir
  <1>28. CASE ClearPointer(p)
    BY <1>0, <1>28, Zenon DEF ClearPointer
  <1>29. CASE Uncount(p) \/ SetResult(p)
    BY <1>0, <1>29, Zenon DEF Uncount, SetResult
  <1>30. CASE Tick(p) \/ Wrap(p)
    BY <1>0, <1>30, Zenon DEF Tick, Wrap
  <1>31. ASSUME NEW i \in Frame, NEW q \in Proc, NEW w \in UPage, OutOfFrame(p, i, q, w)
         PROVE  a = b /\ x = z
    BY <1>0, <1>31, Zenon DEF OutOfFrame
  <1>32. QED
    BY <1>1, <1>2, <1>3, <1>4, <1>5, <1>6, <1>7, <1>8, <1>9, <1>10, <1>11, <1>12, <1>13, <1>14,
       <1>15, <1>16, <1>17, <1>18, <1>19, <1>20, <1>21, <1>22, <1>23, <1>24, <1>25, <1>26, <1>27,
       <1>28, <1>29, <1>30, <1>31, <1>0, NextCases, Zenon
       DEF Alternatives

(* The hand comes back to the table at once. *)
LEMMA NextHand ==
  ASSUME Alone, VInv, AInv, NEW p \in Proc, ~ panic, KernelStep(p) \/ UserStep(p)
  PROVE  HandOK'
  <1> USE DEF spt, frame_table, frames, swap, locals
  <1>0. TypeOK /\ PlaceOK /\ (\A r \in Proc : r # p => pc[r] = "out") /\ HandOK
    BY Solo, Zenon DEF VInv, AInv
  <1>1. CASE Tick(p)
    <2>1. clock_pointer \in Frame
      BY <1>0, <1>1, HandIn, Zenon DEF Tick
    <2>2. clock_pointer + 1 \in Frame \/ clock_pointer + 1 = TOTAL_PAGES
      BY <2>1, VmAssumption DEF Frame
    <2>3. pc'[p] = "wrap" /\ clock_pointer' = clock_pointer + 1
      BY <1>0, <1>1, Zenon DEF Tick, Goto, TypeOK, LocalType
    <2>4. QED
      BY <2>2, <2>3, Zenon DEF HandOK
  <1>2. CASE Wrap(p)
    BY <1>0, <1>2, VmAssumption, Zenon DEF Wrap, HandOK
  <1>3. ASSUME UNCHANGED clock_pointer, pc[p] # "wrap" PROVE HandOK'
    BY <1>0, <1>3, HandIn, Zenon DEF HandOK
  <1>4. Tick(p) \/ Wrap(p) \/ Halt(p) \/ (UNCHANGED clock_pointer /\ pc[p] # "wrap")
    <2>1. CASE \/ UserStep(p) \/ FindEmpty(p) \/ NoFrame(p) \/ Fill(p) \/ Install(p) \/ Mark(p)
               \/ Clear(p)
      BY <2>1, Zenon
         DEF UserStep, Start, Exit, Read, Fault, Write, FindEmpty, NoFrame, Fill, ReadFile,
             ReadSwap, AddStack, Install, Mark, Clear, ClearTest, ClearFree, ClearPage, Die
    <2>2. CASE Choose(p) \/ EmptyFrame(p) \/ SetResult(p) \/ EvictStops(p)
      BY <2>2, Zenon DEF Choose, Scan, Reset, Unmap, SwapScan, SwapWrite, EmptyFrame, ClearUpage,
             ClearPagedir, PageLost, SetInSwap, ClearKpage, ClearPointer, Uncount, SetResult, EvictStops
    <2>3. QED
      BY <2>1, <2>2, Zenon DEF KernelStep, Evict
  <1>5. CASE Halt(p)
    BY <1>0, <1>5, Zenon DEF Halt, HandOK
  <1>6. QED
    BY <1>1, <1>2, <1>3, <1>4, <1>5, Zenon

(* The table names the process itself only. *)
LEMMA NextOwned ==
  ASSUME Alone, VInv, AInv, NEW p \in Proc, ~ panic, KernelStep(p) \/ UserStep(p), FieldInv'
  PROVE  Owned'
  <1> SUFFICES ASSUME NEW j \in Frame, NEW r \in Proc, NEW x \in UPage, Holds(j, r, x)'
               PROVE  pc'[r] # "out"
    BY Zenon DEF Owned
  <1>0. TypeOK /\ PlaceOK /\ (\A a \in Proc : a # p => pc[a] = "out")
    BY Solo, Zenon DEF VInv, AInv
  <1>1. CASE ~ Going(j)'
    BY <1>1, Zenon DEF FieldInv, EntryInv, EntryOK
  <1>2. CASE Going(j)'
    <2>1. PICK a \in Proc : pc'[a] \in {"kpage", "pointer"}
      BY <1>2, Zenon DEF Going
    <2>2. a = p
      BY <1>0, <2>1, NextPc, Zenon
    <2>3. UNCHANGED page_pointer
      <3>1. CASE Halt(p) \/ \E q \in Proc, w \in UPage, i \in Frame :
                             InSwap(p, i, q, w) \/ OutOfFrame(p, i, q, w)
        BY <3>1, Zenon DEF Halt, InSwap, OutOfFrame, frames, frame_table
      <3>2. CASE Quiet(p)
        BY <3>2, Zenon DEF Quiet, frame_table
      <3>3. CASE \/ \E u \in UPage, i \in Frame : Installed(p, u, i)
                 \/ \E k \in Frame \cup {NULL} : Freed(p, k) \/ Quit(p, k)
                 \/ ClearUpage(p) \/ ClearPagedir(p) \/ ClearPointer(p) \/ Uncount(p)
        BY <1>0, <2>1, <2>2, <3>3, Zenon DEF Installed, Freed, Quit, ClearUpage, ClearPagedir,
               ClearPointer, Uncount, Goto, TypeOK, LocalType
      <3>4. QED
        BY <1>0, <3>1, <3>2, <3>3, FieldCases, Zenon
    <2>4. r = p
      BY <1>0, <2>3, OwnFrame, Zenon DEF Holds
    <2>5. QED
      BY <2>1, <2>2, <2>4, Zenon
  <1>3. QED
    BY <1>1, <1>2, Zenon

LEMMA NextAInv ==
  ASSUME Alone, VInv, AInv, NEW p \in Proc, ~ panic, KernelStep(p) \/ UserStep(p), VInv'
  PROVE  AInv'
  <1>0. \A r \in Proc : r # p =>
          /\ pc[r] = "out" /\ pc'[r] = pc[r]
          /\ location'[r] = location[r] /\ kpage'[r] = kpage[r]
          /\ swap_location'[r] = swap_location[r] /\ pte'[r] = pte[r]
    BY Solo, OthersKept, Zenon DEF AInv
  <1>1. OnlyOne'
    BY <1>0, Zenon DEF OnlyOne
  <1>2. ASSUME NEW r \in Proc, r # p, NEW u \in UPage PROVE PageOK(r, u)' /\ StepOK(r)'
    <2>1. pc'[r] = "out" /\ Gone(r, u)
      BY <1>0, <1>2, Zenon DEF AInv, PageOK
    <2>2. Gone(r, u)'
      BY <1>0, <1>2, <2>1, Zenon DEF Gone
    <2>3. QED
      BY <2>1, <2>2, Zenon DEF PageOK, StepOK, Evicting, Serving, Evict1
  <1>3. UPage # {}
    BY VmAssumption, Zenon DEF UPage
  <1>4. ~ panic' => \A r \in Proc : StepOK(r)'
    BY <1>2, <1>3, NextStepOK, Zenon
  <1>5. \A r \in Proc, u \in UPage : PageOK(r, u)'
    BY <1>2, NextPage, Zenon
  <1>6. ~ met'
    <2>1. ~ Disturbs(p)
      BY <1>0, Zenon DEF Disturbs, Clearing
    <2>2. QED
      BY <2>1, Zenon DEF AInv, KernelStep, UserStep, Watch
  <1>7. Owned'
    BY <1>6, NextOwned, Zenon DEF VInv
  <1>8. QED
    BY <1>1, <1>4, <1>5, <1>6, <1>7, NextSlots, NextHand, Zenon DEF AInv

LEMMA InitAInv == Init => AInv
  <1> SUFFICES ASSUME Init PROVE AInv
    BY Zenon
  <1>1. OnlyOne /\ SlotsApart /\ HandOK /\ ~ met
    BY VmAssumption, Zenon DEF Init, OnlyOne, SlotsApart, HandOK
  <1>2. Owned
    BY NullApart, Zenon DEF Init, Owned, Holds
  <1>3. ASSUME NEW p \in Proc PROVE StepOK(p) /\ \A u \in UPage : PageOK(p, u)
    BY Zenon DEF Init, StepOK, PageOK, Gone, Serving, Evict1, Evicting
  <1>4. QED
    BY <1>1, <1>2, <1>3, Zenon DEF AInv

LEMMA StutterAInv == AInv /\ UNCHANGED vars => AInv'
  <1> SUFFICES ASSUME AInv, UNCHANGED vars PROVE AInv'
    BY Zenon
  <1> USE DEF vars, spt, frame_table, frames, swap
  <1>1. ~ met' /\ OnlyOne' /\ HandOK'
    BY Zenon DEF AInv, OnlyOne, HandOK
  <1>5. SlotsApart' /\ Owned'
    BY DEF AInv, SlotsApart, Owned, Holds
  <1>2. ASSUME NEW p \in Proc PROVE StepOK(p) => StepOK(p)'
    BY Zenon DEF StepOK
  <1>3. \A p \in Proc, u \in UPage : PageOK(p, u) => PageOK(p, u)'
    <2> SUFFICES ASSUME NEW p \in Proc, NEW u \in UPage PROVE PageOK(p, u) => PageOK(p, u)'
      BY Zenon
    <2>1. /\ Gone(p, u) => Gone(p, u)'
          /\ Leaving(p, u) => Leaving(p, u)'
          /\ Unmapped(p, u) => Unmapped(p, u)'
          /\ Filled(p, u) => Filled(p, u)'
      BY Zenon DEF Gone, Leaving, Unmapped, Filled, Holds
    <2>2. /\ Mapped(p, u) => Mapped(p, u)'
          /\ Normal(p, u) => Normal(p, u)'
          /\ Holds(clock_pointer, p, u) <=> Holds(clock_pointer, p, u)'
      BY Zenon DEF Mapped, Normal, Holds
    <2>3. QED
      BY <2>1, <2>2, Zenon DEF PageOK
  <1>4. QED
    BY <1>1, <1>5, <1>2, <1>3, Zenon DEF AInv

LEMMA AInvHolds == Alone => (Spec => [](VInv /\ AInv))
  <1> SUFFICES ASSUME Alone PROVE Spec => [](VInv /\ AInv)
    BY Zenon
  <1>1. VInv /\ AInv /\ [Next]_vars => AInv'
    <2> SUFFICES ASSUME VInv, AInv, Next PROVE AInv'
      BY StutterAInv, Zenon
    <2>1. PICK p \in Proc : KernelStep(p) \/ UserStep(p)
      BY Zenon DEF Next
    <2>2. ~ panic
      BY <2>1, Zenon DEF KernelStep, UserStep
    <2>3. VInv'
      BY NextVInv, Zenon
    <2>4. QED
      BY <2>1, <2>2, <2>3, NextAInv, Zenon
  <1>2. QED
    BY <1>1, InitVInv, NextVInv, InitAInv, PTL DEF Spec
-----------------------------------------------------------------------------
(* Frames are counted, and what the tables say together. *)

LEMMA FramesFinite == FrameType => IsFiniteSet(Occupied) /\ Cardinality(Occupied) \in Nat
  <1>1. 0 \in Int /\ TOTAL_PAGES - 1 \in Int
    BY VmAssumption
  <1>2. IsFiniteSet(Frame)
    BY <1>1, FS_Interval, Zenon DEF Frame
  <1>3. QED
    BY <1>2, FS_Subset, FS_CardinalityType, Zenon DEF Occupied

LEMMA FreeOne ==
  ASSUME FrameType, NEW i \in Frame, frame_upage' = [frame_upage EXCEPT ![i] = NULL]
  PROVE  Cardinality(Occupied)' =
           IF frame_upage[i] # NULL THEN Cardinality(Occupied) - 1 ELSE Cardinality(Occupied)
  <1>1. Occupied' = Occupied \ {i} /\ (i \in Occupied <=> frame_upage[i] # NULL)
    BY Zenon DEF FrameType, Occupied, Empty
  <1>2. QED
    BY <1>1, FramesFinite, FS_RemoveElement, Zenon

LEMMA FillOne ==
  ASSUME FrameType, NEW i \in Frame, NEW u \in UPage, frame_upage[i] = NULL,
         frame_upage' = [frame_upage EXCEPT ![i] = u]
  PROVE  Cardinality(Occupied)' = Cardinality(Occupied) + 1
  <1>1. Occupied' = Occupied \cup {i} /\ i \notin Occupied
    BY NullApart, Zenon DEF FrameType, Occupied, Empty
  <1>2. QED
    BY <1>1, FramesFinite, FS_AddElement, Zenon

LEMMA SameCount ==
  ASSUME UNCHANGED frame_upage
  PROVE  Cardinality(Occupied)' = Cardinality(Occupied)
  BY Zenon DEF Occupied, Empty

(* p has emptied a frame that was in use, and has not counted it yet. *)
Owing(p) == pc[p] \in Clearing /\ (page_pointer[clock_pointer] # NULL \/ pc[p] = "count")

Bonus == IF \E p \in Proc : Owing(p) THEN 1 ELSE 0

CountInv == ~ met => occupancy <= Cardinality(Occupied) + Bonus

(* A step that disturbs no eviction, while another process empties a frame. *)
LEMMA CountOthers ==
  ASSUME TypeOK, FieldInv, NEW p \in Proc, KernelStep(p) \/ UserStep(p), ~ met',
         NEW a \in Proc, a # p, pc[a] \in Clearing
  PROVE  /\ occupancy' = occupancy /\ Cardinality(Occupied)' = Cardinality(Occupied)
         /\ Bonus' = Bonus
  <1>1. UNCHANGED <<page_pointer, clock_pointer, occupancy, frame_upage>> /\ pc'[a] = pc[a]
        /\ pc'[p] \notin Clearing
    BY Undisturbed, NextPc, Zenon DEF frames, frame_table
  <1>2. \A q \in Proc : q # a => pc[q] \notin Clearing /\ pc'[q] \notin Clearing
    <2> SUFFICES ASSUME NEW q \in Proc, q # a PROVE pc[q] \notin Clearing /\ pc'[q] \notin Clearing
      BY Zenon
    <2>1. pc[q] \notin Clearing
      BY Zenon DEF FieldInv, BusyOK
    <2>2. QED
      BY <1>1, <2>1, NextPc, Zenon
  <1>3. (\E q \in Proc : Owing(q))' <=> (\E q \in Proc : Owing(q))
    BY <1>1, <1>2, Zenon DEF Owing
  <1>4. QED
    BY <1>1, <1>3, SameCount, Zenon DEF Bonus

LEMMA NextCount ==
  ASSUME TypeOK, PlaceOK, FieldInv, occupancy <= Cardinality(Occupied) + Bonus,
         NEW p \in Proc, ~ panic, KernelStep(p) \/ UserStep(p), ~ met'
  PROVE  occupancy' <= Cardinality(Occupied)' + Bonus'
  <1> USE DEF frame_table, frames
  <1> DEFINE Goal == occupancy' <= Cardinality(Occupied)' + Bonus'
  <1>0. /\ FrameType /\ occupancy \in Int /\ Cardinality(Occupied) \in Nat
        /\ Bonus \in {0, 1} /\ Bonus' \in {0, 1}
    BY FramesFinite, Zenon DEF TypeOK, FrameType, Bonus
  <1>1. CASE \E a \in Proc : a # p /\ pc[a] \in Clearing
    BY <1>1, CountOthers, Zenon
  <1>2. CASE \A a \in Proc : a # p => pc[a] \notin Clearing
    <2>1. (Bonus = 1 => Owing(p)) /\ (Owing(p)' => Bonus' = 1)
      <3>1. 0 # 1
        OBVIOUS
      <3>2. \A a \in Proc : Owing(a) => a = p
        BY <1>2, Zenon DEF Owing
      <3>3. QED
        BY <3>1, <3>2, Zenon DEF Bonus
    <2>2. pc[p] \notin Clearing => Bonus = 0
      BY <1>0, <2>1, Zenon DEF Owing
    <2>3. CASE Quiet(p)
      <3>1. occupancy' = occupancy /\ Cardinality(Occupied)' = Cardinality(Occupied) /\ Bonus = 0
        BY <2>2, <2>3, SameCount, Zenon DEF Quiet
      <3>2. QED
        BY <1>0, <3>1
    <2>4. CASE Halt(p)
      <3>1. UNCHANGED <<frames, pc>>
        BY <2>4, Zenon DEF Halt
      <3>2. Cardinality(Occupied)' = Cardinality(Occupied) /\ Bonus' = Bonus
        BY <3>1, SameCount, Zenon DEF Bonus, Owing
      <3>3. QED
        BY <3>1, <3>2, Zenon
    <2>5. ASSUME NEW u \in UPage, NEW i \in Frame, Installed(p, u, i) PROVE Goal
      <3>1. /\ Cardinality(Occupied)' = Cardinality(Occupied) + 1 /\ occupancy' = occupancy + 1
            /\ Bonus = 0
        BY <1>0, <2>2, <2>5, FillOne, Zenon DEF Installed, Clearing
      <3>2. QED
        BY <1>0, <3>1
    <2>6. ASSUME NEW k \in Frame \cup {NULL}, Freed(p, k) \/ Quit(p, k) PROVE Goal
      <3>1. Bonus = 0
        <4>1. pc[p] \notin Clearing
              \/ (pc[p] \in {"location", "kpage"} /\ page_pointer[clock_pointer] = NULL)
          BY <2>6, Zenon DEF Freed, Quit, Clearing
        <4>2. ~ Owing(p)
          BY <4>1, Zenon DEF Owing
        <4>3. QED
          BY <1>0, <2>1, <4>2, Zenon
      <3>2. CASE k = NULL
        <4>1. occupancy' = occupancy /\ Cardinality(Occupied)' = Cardinality(Occupied)
          BY <2>6, <3>2, SameCount, Zenon DEF Freed, Quit, FrameFree
        <4>2. QED
          BY <1>0, <3>1, <4>1
      <3>3. CASE k \in Frame
        <4>1. occupancy' = occupancy - 1 /\ frame_upage' = [frame_upage EXCEPT ![k] = NULL]
          BY <2>6, <3>3, NullApart, Zenon DEF Freed, Quit, FrameFree
        <4>2. \/ Cardinality(Occupied)' = Cardinality(Occupied) - 1
              \/ Cardinality(Occupied)' = Cardinality(Occupied)
          BY <1>0, <3>3, <4>1, FreeOne, Zenon
        <4>3. QED
          BY <1>0, <3>1, <4>1, <4>2
      <3>4. QED
        BY <3>2, <3>3, Zenon
    <2>7. CASE ClearUpage(p)
      <3>1. /\ clock_pointer \in Frame /\ pc[p] = "upage" /\ pc'[p] = "pagedir"
            /\ frame_upage' = [frame_upage EXCEPT ![clock_pointer] = NULL]
            /\ UNCHANGED <<page_pointer, clock_pointer, occupancy>>
        BY <2>7, Zenon DEF ClearUpage, Goto, TypeOK, LocalType
      <3>2. Bonus = 0
        BY <2>2, <3>1, Zenon DEF Clearing
      <3>3. CASE frame_upage[clock_pointer] = NULL
        <4>1. Cardinality(Occupied)' = Cardinality(Occupied)
          BY <1>0, <3>1, <3>3, FreeOne, Zenon
        <4>2. QED
          BY <1>0, <3>1, <3>2, <4>1
      <3>4. CASE frame_upage[clock_pointer] # NULL
        <4>1. Whole(clock_pointer)
          BY <1>2, <3>1, <3>4, Zenon DEF FieldInv, ShapeInv, Blank, Clearing
        <4>2. page_pointer[clock_pointer] # NULL
          <5>1. PICK q \in Proc, w \in UPage : page_pointer[clock_pointer] = <<q, w>>
            BY <1>0, <3>1, <4>1, Zenon DEF Whole, FrameType
          <5>2. QED
            BY <5>1, NullApart, Zenon
        <4>3. Bonus' = 1
          BY <2>1, <3>1, <4>2, Zenon DEF Owing, Clearing
        <4>4. Cardinality(Occupied)' = Cardinality(Occupied) - 1
          BY <1>0, <3>1, <3>4, FreeOne, Zenon
        <4>5. QED
          BY <1>0, <3>1, <3>2, <4>3, <4>4
      <3>5. QED
        BY <3>3, <3>4, Zenon
    <2>8. CASE \/ ClearPagedir(p)
               \/ \E q \in Proc, w \in UPage, i \in Frame :
                    InSwap(p, i, q, w) \/ OutOfFrame(p, i, q, w)
      <3>1. /\ UNCHANGED <<page_pointer, clock_pointer, occupancy, frame_upage>>
            /\ pc[p] \in {"pagedir", "location", "kpage"} /\ pc'[p] \in Clearing
        BY <2>8, Zenon DEF ClearPagedir, InSwap, OutOfFrame, Goto, TypeOK, LocalType, Clearing
      <3>2. Owing(p) => Owing(p)'
        BY <3>1, Zenon DEF Owing
      <3>3. Cardinality(Occupied)' = Cardinality(Occupied)
        BY <3>1, SameCount, Zenon
      <3>4. Bonus = 1 => Bonus' = 1
        BY <2>1, <3>2, Zenon
      <3>5. QED
        BY <1>0, <3>1, <3>3, <3>4
    <2>9. CASE ClearPointer(p)
      <3>1. UNCHANGED <<occupancy, frame_upage>> /\ pc'[p] = "count"
        BY <2>9, Zenon DEF ClearPointer, Goto, TypeOK, LocalType
      <3>2. Bonus' = 1 /\ Cardinality(Occupied)' = Cardinality(Occupied)
        BY <2>1, <3>1, SameCount, Zenon DEF Owing, Clearing
      <3>3. QED
        BY <1>0, <3>1, <3>2
    <2>10. CASE Uncount(p)
      <3>1. occupancy' = occupancy - 1 /\ Cardinality(Occupied)' = Cardinality(Occupied)
        BY <2>10, SameCount, Zenon DEF Uncount
      <3>2. QED
        BY <1>0, <3>1
    <2>11. QED
      BY <2>3, <2>4, <2>5, <2>6, <2>7, <2>8, <2>9, <2>10, FieldCases, Zenon
  <1>3. QED
    BY <1>1, <1>2, Zenon

LEMMA CountHolds == Spec => []CountInv
  <1>1. ASSUME Init PROVE CountInv
    <2>1. Occupied = {} /\ occupancy = 0 /\ Bonus \in {0, 1}
      BY <1>1, Zenon DEF Init, Occupied, Empty, Bonus
    <2>2. QED
      BY <2>1, FS_EmptySet DEF CountInv
  <1>2. ASSUME VInv, CountInv, [Next]_vars PROVE CountInv'
    <2>1. CASE UNCHANGED vars
      <3>1. UNCHANGED <<met, occupancy, frame_upage, page_pointer, clock_pointer, pc>>
        BY <2>1, Zenon DEF vars, frames, frame_table
      <3>2. Cardinality(Occupied)' = Cardinality(Occupied) /\ Bonus' = Bonus
        BY <3>1, SameCount, Zenon DEF Bonus, Owing
      <3>3. QED
        BY <1>2, <3>1, <3>2, Zenon DEF CountInv
    <2>2. CASE Next
      <3>1. PICK p \in Proc : KernelStep(p) \/ UserStep(p)
        BY <2>2, Zenon DEF Next
      <3>2. ~ panic /\ (met => met')
        BY <3>1, Zenon DEF KernelStep, UserStep, Watch
      <3>3. QED
        BY <1>2, <3>1, <3>2, NextCount, Zenon DEF VInv, CountInv
    <2>3. QED
      BY <1>2, <2>1, <2>2, Zenon
  <1>3. QED
    BY <1>1, <1>2, VInvHolds, PTL DEF Spec

(* Until an eviction is disturbed, occupancy, which frame_find_empty trusts, *)
(* is not above the number of frames in use, but for one that frame_evict is *)
(* emptying, for any number of processes that install, evict and free frames *)
(* at the same time: frame_evict is not entered before the table is full.    *)
THEOREM NeverEvictsEarlyHolds == Spec => []NeverEvictsEarly
  <1>1. ASSUME VInv, CountInv PROVE NeverEvictsEarly
    <2> DEFINE Owed == IF \E p \in Proc : pc[p] \in Clearing THEN 1 ELSE 0
    <2>1. occupancy \in Int /\ Cardinality(Occupied) \in Nat
      BY <1>1, FramesFinite, Zenon DEF VInv, TypeOK, FrameType
    <2>2. Bonus = Owed \/ (Bonus = 0 /\ Owed = 1)
      BY Zenon DEF Bonus, Owing
    <2>3. ~ met => occupancy <= Cardinality(Occupied) + Owed
      BY <1>1, <2>1, <2>2 DEF CountInv
    <2>4. QED
      BY <2>3, Zenon DEF NeverEvictsEarly
  <1>2. QED
    BY <1>1, VInvHolds, CountHolds, PTL
-----------------------------------------------------------------------------
(* The count is exact, but for a frame that is being emptied, as long as no  *)
(* frame is given back that was not installed, which happens only when a     *)
(* read or a page table fails.                                               *)
Owed == IF \E p \in Proc : pc[p] \in Clearing THEN 1 ELSE 0

CountExact == ~ Failures => occupancy = Cardinality(Occupied) + Owed

LEMMA NextExact ==
  ASSUME Alone, VInv, AInv, CountExact, NEW p \in Proc, ~ panic, KernelStep(p) \/ UserStep(p)
  PROVE  CountExact'
  <1> USE DEF frame_table, frames
  <1> DEFINE Goal == occupancy' = Cardinality(Occupied)' + Owed'
  <1> SUFFICES ASSUME ~ Failures PROVE Goal
    BY Zenon DEF CountExact
  <1>0. /\ TypeOK /\ FrameType /\ PlaceOK /\ StepOK(p) /\ occupancy \in Int
        /\ occupancy = Cardinality(Occupied) + Owed /\ Cardinality(Occupied) \in Nat
        /\ \A r \in Proc : r # p => pc[r] = "out"
    BY FramesFinite, Solo, Zenon DEF VInv, AInv, TypeOK, FrameType, CountExact
  <1>1. /\ Owed = IF pc[p] \in Clearing THEN 1 ELSE 0
        /\ Owed' = IF pc'[p] \in Clearing THEN 1 ELSE 0
    <2>1. \A r \in Proc : r # p => pc[r] \notin Clearing /\ pc'[r] \notin Clearing
      BY <1>0, NextPc, Zenon DEF Clearing
    <2>2. QED
      BY <2>1, Zenon DEF Owed
  <1>2. ASSUME NEW i \in Frame, pc[p] \notin Clearing, page_pointer[i] # NULL
        PROVE  frame_upage[i] # NULL
    BY <1>0, <1>2, Settled, Zenon DEF Whole, Blank
  <1>3. CASE Quiet(p)
    <2>1. occupancy' = occupancy /\ Cardinality(Occupied)' = Cardinality(Occupied) /\ Owed' = Owed
      BY <1>1, <1>3, SameCount, Zenon DEF Quiet
    <2>2. QED
      BY <1>0, <2>1, Zenon
  <1>4. CASE Halt(p)
    <2>1. UNCHANGED <<frames, pc>>
      BY <1>4, Zenon DEF Halt
    <2>2. Cardinality(Occupied)' = Cardinality(Occupied) /\ Owed' = Owed
      BY <2>1, SameCount, Zenon DEF Owed
    <2>3. QED
      BY <1>0, <2>1, <2>2, Zenon
  <1>5. ASSUME NEW u \in UPage, NEW i \in Frame, Installed(p, u, i) PROVE Goal
    <2>1. /\ Cardinality(Occupied)' = Cardinality(Occupied) + 1 /\ occupancy' = occupancy + 1
          /\ Owed = 0 /\ Owed' = 0
      BY <1>0, <1>1, <1>5, FillOne, Zenon DEF Installed, Goto, Clearing, TypeOK, LocalType
    <2>2. QED
      BY <1>0, <2>1
  <1>6. ASSUME NEW k \in Frame \cup {NULL}, Freed(p, k) PROVE Goal
    <2>1. PICK u \in UPage : upage[p] = u
      BY <1>0, <1>6, Zenon DEF Freed, PlaceOK
    <2>2. /\ Leaving(p, u) /\ k = kpage[p][u] /\ location[p][u] = "frame"
          /\ pc[p] = "free" /\ pc'[p] = "freed"
      BY <1>0, <1>6, <2>1, Zenon DEF Freed, AInv, PageOK, StepOK, Goto, TypeOK, LocalType
    <2>3. k \in Frame /\ frame_upage[k] # NULL
      <3>1. k \in Frame /\ page_pointer[k] # NULL
        BY <2>2, NullApart, Zenon DEF Leaving, Holds
      <3>2. QED
        BY <1>2, <2>2, <3>1, Zenon DEF Clearing
    <2>4. Cardinality(Occupied)' = Cardinality(Occupied) - 1 /\ occupancy' = occupancy - 1
      BY <1>0, <1>6, <2>3, NullApart, FreeOne, Zenon DEF Freed, FrameFree
    <2>5. Owed = 0 /\ Owed' = 0
      BY <1>1, <2>2, Zenon DEF Clearing
    <2>6. QED
      BY <1>0, <2>4, <2>5
  <1>7. ASSUME NEW k \in Frame \cup {NULL}, Quit(p, k) PROVE Goal
    <2>1. k = NULL /\ pc[p] \notin Clearing
      <3>1. pc[p] = "install" => pte[p][upage[p]] = NULL
        BY <1>0, Zenon DEF AInv, PageOK, Filled, PlaceOK, Serving
      <3>2. pc[p] \in {"location", "kpage"} => page_pointer[clock_pointer] # NULL
        BY <1>0, Zenon DEF StepOK, Evicting
      <3>3. QED
        BY <1>7, <3>1, <3>2, Zenon DEF Quit, Clearing
    <2>2. UNCHANGED <<frame_upage, occupancy>> /\ pc'[p] = "exit"
      BY <1>0, <1>7, <2>1, Zenon DEF Quit, FrameFree, Goto, TypeOK, LocalType
    <2>3. Owed = 0 /\ Owed' = 0
      BY <1>1, <2>1, <2>2, Zenon DEF Clearing
    <2>4. QED
      BY <1>0, <2>2, <2>3, SameCount, Zenon
  <1>8. CASE ClearUpage(p)
    <2>1. /\ clock_pointer \in Frame /\ pc[p] = "upage" /\ pc'[p] = "pagedir"
          /\ frame_upage' = [frame_upage EXCEPT ![clock_pointer] = NULL] /\ occupancy' = occupancy
      BY <1>0, <1>8, Zenon DEF ClearUpage, Goto, TypeOK, LocalType
    <2>2. frame_upage[clock_pointer] # NULL
      BY <1>0, <1>2, <2>1, Zenon DEF StepOK, Evicting, Clearing
    <2>3. Cardinality(Occupied)' = Cardinality(Occupied) - 1
      BY <1>0, <2>1, <2>2, FreeOne, Zenon
    <2>4. Owed = 0 /\ Owed' = 1
      BY <1>1, <2>1, Zenon DEF Clearing
    <2>5. QED
      BY <1>0, <2>1, <2>3, <2>4
  <1>9. CASE \/ ClearPagedir(p) \/ ClearPointer(p)
             \/ \E q \in Proc, w \in UPage, i \in Frame : InSwap(p, i, q, w) \/ OutOfFrame(p, i, q, w)
    <2>1. UNCHANGED <<occupancy, frame_upage>> /\ pc[p] \in Clearing /\ pc'[p] \in Clearing
      BY <1>0, <1>9, Zenon
         DEF ClearPagedir, ClearPointer, InSwap, OutOfFrame, Goto, TypeOK, LocalType, Clearing
    <2>2. Cardinality(Occupied)' = Cardinality(Occupied) /\ Owed' = Owed
      BY <1>1, <2>1, SameCount, Zenon
    <2>3. QED
      BY <1>0, <2>1, <2>2, Zenon
  <1>10. CASE Uncount(p)
    <2>1. /\ occupancy' = occupancy - 1 /\ Cardinality(Occupied)' = Cardinality(Occupied)
          /\ pc[p] = "count" /\ pc'[p] = "result"
      BY <1>0, <1>10, SameCount, Zenon DEF Uncount, Goto, TypeOK, LocalType
    <2>2. Owed = 1 /\ Owed' = 0
      BY <1>1, <2>1, Zenon DEF Clearing
    <2>3. QED
      BY <1>0, <2>1, <2>2
  <1>11. QED
    BY <1>0, <1>3, <1>4, <1>5, <1>6, <1>7, <1>8, <1>9, <1>10, FieldCases, Zenon

LEMMA ExactHolds == Alone => (Spec => []CountExact)
  <1> SUFFICES ASSUME Alone PROVE Spec => []CountExact
    BY Zenon
  <1>1. ASSUME Init PROVE CountExact
    <2>1. Occupied = {} /\ occupancy = 0 /\ Owed = 0
      BY <1>1, Zenon DEF Init, Occupied, Empty, Owed, Clearing
    <2>2. QED
      BY <2>1, FS_EmptySet DEF CountExact
  <1>2. ASSUME VInv, AInv, CountExact, [Next]_vars PROVE CountExact'
    <2>1. CASE UNCHANGED vars
      BY <1>2, <2>1, Zenon DEF CountExact, Occupied, Empty, Owed, vars, frame_table, frames
    <2>2. CASE Next
      <3>1. PICK p \in Proc : KernelStep(p) \/ UserStep(p)
        BY <2>2, Zenon DEF Next
      <3>2. ~ panic
        BY <3>1, Zenon DEF KernelStep, UserStep
      <3>3. QED
        BY <1>2, <3>1, <3>2, NextExact, Zenon
    <2>3. QED
      BY <1>2, <2>1, <2>2, Zenon
  <1>3. QED
    BY <1>1, <1>2, AInvHolds, PTL DEF Spec

LEMMA AloneAgrees == ASSUME ~ Failures, VInv, Alone => AInv /\ CountExact PROVE TablesAgree
  <1>1. ASSUME Alone, NEW p \in Proc, NEW u \in UPage, swap_location[p][u] # NULL,
               NEW q \in Proc, NEW w \in UPage
        PROVE  /\ swap_location[p][u] \in used
               /\ swap_location[q][w] = swap_location[p][u] => q = p /\ w = u
    BY <1>1, SlotsUsed DEF AInv, SlotsApart
  <1>2. ASSUME Alone, NEW p \in Proc, pc[p] = "run"
        PROVE  /\ \A r \in Proc : r # p => pc[r] = "out"
               /\ \A i \in Frame : Whole(i) \/ Blank(i)
    <2>1. \A r \in Proc : r # p => pc[r] = "out"
      BY <1>2, Zenon DEF AInv, OnlyOne
    <2>2. QED
      BY <1>2, <2>1, Settled, Zenon DEF Clearing
  <1>3. ASSUME Alone, NEW p \in Proc, pc[p] = "run", NEW u \in UPage
        PROVE  /\ location[p][u] = "frame" <=> pte[p][u] # NULL
               /\ pte[p][u] = kpage[p][u]
               /\ pte[p][u] # NULL => /\ frame_upage[pte[p][u]] = u /\ frame_pagedir[pte[p][u]] = p
                                      /\ page_pointer[pte[p][u]] = <<p, u>>
               /\ location[p][u] = "swap" <=> swap_location[p][u] # NULL
    <2>1. Normal(p, u) /\ TypeOK
      BY <1>3, Zenon DEF AInv, PageOK, Evicting, VInv
    <2>2. /\ location[p][u] = "frame" <=> pte[p][u] # NULL
          /\ pte[p][u] = kpage[p][u]
          /\ pte[p][u] # NULL => pte[p][u] \in Frame /\ page_pointer[pte[p][u]] = <<p, u>>
          /\ location[p][u] = "swap" <=> swap_location[p][u] # NULL
      BY <2>1, NullApart DEF Normal, Holds, TypeOK, PageType, DataType
    <2>3. ASSUME NEW i \in Frame, page_pointer[i] = <<p, u>>
          PROVE  frame_upage[i] = u /\ frame_pagedir[i] = p
      BY <1>2, <1>3, <2>3, NullApart DEF Whole, Blank
    <2>4. QED
      BY <2>2, <2>3, Zenon
  <1>4. ASSUME Alone, NEW p \in Proc, pc[p] = "run", NEW i \in Occupied
        PROVE  pte[frame_pagedir[i]][frame_upage[i]] = i
    <2>1. TypeOK /\ EntryInv /\ i \in Frame /\ Whole(i)
      BY <1>2, <1>4, Zenon DEF VInv, AInv, FieldInv, Occupied, Empty, Blank
    <2>2. PICK q \in Proc, w \in UPage : frame_pagedir[i] = q /\ frame_upage[i] = w
      BY <2>1, Zenon DEF TypeOK, FrameType, Whole
    <2>3. EntryOK(i, q, w) /\ Holds(i, q, w)
      BY <1>2, <1>4, <2>1, <2>2, Zenon DEF EntryInv, Holds, Whole, Going
    <2>4. q = p /\ kpage[p][w] = i
      BY <1>2, <1>4, <2>3, Zenon DEF EntryOK
    <2>5. pte[p][w] = kpage[p][w]
      BY <1>3, <1>4, <2>2
    <2>6. QED
      BY <2>2, <2>4, <2>5, Zenon
  <1>5. ASSUME Alone, NEW p \in Proc, pc[p] = "run" PROVE occupancy = Cardinality(Occupied)
    <2>1. Owed = 0
      BY <1>2, <1>5, Zenon DEF Owed, Clearing
    <2>2. Cardinality(Occupied) \in Nat
      BY FramesFinite, Zenon DEF VInv, TypeOK
    <2>3. QED
      BY <1>5, <2>1, <2>2 DEF CountExact
  <1>6. QED
    BY <1>1, <1>3, <1>4, <1>5 DEF TablesAgree

(* If reads of the executable and page tables do not fail: whenever the      *)
(* program of a process that runs alone is running, its page table, its      *)
(* supplemental table and the frame table agree, occupancy is exact, and no  *)
(* two pages share a slot of the swap disk.                                  *)
THEOREM TablesAgreeHolds == ~ Failures => (Spec => []TablesAgree)
  <1> SUFFICES ASSUME ~ Failures PROVE Spec => []TablesAgree
    BY Zenon
  <1>1. CASE Alone
    <2>1. VInv /\ AInv /\ CountExact => TablesAgree
      BY AloneAgrees, Zenon
    <2>2. QED
      BY <1>1, <2>1, AInvHolds, ExactHolds, PTL
  <1>2. CASE ~ Alone
    <2>1. VInv => TablesAgree
      BY <1>2, AloneAgrees, Zenon
    <2>2. QED
      BY <2>1, VInvHolds, PTL
  <1>3. QED
    BY <1>1, <1>2, Zenon
-----------------------------------------------------------------------------
(* Paging is invisible to a process that runs alone. *)

(* What MemOf is, case by case. *)
Off == {"out", "exit", "free", "freed", "dead"}

MemIs(p, u) ==
  /\ pc[p] \in Off => MemOf(p, u) = NULL
  /\ pc[p] \notin Off =>
       /\ pte[p][u] # NULL => MemOf(p, u) = data[pte[p][u]]
       /\ pte[p][u] = NULL =>
            /\ location[p][u] = "none" => MemOf(p, u) = NULL
            /\ location[p][u] = "filesys" => MemOf(p, u) = FileVal
            /\ location[p][u] = "swap" =>
                 MemOf(p, u) = IF swap_location[p][u] # NULL THEN disk[swap_location[p][u]]
                               ELSE data[kp[p]]
            /\ location[p][u] = "frame" =>
                 MemOf(p, u) = IF kpage[p][u] # NULL THEN data[kpage[p][u]] ELSE NULL

LEMMA MemValue == \A p \in Proc, u \in UPage : MemIs(p, u)
  BY DEF MemIs, MemOf, Off

LEMMA MemValuePrime == \A p \in Proc, u \in UPage : MemIs(p, u)'
  BY DEF MemIs, MemOf, Off

(* The steps that the program sees. *)
Loud(p) ==
  \/ Start(p) \/ Exit(p)
  \/ \E u \in UPage : Read(p, u) \/ \E v \in Val : Write(p, u, v)
  \/ \E u \in UPage, i \in Frame : Installed(p, u, i)
  \/ \E k \in Frame \cup {NULL} : Quit(p, k)

Active == Evict1 \cup {"run", "find", "nothing", "fill"}

(* A page that is where its struct page says, and that the step passes by. *)
LEMMA AtRest ==
  ASSUME TypeOK, NEW p \in Proc, NEW x \in UPage, Normal(p, x),
         pc[p] \notin Off, pc'[p] \notin Off,
         location'[p][x] = location[p][x], pte'[p][x] = pte[p][x],
         swap_location'[p][x] = swap_location[p][x],
         location[p][x] = "frame" => data'[pte[p][x]] = data[pte[p][x]],
         location[p][x] = "swap" => disk'[swap_location[p][x]] = disk[swap_location[p][x]]
  PROVE  MemOf(p, x)' = MemOf(p, x)
  <1>1. MemIs(p, x) /\ MemIs(p, x)'
    BY MemValue, MemValuePrime, Zenon
  <1>2. /\ location[p][x] \in {"none", "filesys", "frame", "swap"}
        /\ location[p][x] = "frame" => pte[p][x] # NULL
        /\ location[p][x] = "swap" => pte[p][x] = NULL /\ swap_location[p][x] # NULL
        /\ location[p][x] \in {"filesys", "none"} => pte[p][x] = NULL
    BY NullApart DEF Normal, TypeOK, PageType, DataType
  <1>3. QED
    BY <1>1, <1>2 DEF MemIs

(* Nothing moves. *)
LEMMA Steady ==
  ASSUME TypeOK, NEW p \in Proc, NEW x \in UPage, PageOK(p, x),
         pc[p] \in Active, pc'[p] \in Active,
         UNCHANGED <<location, kpage, swap_location, pte, data, disk>>
  PROVE  MemOf(p, x)' = MemOf(p, x)
  <1>1. CASE Normal(p, x)
    BY <1>1, AtRest, Zenon DEF Active, Evict1, Off
  <1>2. CASE Unmapped(p, x)
    <2>1. MemIs(p, x) /\ MemIs(p, x)' /\ pc[p] \notin Off /\ pc'[p] \notin Off
      BY MemValue, MemValuePrime, Zenon DEF Active, Evict1, Off
    <2>2. /\ pte[p][x] = NULL /\ location[p][x] \in {"frame", "swap"}
          /\ location[p][x] = "swap" => swap_location[p][x] \in used
      BY <1>2, Zenon DEF Unmapped
    <2>3. location[p][x] = "swap" => swap_location[p][x] # NULL
      BY <2>2, NullApart, Zenon DEF TypeOK, DataType
    <2>4. QED
      BY <2>1, <2>2, <2>3 DEF MemIs
  <1>3. QED
    BY <1>1, <1>2, Zenon DEF PageOK, Active, Evict1, Evicting

LEMMA NextMem ==
  ASSUME Alone, VInv, AInv, NEW p \in Proc, ~ panic, KernelStep(p) \/ UserStep(p), NEW x \in UPage
  PROVE  Loud(p) \/ (last' = last /\ MemOf(p, x)' = MemOf(p, x))
  <1> USE DEF spt, frame_table, frames, swap, locals
  <1> DEFINE Goal == Loud(p) \/ (last' = last /\ MemOf(p, x)' = MemOf(p, x))
  <1>0. /\ TypeOK /\ PlaceOK /\ FieldInv /\ StepOK(p) /\ PageOK(p, x)
        /\ \A r \in Proc : r # p => pc[r] = "out"
        /\ MemIs(p, x) /\ MemIs(p, x)'
    BY Solo, MemValue, MemValuePrime, Zenon DEF VInv, AInv
  <1>1. CASE Start(p)
    BY <1>1, Zenon DEF Loud
  <1>2. CASE Exit(p)
    BY <1>2, Zenon DEF Loud
  <1>3. ASSUME NEW u \in UPage, Read(p, u) PROVE Goal
    BY <1>3, Zenon DEF Loud
  <1>4. ASSUME NEW u \in UPage, Fault(p, u) PROVE Goal
    BY <1>0, <1>4, Steady, Zenon DEF Active, Evict1, TypeOK, LocalType, Fault, Goto
  <1>5. ASSUME NEW u \in UPage, NEW v \in Val, Write(p, u, v) PROVE Goal
    BY <1>5, Zenon DEF Loud
  <1>6. ASSUME NEW i \in Frame, Found(p, i) PROVE Goal
    BY <1>0, <1>6, Steady, Zenon DEF Active, Evict1, TypeOK, LocalType, Found, Goto
  <1>7. CASE FoundNone(p)
    BY <1>0, <1>7, Steady, Zenon DEF Active, Evict1, TypeOK, LocalType, FoundNone, Goto
  <1>8. CASE MustEvict(p)
    BY <1>0, <1>8, Steady, Zenon DEF Active, Evict1, TypeOK, LocalType, MustEvict, Goto
  <1>9. CASE Retry(p)
    BY <1>0, <1>9, Steady, Zenon DEF Active, Evict1, TypeOK, LocalType, Retry, Goto, Forget
  <1>10. CASE Halt(p)
    BY <1>0, <1>10, Steady, Zenon DEF Halt, Forget, Active, Evict1
  <1>11. CASE SwapScan(p)
    BY <1>0, <1>11, Steady, Zenon DEF Active, Evict1, TypeOK, LocalType, SwapScan, Goto
  <1>12. CASE Scan(p) \/ Reset(p) \/ UnmapsNone(p)
    <2>1. /\ pc[p] \in {"scan", "reset", "unmap"}
          /\ pc'[p] \in {"reset", "unmap", "tick", "swapout"}
          /\ UNCHANGED <<location, kpage, swap_location, pte, data, disk, last>>
      BY <1>0, <1>12, Zenon DEF Scan, Reset, UnmapsNone, Goto, TypeOK, LocalType
    <2>2. QED
      BY <1>0, <2>1, Steady, Zenon DEF Active, Evict1
  <1>13. ASSUME NEW q \in Proc, NEW w \in UPage, Unmapping(p, q, w) PROVE Goal
    <2>1. /\ pc[p] = "unmap" /\ clock_pointer \in Frame
          /\ frame_pagedir[clock_pointer] = q /\ frame_upage[clock_pointer] = w
      BY <1>13, Zenon DEF Unmapping, Directory
    <2>2. q = p /\ Holds(clock_pointer, p, w)
      <3>1. Whole(clock_pointer)
        BY <1>0, <2>1, Settled, NullApart, Zenon DEF Blank, Clearing
      <3>2. Holds(clock_pointer, q, w)
        BY <2>1, <3>1, Zenon DEF Whole, Holds
      <3>3. QED
        BY <1>0, <2>1, <3>2, OwnFrame, Zenon
    <2>3. Normal(p, x) /\ EntryOK(clock_pointer, p, w)
      BY <1>0, <2>1, Zenon DEF PageOK, Evicting, FieldInv, EntryInv, Going
    <2>4. /\ UNCHANGED <<location, kpage, swap_location, data, disk, last>>
          /\ pc'[p] = "swapout" /\ pte'[p][x] = IF x = w THEN NULL ELSE pte[p][x]
      BY <1>0, <1>13, <2>2, Zenon DEF Unmapping, Goto, TypeOK, PageType, LocalType
    <2>5. CASE x = w
      <3>1. location[p][x] = "frame" /\ pte[p][x] = kpage[p][x] /\ pte[p][x] # NULL
        BY <2>1, <2>2, <2>3, <2>5, NullApart, Zenon DEF EntryOK, Normal
      <3>2. QED
        BY <1>0, <2>1, <2>4, <2>5, <3>1, Zenon DEF MemIs, Off
    <2>6. CASE x # w
      BY <1>0, <2>1, <2>3, <2>4, <2>6, AtRest, Zenon DEF Off
    <2>7. QED
      BY <2>5, <2>6, Zenon
  <1>14. ASSUME NEW q \in Proc, NEW w \in UPage, NEW s \in Slot, SwapOut(p, q, w, s) PROVE Goal
    <2>1. /\ page_pointer[clock_pointer] = <<q, w>> /\ s \notin used
          /\ pc[p] = "swapping"
      BY <1>0, <1>14, NullApart, Zenon DEF SwapOut, StepOK
    <2>2. q = p /\ (Holds(clock_pointer, p, x) <=> x = w)
      <3>1. Holds(clock_pointer, q, w) /\ clock_pointer \in Frame
        BY <1>0, <2>1, HandIn, Zenon DEF Holds
      <3>2. QED
        BY <1>0, <3>1, OwnFrame, HoldsOne, Zenon
    <2>3. /\ UNCHANGED <<location, kpage, pte, data, last>>
          /\ pc'[p] = "upage"
          /\ swap_location'[p][x] = IF x = w THEN s ELSE swap_location[p][x]
          /\ \A t \in Slot : t # s => disk'[t] = disk[t]
      BY <1>0, <1>14, <2>2, Zenon DEF SwapOut, Goto, TypeOK, PageType, LocalType, DataType
    <2>4. CASE x = w
      <3>1. Unmapped(p, x)
        BY <1>0, <2>1, <2>2, <2>4, Zenon DEF PageOK, Evicting
      <3>2. QED
        BY <1>0, <2>1, <2>3, <3>1, Zenon DEF MemIs, Unmapped, Off
    <2>5. CASE x # w
      <3>1. Normal(p, x)
        BY <1>0, <2>1, <2>2, <2>5, Zenon DEF PageOK, Evicting
      <3>2. location[p][x] = "swap" => swap_location[p][x] \in Slot \ {s}
        BY <1>0, <2>1, <3>1, Zenon DEF Normal, TypeOK, DataType
      <3>3. QED
        BY <1>0, <2>1, <2>3, <2>5, <3>1, <3>2, AtRest, Zenon DEF Off
    <2>6. QED
      BY <2>4, <2>5, Zenon
  <1>15. ASSUME NEW i \in Frame, NEW q \in Proc, NEW w \in UPage, InSwap(p, i, q, w) PROVE Goal
    <2>1. pc[p] = "location" /\ clock_pointer = i /\ Holds(i, q, w)
      BY <1>15, Zenon DEF InSwap, Holds
    <2>2. q = p /\ (Holds(i, p, x) <=> x = w)
      BY <1>0, <2>1, OwnFrame, HoldsOne, Zenon
    <2>3. /\ UNCHANGED <<kpage, swap_location, pte, disk, data, last>> /\ pc'[p] = "kpage"
          /\ location'[p][x] = IF x = w THEN "swap" ELSE location[p][x]
      BY <1>0, <1>15, <2>2, Zenon DEF InSwap, Goto, TypeOK, PageType, LocalType
    <2>4. CASE x = w
      <3>1. Unmapped(p, x)
        BY <1>0, <2>1, <2>2, <2>4, Zenon DEF PageOK, Evicting
      <3>2. /\ pte[p][x] = NULL /\ location[p][x] = "frame" /\ kpage[p][x] = i /\ i # NULL
            /\ disk[swap_location[p][x]] = data[i] /\ swap_location[p][x] # NULL
        BY <1>0, <2>1, <3>1, NullApart, Zenon DEF Unmapped, TypeOK, DataType
      <3>3. QED
        BY <1>0, <2>1, <2>3, <2>4, <3>2, Zenon DEF MemIs, Off
    <2>5. CASE x # w
      <3>1. Normal(p, x)
        BY <1>0, <2>1, <2>2, <2>5, Zenon DEF PageOK, Evicting
      <3>2. QED
        BY <1>0, <2>1, <2>3, <2>5, <3>1, AtRest, Zenon DEF Off
    <2>6. QED
      BY <2>4, <2>5, Zenon
  <1>16. ASSUME NEW u \in UPage, NEW i \in Frame, FromFile(p, u, i) PROVE Goal
    <2>1. pc[p] = "fill" /\ Normal(p, x) /\ page_pointer[i] = NULL
      BY <1>0, <1>16, Zenon DEF FromFile, PageOK, Evicting, StepOK
    <2>2. /\ UNCHANGED <<location, kpage, swap_location, pte, disk, last>> /\ pc'[p] = "install"
          /\ \A j \in Frame : j # i => data'[j] = data[j]
      BY <1>0, <1>16, Zenon DEF FromFile, Goto, TypeOK, LocalType, DataType
    <2>3. location[p][x] = "frame" => pte[p][x] \in Frame \ {i}
      BY <2>1, NullApart, Zenon DEF Normal, Holds
    <2>4. QED
      BY <1>0, <2>1, <2>2, <2>3, AtRest, Zenon DEF Off
  <1>17. ASSUME NEW u \in UPage, NEW i \in Frame, NEW s \in Slot, FromSwap(p, u, i, s) PROVE Goal
    <2>1. pc[p] = "fill" /\ Normal(p, x) /\ page_pointer[i] = NULL
      BY <1>0, <1>17, Zenon DEF FromSwap, PageOK, Evicting, StepOK
    <2>2. /\ UNCHANGED <<location, kpage, pte, disk, kp, last>> /\ pc'[p] = "install" /\ kp[p] = i
          /\ location[p][u] = "swap" /\ swap_location[p][u] = s
          /\ swap_location'[p][x] = IF x = u THEN NULL ELSE swap_location[p][x]
      BY <1>0, <1>17, Zenon DEF FromSwap, Goto, TypeOK, PageType, LocalType
    <2>3. data'[i] = disk[s] /\ \A j \in Frame : j # i => data'[j] = data[j]
      BY <1>0, <1>17, Zenon DEF FromSwap, TypeOK, DataType
    <2>4. CASE x = u
      BY <1>0, <2>1, <2>2, <2>3, <2>4, NullApart, Zenon DEF MemIs, Normal, Off
    <2>5. CASE x # u
      <3>1. location[p][x] = "frame" => pte[p][x] \in Frame \ {i}
        BY <2>1, NullApart, Zenon DEF Normal, Holds
      <3>2. QED
        BY <1>0, <2>1, <2>2, <2>3, <2>5, <3>1, AtRest, Zenon DEF Off
    <2>6. QED
      BY <2>4, <2>5, Zenon
  <1>18. ASSUME NEW u \in UPage, NewStack(p, u) PROVE Goal
    <2>1. pc[p] = "fill" /\ Normal(p, x)
      BY <1>0, <1>18, Zenon DEF NewStack, PageOK, Evicting
    <2>2. /\ UNCHANGED <<kpage, swap_location, pte, data, disk, last>> /\ pc'[p] = "install"
          /\ location'[p][x] = IF x = u THEN "frame" ELSE location[p][x]
          /\ location[p][u] = "none"
      BY <1>0, <1>18, Zenon DEF NewStack, Goto, TypeOK, PageType, LocalType
    <2>3. CASE x = u
      BY <1>0, <2>1, <2>2, <2>3, Zenon DEF MemIs, Normal, Off
    <2>4. CASE x # u
      BY <1>0, <2>1, <2>2, <2>4, AtRest, Zenon DEF Off
    <2>5. QED
      BY <2>3, <2>4, Zenon
  <1>19. ASSUME NEW u \in UPage, NEW i \in Frame, Installed(p, u, i) PROVE Goal
    BY <1>19, Zenon DEF Loud
  <1>20. ASSUME NEW u \in UPage, NEW i \in Frame, Marked(p, u, i) PROVE Goal
    <2>1. /\ UNCHANGED <<pte, data, disk, swap_location, last>> /\ pc[p] = "mark" /\ pc'[p] = "run"
          /\ x # u => location'[p][x] = location[p][x] /\ kpage'[p][x] = kpage[p][x]
          /\ upage[p] = u /\ kp[p] = i
      BY <1>0, <1>20, Zenon DEF Marked, Goto, TypeOK, PageType, LocalType
    <2>2. CASE x = u
      <3>1. pte[p][x] # NULL
        BY <1>0, <2>1, <2>2, NullApart, Zenon DEF PageOK, Mapped
      <3>2. QED
        BY <1>0, <2>1, <3>1, Zenon DEF MemIs, Off
    <2>3. CASE x # u
      <3>1. Normal(p, x)
        BY <1>0, <2>1, <2>3, Zenon DEF PageOK, Evicting
      <3>2. QED
        BY <1>0, <2>1, <2>3, <3>1, AtRest, Zenon DEF Off
    <2>4. QED
      BY <2>2, <2>3, Zenon
  <1>21. ASSUME NEW u \in UPage, ClearTest(p, u) PROVE Goal
    BY <1>0, <1>21, Zenon DEF ClearTest, Goto, MemIs, Off, TypeOK, LocalType
  <1>22. ASSUME NEW k \in Frame \cup {NULL}, Freed(p, k) PROVE Goal
    BY <1>0, <1>22, Zenon DEF Freed, Goto, MemIs, Off, TypeOK, LocalType
  <1>23. ASSUME NEW k \in Frame \cup {NULL}, Quit(p, k) PROVE Goal
    BY <1>23, Zenon DEF Loud
  <1>24. CASE Die(p)
    BY <1>0, <1>24, Zenon DEF Die, Goto, MemIs, Off, TypeOK, LocalType
  <1>25. ASSUME NEW u \in UPage, Cleared(p, u) PROVE Goal
    BY <1>0, <1>25, Zenon DEF Cleared, Goto, MemIs, Off, TypeOK, LocalType
  <1>26. CASE ClearUpage(p) \/ ClearPagedir(p) \/ ClearPointer(p)
    <2>1. /\ pc[p] \in {"upage", "pagedir", "pointer"}
          /\ pc'[p] \in {"pagedir", "location", "count"}
          /\ UNCHANGED <<location, kpage, swap_location, pte, data, disk, last>>
      BY <1>0, <1>26, Zenon DEF ClearUpage, ClearPagedir, ClearPointer, Goto, TypeOK, LocalType
    <2>2. QED
      BY <1>0, <2>1, Steady, Zenon DEF Active, Evict1
  <1>27. CASE Uncount(p) \/ SetResult(p) \/ Tick(p) \/ Wrap(p)
    <2>1. /\ pc[p] \in {"count", "result", "tick", "wrap"}
          /\ pc'[p] \in {"result", "tick", "wrap", "scan", "fill"}
          /\ UNCHANGED <<location, kpage, swap_location, pte, data, disk, last>>
      BY <1>0, <1>27, Zenon DEF Uncount, SetResult, Tick, Wrap, Goto, TypeOK, LocalType
    <2>2. QED
      BY <1>0, <2>1, Steady, Zenon DEF Active, Evict1
  <1>28. ASSUME NEW i \in Frame, NEW q \in Proc, NEW w \in UPage, OutOfFrame(p, i, q, w) PROVE Goal
    <2>1. pc[p] = "kpage" /\ clock_pointer = i /\ Holds(i, q, w)
      BY <1>28, Zenon DEF OutOfFrame, Holds
    <2>2. q = p /\ (Holds(i, p, x) <=> x = w)
      BY <1>0, <2>1, OwnFrame, HoldsOne, Zenon
    <2>3. /\ UNCHANGED <<location, swap_location, pte, disk, data, last>> /\ pc'[p] = "pointer"
      BY <1>0, <1>28, <2>2, Zenon DEF OutOfFrame, Goto, TypeOK, PageType, LocalType
    <2>4. CASE x = w
      <3>1. Unmapped(p, x)
        BY <1>0, <2>1, <2>2, <2>4, Zenon DEF PageOK, Evicting
      <3>2. pte[p][x] = NULL /\ location[p][x] = "swap" /\ swap_location[p][x] # NULL
        BY <1>0, <2>1, <3>1, NullApart, Zenon DEF Unmapped, TypeOK, DataType
      <3>3. QED
        BY <1>0, <2>1, <2>3, <3>2, Zenon DEF MemIs, Off
    <2>5. CASE x # w
      <3>1. Normal(p, x)
        BY <1>0, <2>1, <2>2, <2>5, Zenon DEF PageOK, Evicting
      <3>2. QED
        BY <1>0, <2>1, <2>3, <3>1, AtRest, Zenon DEF Off
    <2>6. QED
      BY <2>4, <2>5, Zenon
  <1>29. QED
    BY <1>1, <1>2, <1>3, <1>4, <1>5, <1>6, <1>7, <1>8, <1>9, <1>10, <1>11, <1>12, <1>13, <1>14,
       <1>15, <1>16, <1>17, <1>18, <1>19, <1>20, <1>21, <1>22, <1>23, <1>24, <1>25, <1>26, <1>27,
       <1>28, <1>0, NextCases, Zenon
       DEF Alternatives

LEMMA MemPrime == mem' = [r \in Proc |-> [x \in UPage |-> MemOf(r, x)']]
  BY Zenon DEF mem

(* Only the memory of p changes. *)
LEMMA MemMine ==
  ASSUME Alone, VInv, AInv, NEW p \in Proc, ~ panic, KernelStep(p) \/ UserStep(p)
  PROVE  mem' = [mem EXCEPT ![p] = [x \in UPage |-> MemOf(p, x)']]
  <1>1. ASSUME NEW r \in Proc, r # p, NEW x \in UPage PROVE MemOf(r, x)' = MemOf(r, x)
    <2>1. pc[r] = "out" /\ pc'[r] = "out"
      BY <1>1, Solo, OthersKept, Zenon DEF AInv
    <2>2. QED
      BY <1>1, <2>1, MemValue, MemValuePrime DEF MemIs, Off
  <1>2. QED
    BY <1>1, MemPrime, Zenon DEF mem

(* Nothing changes. *)
LEMMA MemSame ==
  ASSUME Alone, VInv, AInv, NEW p \in Proc, ~ panic, KernelStep(p) \/ UserStep(p),
         \A x \in UPage : MemOf(p, x)' = MemOf(p, x)
  PROVE  mem' = mem
  <1>1. mem' = [mem EXCEPT ![p] = [x \in UPage |-> MemOf(p, x)]]
    BY MemMine, Zenon
  <1>2. QED
    BY <1>1, Zenon DEF mem

(* One page of p changes. *)
LEMMA MemPage ==
  ASSUME Alone, VInv, AInv, NEW p \in Proc, ~ panic, KernelStep(p) \/ UserStep(p),
         NEW u \in UPage, NEW v, MemOf(p, u)' = v,
         \A x \in UPage : x # u => MemOf(p, x)' = MemOf(p, x)
  PROVE  mem' = [mem EXCEPT ![p][u] = v]
  <1>1. mem' = [mem EXCEPT ![p] = [x \in UPage |-> IF x = u THEN v ELSE MemOf(p, x)]]
    BY MemMine, Zenon
  <1>2. QED
    BY <1>1, Zenon DEF mem

(* The process is gone. *)
LEMMA MemGone ==
  ASSUME Alone, VInv, AInv, NEW p \in Proc, ~ panic, KernelStep(p) \/ UserStep(p),
         pc'[p] = "exit", UNCHANGED last
  PROVE  Mem!Exit(p)
  <1>1. \A x \in UPage : MemOf(p, x)' = NULL
    BY MemValuePrime, Zenon DEF MemIs, Off
  <1>2. mem' = [mem EXCEPT ![p] = [x \in UPage |-> NULL]]
    BY <1>1, MemMine, Zenon
  <1>3. QED
    BY <1>2, Zenon DEF Mem!Exit, Mem!UPage, UPage

LEMMA WriteMem ==
  ASSUME Alone, VInv, AInv, NEW p \in Proc, ~ panic, UserStep(p),
         NEW u \in UPage, NEW v \in Val, Write(p, u, v)
  PROVE  Mem!Write(p, u, v)
  <1> USE DEF spt
  <1>0. TypeOK /\ pc[p] = "run" /\ \A x \in UPage : Normal(p, x)
    BY Zenon DEF VInv, AInv, Write, PageOK, Evicting
  <1>1. /\ pte[p][u] \in Frame /\ last' = <<"write", p, u, v>>
        /\ data'[pte[p][u]] = v /\ \A j \in Frame : j # pte[p][u] => data'[j] = data[j]
        /\ UNCHANGED <<location, kpage, swap_location, pte, disk, pc>>
    BY <1>0 DEF Write, Record, TypeOK, PageType, DataType, swap
  <1>2. MemOf(p, u) = data[pte[p][u]] /\ MemOf(p, u)' = v
    <2>1. MemIs(p, u) /\ MemIs(p, u)'
      BY MemValue, MemValuePrime, Zenon
    <2>2. QED
      BY <1>0, <1>1, <2>1, NullApart, Zenon DEF MemIs, Off
  <1>3. ASSUME NEW x \in UPage, x # u PROVE MemOf(p, x)' = MemOf(p, x)
    <2>1. location[p][u] = "frame"
      <3>1. Normal(p, u) /\ pte[p][u] # NULL
        BY <1>0, <1>1, NullApart, Zenon
      <3>2. location[p][u] \in {"none", "filesys", "frame", "swap"}
        BY <1>0, Zenon DEF TypeOK, PageType
      <3>3. QED
        BY <3>1, <3>2, Zenon DEF Normal
    <2>2. location[p][x] = "frame" => pte[p][x] \in Frame \ {pte[p][u]}
      <3>1. Normal(p, x) /\ Normal(p, u)
        BY <1>0, Zenon
      <3>2. QED
        BY <1>3, <2>1, <3>1 DEF Normal, Holds
    <2>3. QED
      BY <1>0, <1>1, <1>3, <2>2, AtRest, Zenon DEF Off
  <1>4. mem' = [mem EXCEPT ![p][u] = v]
    BY <1>2, <1>3, MemPage
  <1>5. mem[p][u] # NULL
    <2>1. data[pte[p][u]] \in Val
      BY <1>0, <1>1, Zenon DEF TypeOK, DataType
    <2>2. QED
      BY <1>2, <2>1, NullApart, Zenon DEF mem
  <1>6. QED
    BY <1>1, <1>4, <1>5, Zenon DEF Mem!Write

LEMMA ReadMem ==
  ASSUME Alone, VInv, AInv, NEW p \in Proc, ~ panic, UserStep(p), NEW u \in UPage, Read(p, u)
  PROVE  Mem!Read(p, u)
  <1> USE DEF spt
  <1>0. TypeOK /\ pc[p] = "run" /\ \A x \in UPage : PageOK(p, x)
    BY Zenon DEF VInv, AInv, Read
  <1>1. /\ pte[p][u] \in Frame /\ last' = <<"read", p, u, data[pte[p][u]]>>
        /\ UNCHANGED <<location, kpage, swap_location, pte, disk, data, pc>>
    BY <1>0, Zenon DEF Read, Record, TypeOK, PageType, swap
  <1>2. mem[p][u] = data[pte[p][u]]
    BY <1>0, <1>1, MemValue, NullApart, Zenon DEF MemIs, Off, mem
  <1>3. mem' = mem
    BY <1>0, <1>1, Steady, MemSame, Zenon DEF Active
  <1>4. QED
    BY <1>0, <1>1, <1>2, <1>3, NullApart, Zenon DEF Mem!Read, TypeOK, DataType

LEMMA StartMem ==
  ASSUME Alone, VInv, AInv, NEW p \in Proc, ~ panic, UserStep(p), Start(p)
  PROVE  Mem!Start(p)
  <1>0. TypeOK /\ pc[p] = "out" /\ \A x \in UPage : Gone(p, x)
    BY Zenon DEF VInv, AInv, Start, PageOK
  <1>1. /\ pc'[p] = "find" /\ UNCHANGED <<pte, last>>
        /\ \A x \in UPage : location'[p][x] = IF x \in FilePage THEN "filesys" ELSE "none"
    BY <1>0, Zenon DEF Start, Goto, TypeOK, PageType, LocalType
  <1>2. \A x \in UPage : /\ MemOf(p, x) = NULL
                        /\ MemOf(p, x)' = IF x \in FilePage THEN FileVal ELSE NULL
    BY <1>0, <1>1, MemValue, MemValuePrime, Zenon DEF MemIs, Off, Gone
  <1>3. mem' = [mem EXCEPT ![p] = [x \in UPage |-> IF x \in FilePage THEN FileVal ELSE NULL]]
    BY <1>2, MemMine, Zenon
  <1>4. \A x \in UPage : mem[p][x] = NULL
    BY <1>2, Zenon DEF mem
  <1>5. QED
    BY <1>1, <1>3, <1>4, Zenon DEF Mem!Start, Mem!UPage, UPage

LEMMA InstalledMem ==
  ASSUME Alone, VInv, AInv, NEW p \in Proc, ~ panic, KernelStep(p),
         NEW u \in UPage, NEW i \in Frame, Installed(p, u, i)
  PROVE  Mem!Grow(p, u) \/ UNCHANGED <<mem, last>>
  <1> USE DEF spt
  <1>0. TypeOK /\ pc[p] = "install" /\ upage[p] = u /\ kp[p] = i /\ Filled(p, u)
    BY Zenon DEF VInv, AInv, Installed, PageOK
  <1>1. /\ pc'[p] = "mark" /\ UNCHANGED <<location, kpage, swap_location, data, disk, last>>
        /\ \A x \in UPage : pte'[p][x] = IF x = u THEN i ELSE pte[p][x]
    BY <1>0, Zenon DEF Installed, Goto, TypeOK, PageType, LocalType, swap
  <1>2. ASSUME NEW x \in UPage, x # u PROVE MemOf(p, x)' = MemOf(p, x)
    <2>1. Normal(p, x)
      BY <1>0, <1>2, Zenon DEF AInv, PageOK, Evicting
    <2>2. QED
      BY <1>0, <1>1, <1>2, <2>1, AtRest, Zenon DEF Off
  <1>3. MemOf(p, u)' = data[i] /\ data[i] \in Val
    <2>1. MemIs(p, u)'
      BY MemValuePrime, Zenon
    <2>2. data[i] \in Val
      BY <1>0, Zenon DEF TypeOK, DataType
    <2>3. QED
      BY <1>0, <1>1, <2>1, <2>2, NullApart, Zenon DEF MemIs, Off
  <1>4. CASE location[p][u] = "frame"
    <2>1. u \in StackPage /\ mem[p][u] = NULL
      BY <1>0, <1>4, MemValue, Zenon DEF MemIs, Off, Filled, mem
    <2>2. PICK v \in Val : v = data[i]
      BY <1>3, Zenon
    <2>3. mem' = [mem EXCEPT ![p][u] = v]
      BY <1>2, <1>3, <2>2, MemPage
    <2>4. QED
      BY <1>1, <2>1, <2>3, Zenon DEF Mem!Grow
  <1>5. CASE location[p][u] # "frame"
    <2>1. location[p][u] \in {"filesys", "swap"}
      BY <1>0, <1>5 DEF Filled, TypeOK, PageType
    <2>2. MemOf(p, u) = data[i]
      BY <1>0, <2>1, MemValue, Zenon DEF MemIs, Off, Filled
    <2>3. QED
      BY <1>1, <1>2, <1>3, <2>2, MemSame, Zenon
  <1>6. QED
    BY <1>4, <1>5, Zenon

LEMMA NextMemory ==
  ASSUME Alone, VInv, AInv, NEW p \in Proc, ~ panic, KernelStep(p) \/ UserStep(p)
  PROVE  Mem!Next \/ UNCHANGED <<mem, last>>
  <1>0. UPage = Mem!UPage /\ TypeOK /\ PlaceOK
    BY Zenon DEF UPage, Mem!UPage, VInv
  <1>1. CASE UserStep(p)
    <2>1. CASE Start(p)
      BY <1>1, <2>1, StartMem, Zenon DEF Mem!Next
    <2>2. CASE Exit(p)
      <3>1. pc'[p] = "exit" /\ UNCHANGED last
        BY <1>0, <2>2, Zenon DEF Exit, Goto, TypeOK, LocalType
      <3>2. QED
        BY <3>1, MemGone, Zenon DEF Mem!Next
    <2>3. ASSUME NEW u \in UPage, Read(p, u) PROVE Mem!Next
      BY <1>0, <1>1, <2>3, ReadMem, Zenon DEF Mem!Next
    <2>4. ASSUME NEW u \in UPage, NEW v \in Val, Write(p, u, v) PROVE Mem!Next
      BY <1>0, <1>1, <2>4, WriteMem, Zenon DEF Mem!Next
    <2>5. ASSUME NEW u \in UPage, Fault(p, u) PROVE UNCHANGED <<mem, last>>
      <3>1. /\ pc[p] = "run" /\ pc'[p] = "find"
            /\ UNCHANGED <<location, kpage, swap_location, pte, data, disk, last>>
        BY <1>0, <2>5, Zenon DEF Fault, Goto, TypeOK, LocalType, spt, swap
      <3>2. \A x \in UPage : PageOK(p, x)
        BY Zenon DEF AInv
      <3>3. QED
        BY <1>0, <3>1, <3>2, Steady, MemSame, Zenon DEF Active
    <2>6. QED
      BY <1>1, <2>1, <2>2, <2>3, <2>4, <2>5, Zenon DEF UserStep
  <1>2. CASE KernelStep(p) /\ ~ UserStep(p)
    <2>1. ASSUME NEW k \in Frame \cup {NULL}, Quit(p, k) PROVE Mem!Next
      <3>1. pc'[p] = "exit" /\ UNCHANGED last
        BY <1>0, <2>1, Zenon DEF Quit, Goto, TypeOK, LocalType
      <3>2. QED
        BY <3>1, MemGone, Zenon DEF Mem!Next
    <2>2. ASSUME NEW u \in UPage, NEW i \in Frame, Installed(p, u, i)
          PROVE  Mem!Next \/ UNCHANGED <<mem, last>>
      BY <1>0, <1>2, <2>2, InstalledMem, Zenon DEF Mem!Next
    <2>3. CASE ~ Loud(p)
      <3>1. \A x \in UPage : last' = last /\ MemOf(p, x)' = MemOf(p, x)
        BY <2>3, NextMem, Zenon
      <3>2. UPage # {}
        BY VmAssumption, Zenon DEF UPage
      <3>3. mem' = mem
        BY <3>1, MemSame, Zenon
      <3>4. QED
        BY <3>1, <3>2, <3>3, Zenon
    <2>4. CASE Loud(p)
      <3>1. \/ \E u \in UPage, i \in Frame : Installed(p, u, i)
            \/ \E k \in Frame \cup {NULL} : Quit(p, k)
        BY <1>2, <2>4, Zenon DEF Loud, UserStep, KernelStep
      <3>2. QED
        BY <2>1, <2>2, <3>1, Zenon
    <2>5. QED
      BY <2>3, <2>4, Zenon
  <1>3. QED
    BY <1>1, <1>2, Zenon

(* Whatever a process that runs alone reads from a page is what it wrote     *)
(* there last, or what the executable holds there, through every fault,      *)
(* eviction, write to swap and return from swap: the paging of vm/ implements *)
(* plain memory.                                                             *)
THEOREM MemoryRefinement == Alone => (Spec => ImplementsMemory)
  <1> SUFFICES ASSUME Alone PROVE Spec => ImplementsMemory
    BY Zenon
  <1>1. Init => Mem!Init
    <2> SUFFICES ASSUME Init PROVE Mem!Init
      BY Zenon
    <2>1. \A p \in Proc, u \in UPage : MemOf(p, u) = NULL
      BY MemValue, Zenon DEF MemIs, Off, Init
    <2>2. QED
      BY <2>1, Zenon DEF Mem!Init, Mem!UPage, UPage, mem, Init
  <1>2. VInv /\ AInv /\ [Next]_vars => [Mem!Next]_<<mem, last>>
    <2> SUFFICES ASSUME VInv, AInv, [Next]_vars PROVE [Mem!Next]_<<mem, last>>
      BY Zenon
    <2>1. CASE UNCHANGED vars
      <3>1. \A p \in Proc, u \in UPage : MemOf(p, u)' = MemOf(p, u)
        BY <2>1 DEF MemOf, vars, spt, swap
      <3>2. QED
        BY <2>1, <3>1, Zenon DEF mem, vars
    <2>2. CASE Next
      <3>1. PICK p \in Proc : KernelStep(p) \/ UserStep(p)
        BY <2>2, Zenon DEF Next
      <3>2. ~ panic
        BY <3>1, Zenon DEF KernelStep, UserStep
      <3>3. QED
        BY <3>1, <3>2, NextMemory, Zenon
    <2>3. QED
      BY <2>1, <2>2, Zenon
  <1>3. QED
    BY <1>1, <1>2, AInvHolds, PTL DEF Spec, ImplementsMemory, Mem!Spec
=============================================================================
