--------------------------------- MODULE Vm ---------------------------------
(***************************************************************************)
(* Virtual memory: the supplemental page tables (vm/page.c), the frame     *)
(* table with its clock (vm/frames.c), the swap slots (vm/swap.c) and the  *)
(* page table entries (userprog/pagedir.c), driven by the page faults, the *)
(* start and the end of user processes.  What runs under frame_lock is one *)
(* step.  frame_evict runs without it, and with interrupts on: each of its *)
(* statements is a step, and looks up clock_pointer again.                 *)
(***************************************************************************)
EXTENDS Integers, FiniteSets

CONSTANTS
  Proc,
  FilePage,      \* user pages of the executable
  StackPage,     \* user pages of the stack
  First,         \* the stack page that setup_stack installs
  TOTAL_PAGES,   \* frames
  CLOCK_START,   \* the first frame that the clock visits (25 in the code)
  SWAP_SLOTS,    \* pages that fit into the swap disk
  Val,           \* contents of a page
  FileVal,       \* contents of the pages of the executable
  NULL,
  MAX_DRIFT,     \* bound: how far below zero occupancy may be when one starts
  Alone,         \* whether at most one user process exists at a time
  Failures       \* whether reads of the executable come short, and page
                 \* tables find no memory

UPage == FilePage \cup StackPage
Frame == 0 .. TOTAL_PAGES - 1
Slot == 0 .. SWAP_SLOTS - 1

ASSUME VmAssumption ==
  /\ TOTAL_PAGES \in Nat /\ SWAP_SLOTS \in Nat
  /\ CLOCK_START \in Frame
  /\ First \in StackPage /\ FilePage \cap StackPage = {}
  /\ FileVal \in Val
  /\ NULL \notin Val \cup Frame \cup Slot \cup UPage \cup Proc \cup (Proc \X UPage)
  /\ MAX_DRIFT \in Nat \ {0}
  /\ Alone \in BOOLEAN /\ Failures \in BOOLEAN

VARIABLES
  location, kpage, swap_location,   \* struct page, for each process and page
  pte,                              \* the frame that a page is mapped to
  accessed,                         \* the accessed bits
  frame_upage, frame_pagedir,       \* frame_table: upage and pagedir of each
  page_pointer,                     \* frame, and the struct page it holds
  occupancy, clock_pointer,
  used,                             \* the slots that free_bitmap marks
  data, disk,                       \* contents of the frames and of the slots
  pc, upage, kp, victim, slot,      \* where each process is, and its locals
  last,                             \* the last access of a program
  panic,                            \* the kernel has stopped
  met                               \* history: an eviction has been disturbed

spt   == <<location, kpage, swap_location>>
frame_table == <<frame_upage, frame_pagedir, page_pointer>>
frames == <<frame_table, occupancy, clock_pointer>>
swap  == <<used, disk>>
locals == <<victim, slot>>
vars  == <<spt, pte, accessed, frames, swap, data, pc, upage, kp, victim, slot, last, panic,
           met>>

Init ==
  /\ location = [p \in Proc |-> [u \in UPage |-> "none"]]
  /\ kpage = [p \in Proc |-> [u \in UPage |-> NULL]]
  /\ swap_location = [p \in Proc |-> [u \in UPage |-> NULL]]
  /\ pte = [p \in Proc |-> [u \in UPage |-> NULL]]
  /\ accessed = [p \in Proc |-> [u \in UPage |-> FALSE]]
  /\ frame_upage = [i \in Frame |-> NULL]
  /\ frame_pagedir = [i \in Frame |-> NULL]
  /\ page_pointer = [i \in Frame |-> NULL]
  /\ occupancy = 0 /\ clock_pointer = CLOCK_START
  /\ used = {}
  /\ data = [i \in Frame |-> FileVal]
  /\ disk = [s \in Slot |-> FileVal]
  /\ pc = [p \in Proc |-> "out"]
  /\ upage = [p \in Proc |-> NULL]
  /\ kp = [p \in Proc |-> NULL]
  /\ victim = [p \in Proc |-> NULL]
  /\ slot = [p \in Proc |-> NULL]
  /\ last = NULL /\ panic = FALSE /\ met = FALSE

Goto(p, l) == pc' = [pc EXCEPT ![p] = l]

(* The locals of p are not needed any more. *)
Forget(p) ==
  /\ upage' = [upage EXCEPT ![p] = NULL]
  /\ kp' = [kp EXCEPT ![p] = NULL]

Empty == {i \in Frame : frame_upage[i] = NULL}

(* The least number of S, if there is one. *)
Least(S) == {i \in S : \A j \in S : i <= j}
-----------------------------------------------------------------------------
(* Programs. *)

(* load: load_segment builds the pages of the executable, setup_stack asks   *)
(* for a frame for the first stack page.                                     *)
Start(p) ==
  /\ pc[p] = "out"
  /\ Alone => \A q \in Proc : pc[q] = "out"
  /\ occupancy + MAX_DRIFT > 0
  /\ location' = [location EXCEPT ![p] =
                    [u \in UPage |-> IF u \in FilePage THEN "filesys" ELSE "none"]]
  /\ upage' = [upage EXCEPT ![p] = First]
  /\ Goto(p, "find")
  /\ UNCHANGED <<locals, kpage, swap_location, pte, accessed, frames, swap, data, kp, last, panic>>

(* History, for ImplementsMemory, which is about a process that runs alone. *)
Record(op, p, u, v) == last' = IF Alone THEN <<op, p, u, v>> ELSE NULL

(* A program accesses a page that is mapped; the processor notes it. *)
Read(p, u) ==
  /\ pc[p] = "run" /\ pte[p][u] # NULL
  /\ Record("read", p, u, data[pte[p][u]])
  /\ accessed' = [accessed EXCEPT ![p][u] = TRUE]
  /\ UNCHANGED <<locals, spt, pte, frames, swap, data, pc, upage, kp, panic>>

Write(p, u, v) ==
  /\ pc[p] = "run" /\ pte[p][u] # NULL
  /\ data' = [data EXCEPT ![pte[p][u]] = v]
  /\ Record("write", p, u, v)
  /\ accessed' = [accessed EXCEPT ![p][u] = TRUE]
  /\ UNCHANGED <<locals, spt, pte, frames, swap, pc, upage, kp, panic>>

(* An access to a page that is not: page_fault_identifier looks it up.  A    *)
(* page that is not in the table is stack growth; a page that is in a frame  *)
(* all the same (it is being evicted) makes the handler return at once, and  *)
(* the access fault again.                                                   *)
Fault(p, u) ==
  /\ pc[p] = "run" /\ pte[p][u] = NULL
  /\ location[p][u] # "frame"
  /\ upage' = [upage EXCEPT ![p] = u]
  /\ Goto(p, "find")
  /\ UNCHANGED <<locals, spt, pte, accessed, frames, swap, data, kp, last, panic>>

(* system_exit_helper. *)
Exit(p) ==
  /\ pc[p] = "run"
  /\ Goto(p, "exit")
  /\ UNCHANGED <<locals, spt, pte, accessed, frames, swap, data, upage, kp, last, panic>>
-----------------------------------------------------------------------------
(* frame_find_empty: the first empty frame, which is not reserved in any     *)
(* way; eviction if the count says that there is none.  A count that is      *)
(* too low ends in a null pointer.                                           *)
FindEmpty(p) ==
  /\ pc[p] = "find"
  /\ \/ /\ occupancy < TOTAL_PAGES
        /\ \/ \E i \in Least(Empty) : kp' = [kp EXCEPT ![p] = i] /\ Goto(p, "fill")
           \/ Empty = {} /\ kp' = [kp EXCEPT ![p] = NULL] /\ Goto(p, "nothing")
     \/ /\ occupancy >= TOTAL_PAGES
        /\ kp' = [kp EXCEPT ![p] = NULL]
        /\ Goto(p, "scan")
  /\ UNCHANGED <<locals, spt, pte, accessed, frames, swap, data, upage, last, panic>>

(* The caller of frame_find_empty has got a null pointer: setup_stack exits, *)
(* stack growth returns to the program, which faults again, reading the      *)
(* executable to address 0 is exit (-1), and reading from swap too, but with *)
(* frame_lock held, which thread_exit asserts it is not.                     *)
NoFrame(p) ==
  /\ pc[p] = "nothing"
  /\ \/ /\ \/ upage[p] = First /\ location[p][First] = "none"
           \/ location[p][upage[p]] = "filesys"
        /\ Goto(p, "exit")
        /\ UNCHANGED panic
     \/ /\ upage[p] \in StackPage \ {First} /\ location[p][upage[p]] = "none"
        /\ Goto(p, "run")
        /\ UNCHANGED panic
     \/ /\ location[p][upage[p]] = "swap"
        /\ panic' = TRUE
        /\ UNCHANGED pc
  /\ Forget(p)
  /\ UNCHANGED <<locals, spt, pte, accessed, frames, swap, data, last>>

(* frame_evict.  Its statements find the frame under the hand of the clock   *)
(* anew, so that another process may have moved the hand, or emptied the     *)
(* frame, since the last one.  kp is its result: found says that it is set.  *)

(* The page directory of the frame under the hand is there to be looked up. *)
Directory ==
  /\ clock_pointer \in Frame
  /\ frame_pagedir[clock_pointer] # NULL
  /\ pc[frame_pagedir[clock_pointer]] \notin {"out", "dead"}

(* No page table covers address 0, which an empty frame has for its page. *)
Accessed ==
  /\ frame_upage[clock_pointer] # NULL
  /\ accessed[frame_pagedir[clock_pointer]][frame_upage[clock_pointer]]

(* The hand has left the table, or the frame has no page directory, or one   *)
(* that has been destroyed.  A null one fails lookup_page's assertion; of    *)
(* what the others lead to nothing is said.                                  *)
EvictStops(p) ==
  /\ \/ pc[p] \in {"scan", "reset", "unmap"} /\ ~ Directory
     \/ /\ pc[p] \in {"swapout", "upage", "pagedir", "location", "kpage", "pointer", "result"}
        /\ clock_pointer \notin Frame
  /\ panic' = TRUE
  /\ UNCHANGED <<locals, spt, pte, accessed, frames, swap, data, pc, upage, kp, last>>

Scan(p) ==
  /\ pc[p] = "scan" /\ Directory
  /\ Goto(p, IF Accessed THEN "reset" ELSE "unmap")
  /\ UNCHANGED <<locals, spt, pte, accessed, frames, swap, data, upage, kp, last, panic>>

(* Mutant: the accessed bit is never cleared. *)
ResetNot(p) ==
  /\ pc[p] = "reset" /\ Directory
  /\ Goto(p, "tick")
  /\ UNCHANGED <<locals, spt, pte, accessed, frames, swap, data, upage, kp, last, panic>>

(* The page is given a second chance. *)
Reset(p) ==
  LET q == frame_pagedir[clock_pointer]
      u == frame_upage[clock_pointer] IN
  /\ pc[p] = "reset" /\ Directory
  /\ accessed' = IF u = NULL THEN accessed ELSE [accessed EXCEPT ![q][u] = FALSE]
  /\ Goto(p, "tick")
  /\ UNCHANGED <<locals, spt, pte, frames, swap, data, upage, kp, last, panic>>

(* pagedir_clear_page. *)
Unmap(p) ==
  LET q == frame_pagedir[clock_pointer]
      u == frame_upage[clock_pointer] IN
  /\ pc[p] = "unmap" /\ Directory
  /\ pte' = IF u = NULL THEN pte ELSE [pte EXCEPT ![q][u] = NULL]
  /\ Goto(p, "swapout")
  /\ UNCHANGED <<locals, spt, accessed, frames, swap, data, upage, kp, last, panic>>

(* swap_write is called with the frame under the hand and its page, and      *)
(* swap_get_free looks for a free slot.                                      *)
SwapScan(p) ==
  /\ pc[p] = "swapout" /\ clock_pointer \in Frame
  /\ kp' = [kp EXCEPT ![p] = clock_pointer]
  /\ victim' = [victim EXCEPT ![p] = page_pointer[clock_pointer]]
  /\ \E s \in IF used = Slot THEN {NULL} ELSE Least(Slot \ used) :
       slot' = [slot EXCEPT ![p] = s]
  /\ Goto(p, "swapping")
  /\ UNCHANGED <<spt, pte, accessed, frames, swap, data, upage, last, panic>>

(* Mutant: the slot is not marked. *)
SwapWriteUnmarked(p) ==
  LET f == victim[p] IN
  /\ pc[p] = "swapping"
  /\ slot[p] # NULL
  /\ swap_location' = [swap_location EXCEPT ![f[1]][f[2]] = slot[p]]
  /\ disk' = [disk EXCEPT ![slot[p]] = data[kp[p]]]
  /\ Goto(p, "upage")
  /\ kp' = [kp EXCEPT ![p] = NULL]
  /\ victim' = [victim EXCEPT ![p] = NULL]
  /\ slot' = [slot EXCEPT ![p] = NULL]
  /\ UNCHANGED <<location, kpage, pte, accessed, frames, used, data, upage, last, panic>>

(* The slot is marked and written.  With no free slot bitmap_set's assertion *)
(* fails; if the frame had no page, a null pointer is followed: exit (-1).   *)
SwapWrite(p) ==
  LET f == victim[p] IN
  /\ pc[p] = "swapping"
  /\ \/ /\ slot[p] = NULL
        /\ panic' = TRUE
        /\ UNCHANGED <<swap_location, swap, pc, victim, slot, upage, kp>>
     \/ /\ slot[p] # NULL
        /\ used' = used \cup {slot[p]}
        /\ IF f = NULL
           THEN Goto(p, "exit") /\ Forget(p) /\ UNCHANGED <<swap_location, disk>>
           ELSE /\ swap_location' = [swap_location EXCEPT ![f[1]][f[2]] = slot[p]]
                /\ disk' = [disk EXCEPT ![slot[p]] = data[kp[p]]]
                /\ Goto(p, "upage")
                /\ kp' = [kp EXCEPT ![p] = NULL]
                /\ UNCHANGED upage
        /\ victim' = [victim EXCEPT ![p] = NULL]
        /\ slot' = [slot EXCEPT ![p] = NULL]
        /\ UNCHANGED panic
  /\ UNCHANGED <<location, kpage, pte, accessed, frames, data, last>>

(* The frame is emptied, field by field. *)
ClearUpage(p) ==
  /\ pc[p] = "upage" /\ clock_pointer \in Frame
  /\ frame_upage' = [frame_upage EXCEPT ![clock_pointer] = NULL]
  /\ Goto(p, "pagedir")
  /\ UNCHANGED <<locals, spt, pte, accessed, frame_pagedir, page_pointer, occupancy, clock_pointer,
                 swap, data, upage, kp, last, panic>>

ClearPagedir(p) ==
  /\ pc[p] = "pagedir" /\ clock_pointer \in Frame
  /\ frame_pagedir' = [frame_pagedir EXCEPT ![clock_pointer] = NULL]
  /\ Goto(p, "location")
  /\ UNCHANGED <<locals, spt, pte, accessed, frame_upage, page_pointer, occupancy, clock_pointer,
                 swap, data, upage, kp, last, panic>>

(* A null page_pointer is followed: exit (-1), with the frame half cleared. *)
PageLost(p) ==
  /\ pc[p] \in {"location", "kpage"} /\ clock_pointer \in Frame
  /\ page_pointer[clock_pointer] = NULL
  /\ Goto(p, "exit")
  /\ Forget(p)
  /\ UNCHANGED <<locals, spt, pte, accessed, frames, swap, data, last, panic>>

SetInSwap(p) ==
  LET f == page_pointer[clock_pointer] IN
  /\ pc[p] = "location" /\ clock_pointer \in Frame /\ f # NULL
  /\ location' = [location EXCEPT ![f[1]][f[2]] = "swap"]
  /\ Goto(p, "kpage")
  /\ UNCHANGED <<locals, kpage, swap_location, pte, accessed, frames, swap, data, upage, kp, last,
                 panic>>

ClearKpage(p) ==
  LET f == page_pointer[clock_pointer] IN
  /\ pc[p] = "kpage" /\ clock_pointer \in Frame /\ f # NULL
  /\ kpage' = [kpage EXCEPT ![f[1]][f[2]] = NULL]
  /\ Goto(p, "pointer")
  /\ UNCHANGED <<locals, location, swap_location, pte, accessed, frames, swap, data, upage, kp, last,
                 panic>>

ClearPointer(p) ==
  /\ pc[p] = "pointer" /\ clock_pointer \in Frame
  /\ page_pointer' = [page_pointer EXCEPT ![clock_pointer] = NULL]
  /\ Goto(p, "count")
  /\ UNCHANGED <<locals, spt, pte, accessed, frame_upage, frame_pagedir, occupancy, clock_pointer,
                 swap, data, upage, kp, last, panic>>

(* Mutant: the count is not kept. *)
UncountNot(p) ==
  /\ pc[p] = "count"
  /\ Goto(p, "result")
  /\ UNCHANGED <<locals, spt, pte, accessed, frames, swap, data, upage, kp, last, panic>>

Uncount(p) ==
  /\ pc[p] = "count"
  /\ occupancy' = occupancy - 1
  /\ Goto(p, "result")
  /\ UNCHANGED <<locals, spt, pte, accessed, frame_table, clock_pointer, swap, data, upage, kp, last,
                 panic>>

SetResult(p) ==
  /\ pc[p] = "result" /\ clock_pointer \in Frame
  /\ kp' = [kp EXCEPT ![p] = clock_pointer]
  /\ Goto(p, "tick")
  /\ UNCHANGED <<locals, spt, pte, accessed, frames, swap, data, upage, last, panic>>

(* The hand moves on, past the end of the table for a moment. *)
Tick(p) ==
  /\ pc[p] = "tick"
  /\ clock_pointer' = clock_pointer + 1
  /\ Goto(p, "wrap")
  /\ UNCHANGED <<locals, spt, pte, accessed, frame_table, occupancy, swap, data, upage, kp, last,
                 panic>>

Wrap(p) ==
  /\ pc[p] = "wrap"
  /\ clock_pointer' = IF clock_pointer = TOTAL_PAGES THEN CLOCK_START ELSE clock_pointer
  /\ Goto(p, IF kp[p] = NULL THEN "scan" ELSE "fill")
  /\ UNCHANGED <<locals, spt, pte, accessed, frame_table, occupancy, swap, data, upage, kp, last,
                 panic>>
-----------------------------------------------------------------------------
(* The frame is filled and mapped. *)

(* frame_free, also of a frame that was never installed. *)
FrameFree(k) ==
  IF k = NULL THEN UNCHANGED <<frame_table, occupancy>>
  ELSE /\ frame_upage' = [frame_upage EXCEPT ![k] = NULL]
       /\ frame_pagedir' = [frame_pagedir EXCEPT ![k] = NULL]
       /\ page_pointer' = [page_pointer EXCEPT ![k] = NULL]
       /\ occupancy' = occupancy - 1

(* page_read_install: a read that comes short frees the frame and exits. *)
ReadFile(p) ==
  /\ pc[p] = "fill" /\ location[p][upage[p]] = "filesys"
  /\ \/ /\ data' = [data EXCEPT ![kp[p]] = FileVal]
        /\ Goto(p, "install")
        /\ UNCHANGED <<frame_table, occupancy, upage, kp>>
     \/ /\ Failures
        /\ FrameFree(kp[p])
        /\ Goto(p, "exit")
        /\ Forget(p)
        /\ UNCHANGED data
  /\ UNCHANGED <<locals, spt, pte, accessed, clock_pointer, swap, last, panic>>

(* Mutant: the first slot in use is read, whichever page it holds. *)
ReadSwapFirst(p) ==
  LET s == swap_location[p][upage[p]] IN
  /\ pc[p] = "fill" /\ location[p][upage[p]] = "swap"
  /\ \E t \in Least(used) : data' = [data EXCEPT ![kp[p]] = disk[t]]
  /\ used' = used \ {s}
  /\ swap_location' = [swap_location EXCEPT ![p][upage[p]] = NULL]
  /\ Goto(p, "install")
  /\ UNCHANGED <<locals, location, kpage, pte, accessed, frames, disk, upage, kp, last, panic>>

(* swap_read, under frame_lock: the slot is read, then given back.  A page   *)
(* that has no slot is read from sector -1, and check_sector panics.         *)
ReadSwap(p) ==
  LET s == swap_location[p][upage[p]] IN
  /\ pc[p] = "fill" /\ location[p][upage[p]] = "swap"
  /\ \/ /\ s # NULL
        /\ data' = [data EXCEPT ![kp[p]] = disk[s]]
        /\ used' = used \ {s}
        /\ swap_location' = [swap_location EXCEPT ![p][upage[p]] = NULL]
        /\ Goto(p, "install")
        /\ UNCHANGED panic
     \/ /\ s = NULL
        /\ panic' = TRUE
        /\ UNCHANGED <<data, used, swap_location, pc>>
  /\ UNCHANGED <<locals, location, kpage, pte, accessed, frames, disk, upage, kp, last>>

(* Stack growth: the page is added as one in a frame, with whatever the      *)
(* frame holds.                                                              *)
AddStack(p) ==
  /\ pc[p] = "fill" /\ location[p][upage[p]] = "none"
  /\ location' = [location EXCEPT ![p][upage[p]] = "frame"]
  /\ Goto(p, "install")
  /\ UNCHANGED <<locals, kpage, swap_location, pte, accessed, frames, swap, data, upage, kp, last,
                 panic>>

(* frame_install, under frame_lock.  A page that is mapped already, or a     *)
(* page table without memory, gives the frame back and exits; a frame that   *)
(* is taken is left mapped to this page too, and the process exits.          *)
Install(p) ==
  LET u == upage[p] IN
  /\ pc[p] = "install"
  /\ \/ /\ pte[p][u] # NULL \/ Failures
        /\ FrameFree(kp[p])
        /\ Goto(p, "exit")
        /\ Forget(p)
        /\ UNCHANGED <<pte, accessed>>
     \/ /\ pte[p][u] = NULL
        /\ pte' = [pte EXCEPT ![p][u] = kp[p]]
        /\ accessed' = [accessed EXCEPT ![p][u] = FALSE]
        /\ IF frame_upage[kp[p]] # NULL
           THEN Goto(p, "exit") /\ Forget(p) /\ UNCHANGED <<frame_table, occupancy>>
           ELSE /\ frame_upage' = [frame_upage EXCEPT ![kp[p]] = u]
                /\ frame_pagedir' = [frame_pagedir EXCEPT ![kp[p]] = p]
                /\ page_pointer' = [page_pointer EXCEPT ![kp[p]] = <<p, u>>]
                /\ occupancy' = occupancy + 1
                /\ Goto(p, "mark")
                /\ UNCHANGED <<upage, kp>>
  /\ UNCHANGED <<locals, spt, clock_pointer, swap, data, last, panic>>

(* The end of page_install_to_frame; the program goes on. *)
Mark(p) ==
  /\ pc[p] = "mark"
  /\ location' = [location EXCEPT ![p][upage[p]] = "frame"]
  /\ kpage' = [kpage EXCEPT ![p][upage[p]] = kp[p]]
  /\ Goto(p, "run")
  /\ Forget(p)
  /\ UNCHANGED <<locals, swap_location, pte, accessed, frames, swap, data, last, panic>>
-----------------------------------------------------------------------------
(* page_clear_all and process_exit. *)

(* The next page that is in a frame. *)
ClearTest(p, u) ==
  /\ pc[p] = "exit"
  /\ location[p][u] = "frame"
  /\ upage' = [upage EXCEPT ![p] = u]
  /\ kp' = [kp EXCEPT ![p] = kpage[p][u]]
  /\ Goto(p, "free")
  /\ UNCHANGED <<locals, spt, pte, accessed, frames, swap, data, last, panic>>

(* Mutant: the frame is not freed. *)
ClearFreeNot(p) ==
  /\ pc[p] = "free"
  /\ Goto(p, "freed")
  /\ UNCHANGED <<locals, spt, pte, accessed, frames, swap, data, upage, kp, last, panic>>

ClearFree(p) ==
  /\ pc[p] = "free"
  /\ FrameFree(kp[p])
  /\ Goto(p, "freed")
  /\ UNCHANGED <<locals, spt, pte, accessed, clock_pointer, swap, data, upage, kp, last, panic>>

(* The struct page is told. *)
ClearPage(p) ==
  /\ pc[p] = "freed"
  /\ kpage' = [kpage EXCEPT ![p][upage[p]] = NULL]
  /\ location' = [location EXCEPT ![p][upage[p]] = "none"]
  /\ Goto(p, "exit")
  /\ Forget(p)
  /\ UNCHANGED <<locals, swap_location, pte, accessed, frames, swap, data, last, panic>>

(* The tables are destroyed; the slots of pages in swap stay marked, and the *)
(* struct pages stay allocated, for whoever is evicting one of them.  A      *)
(* process that runs alone may be followed by another one.                   *)
Die(p) ==
  /\ pc[p] = "exit"
  /\ \A u \in UPage : location[p][u] # "frame"
  /\ location' = [location EXCEPT ![p] = [u \in UPage |-> "none"]]
  /\ kpage' = [kpage EXCEPT ![p] = [u \in UPage |-> NULL]]
  /\ swap_location' = [swap_location EXCEPT ![p] = [u \in UPage |-> NULL]]
  /\ pte' = [pte EXCEPT ![p] = [u \in UPage |-> NULL]]
  /\ accessed' = [accessed EXCEPT ![p] = [u \in UPage |-> FALSE]]
  /\ Goto(p, IF Alone THEN "out" ELSE "dead")
  /\ UNCHANGED <<locals, upage, kp, frames, swap, data, last, panic>>
-----------------------------------------------------------------------------
Choose(p) == Scan(p) \/ Reset(p) \/ Unmap(p) \/ SwapScan(p) \/ SwapWrite(p)
EmptyFrame(p) ==
  \/ ClearUpage(p) \/ ClearPagedir(p) \/ PageLost(p) \/ SetInSwap(p) \/ ClearKpage(p)
  \/ ClearPointer(p) \/ Uncount(p)
Evict(p) ==
  Choose(p) \/ EmptyFrame(p) \/ SetResult(p) \/ Tick(p) \/ Wrap(p) \/ EvictStops(p)
Fill(p) == ReadFile(p) \/ ReadSwap(p) \/ AddStack(p)
Clear(p) == (\E u \in UPage : ClearTest(p, u)) \/ ClearFree(p) \/ ClearPage(p) \/ Die(p)

(* Where a process has begun to empty the frame under the hand, and has not  *)
(* counted it yet.                                                           *)
Clearing == {"pagedir", "location", "kpage", "pointer", "count"}

(* Meanwhile p changes the frame table, its count or the hand, or begins to  *)
(* empty a frame too.  Nothing in the code prevents it.                      *)
Disturbs(p) ==
  /\ \E q \in Proc \ {p} : pc[q] \in Clearing
  /\ frames' # frames \/ pc'[p] \in Clearing

Watch(p) == met' = (met \/ Disturbs(p))

(* The kernel works for p. *)
KernelStep(p) ==
  /\ ~ panic
  /\ FindEmpty(p) \/ NoFrame(p) \/ Evict(p) \/ Fill(p) \/ Install(p) \/ Mark(p) \/ Clear(p)
  /\ Watch(p)

UserStep(p) ==
  /\ ~ panic
  /\ \/ Start(p) \/ Exit(p)
     \/ \E u \in UPage : Read(p, u) \/ Fault(p, u) \/ \E v \in Val : Write(p, u, v)
  /\ Watch(p)

Next == \E p \in Proc : KernelStep(p) \/ UserStep(p)

Spec == Init /\ [][Next]_vars

(* No thread that can go on is left out: the timer preempts the others. *)
FairSpec == Spec /\ \A p \in Proc : WF_vars(KernelStep(p))
-----------------------------------------------------------------------------
(* Properties. *)

Occupied == Frame \ Empty

(* As long as no eviction has been disturbed while it empties its frame, the *)
(* count of occupied frames is not too high, but for the one frame that is   *)
(* being emptied: whatever else processes that fault, evict and exit at the  *)
(* same time do, frame_evict is entered only if every frame was occupied a   *)
(* moment ago.  Disturbed, an eviction can end without its occupancy--.      *)
NeverEvictsEarly ==
  ~ met => occupancy <= Cardinality(Occupied)
                        + (IF \E p \in Proc : pc[p] \in Clearing THEN 1 ELSE 0)

(* As long as no eviction has been disturbed, the frame table does not name  *)
(* a page directory that has been destroyed: the clock would follow a        *)
(* pointer into a freed page.  Disturbed, an eviction can mark the wrong     *)
(* page IN_SWAP, whose frame page_clear_all then leaves in the table.        *)
FrameOwnersAlive ==
  ~ met => \A i \in Frame :
    frame_pagedir[i] # NULL => pc[frame_pagedir[i]] \notin {"out", "dead"}

(* Frame table, page tables and supplemental tables agree whenever a process *)
(* runs alone, and the count is exact; no two pages share a slot of the swap *)
(* disk, and the slot of a page is marked.                                   *)
TablesAgree ==
  /\ \A p \in Proc : Alone /\ pc[p] = "run" =>
    /\ \A u \in UPage :
         /\ location[p][u] = "frame" <=> pte[p][u] # NULL
         /\ pte[p][u] = kpage[p][u]
         /\ pte[p][u] # NULL =>
              /\ frame_upage[pte[p][u]] = u /\ frame_pagedir[pte[p][u]] = p
              /\ page_pointer[pte[p][u]] = <<p, u>>
         /\ location[p][u] = "swap" <=> swap_location[p][u] # NULL
    /\ \A i \in Occupied : pte[frame_pagedir[i]][frame_upage[i]] = i
    /\ occupancy = Cardinality(Occupied)
  /\ Alone => \A p \in Proc, u \in UPage : swap_location[p][u] # NULL =>
    /\ swap_location[p][u] \in used
    /\ \A q \in Proc, w \in UPage : swap_location[q][w] = swap_location[p][u] => q = p /\ w = u

(* What page u of process p holds, wherever it is. *)
MemOf(p, u) ==
  IF pc[p] \in {"out", "exit", "free", "freed", "dead"} THEN NULL
  ELSE IF pte[p][u] # NULL THEN data[pte[p][u]]
  ELSE CASE location[p][u] = "none" -> NULL
         [] location[p][u] = "filesys" -> FileVal
         [] location[p][u] = "swap" ->
              IF swap_location[p][u] # NULL THEN disk[swap_location[p][u]] ELSE data[kp[p]]
         [] location[p][u] = "frame" ->
              IF kpage[p][u] # NULL THEN data[kpage[p][u]] ELSE NULL

mem == [p \in Proc |-> [u \in UPage |-> MemOf(p, u)]]

Mem == INSTANCE Memory WITH mem <- mem

(* Paging is invisible: a process that runs alone reads from each page what  *)
(* it wrote there last, however often the page went to swap and came back to *)
(* another frame in between.                                                 *)
ImplementsMemory == Mem!Spec

(* A fault is served, or ends the process: the clock finds a victim.         *)
FaultServed == \A p \in Proc : pc[p] = "find" ~> (pc[p] \in {"run", "out", "dead"} \/ panic)

(* A claim of a comment that the code does not keep. *)

(* frames.c: "upage at this point should be null". *)
NullAtInstall ==
  \A p \in Proc : pc[p] = "install" /\ pte[p][upage[p]] = NULL => frame_upage[kp[p]] = NULL
=============================================================================
