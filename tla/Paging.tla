------------------------------- MODULE Paging -------------------------------
(* Page directories and page tables (userprog/pagedir.c, threads/pte.h and   *)
(* paging_init in threads/init.c) as the CPU walks them, with the            *)
(* translations it keeps in its TLB.  Beside them stands the map from user   *)
(* pages to frames that each process should have.                            *)
EXTENDS Integers, FiniteSets

CONSTANTS
  Proc, NULL,
  Page,       \* pages for directories and tables
  Frame,      \* user frames
  Writable,   \* the user pages that are not read-only
  KernelPage, TextPage,   \* the kernel's own pages, and those of its code
  PdUser,     \* number of directory entries below PHYS_BASE
  PtSize      \* number of entries of a table

VARIABLES
  mem,        \* what each page in use for a directory or table holds
  pagedir,    \* each process's directory, or NULL
  cur, going, \* the running process; the directories being taken down by process_exit
  cr3, tlb,   \* the CPU: active directory, cached translations
  map, used, wrote   \* what should be: frames mapped, pages used and written since told otherwise

vars == <<mem, pagedir, cur, going, cr3, tlb, map, used, wrote>>

User == 0 .. PdUser * PtSize - 1            \* user virtual pages
pd_no(v) == v \div PtSize
pt_no(v) == v % PtSize
Kernel == PdUser                            \* the directory entry of the kernel
init_page_dir == CHOOSE p \in Page : TRUE
init_table == CHOOSE p \in Page \ {init_page_dir} : TRUE

pte_create(page, writable, user) == [page |-> page, P |-> TRUE, W |-> writable, U |-> user, A |-> FALSE, D |-> FALSE]
pde_create(pt) == [page |-> pt, P |-> TRUE]

EmptyTable == [i \in 0 .. PtSize - 1 |-> NULL]
FreePages == Page \ DOMAIN mem
palloc_get_page == CHOOSE p \in FreePages : TRUE

(* The kernel's mapping is at its own addresses; its code is read-only. *)
paging_init ==
  [p \in {init_page_dir, init_table} |->
     IF p = init_page_dir THEN [i \in 0 .. PdUser |-> IF i = Kernel THEN pde_create(init_table) ELSE NULL]
     ELSE [k \in KernelPage |-> pte_create(k, k \notin TextPage, FALSE)]]

Init ==
  /\ mem = paging_init
  /\ pagedir = [p \in Proc |-> NULL]
  /\ cur \in Proc /\ going = [p \in Proc |-> NULL]
  /\ cr3 = init_page_dir /\ tlb = {}
  /\ map = [p \in Proc |-> [v \in User |-> NULL]]
  /\ used = {} /\ wrote = {}

Extend(m, p, v) == [q \in DOMAIN m \cup {p} |-> IF q = p THEN v ELSE m[q]]

(* lookup_page without create: the table of a page, or NULL. *)
Table(pd, v) == IF mem[pd][pd_no(v)] = NULL THEN NULL ELSE mem[pd][pd_no(v)].page
lookup_page(pd, v) == IF Table(pd, v) = NULL THEN NULL ELSE mem[Table(pd, v)][pt_no(v)]
SetPte(pd, v, pte) == [mem EXCEPT ![Table(pd, v)][pt_no(v)] = pte]

(* Mutant: the directory that is not active is the one invalidated. *)
invalidate_other(pd) == IF cr3 # pd THEN {} ELSE tlb

(* The TLB after invalidate_pagedir. *)
invalidate_pagedir(pd) == IF cr3 = pd THEN {} ELSE tlb
-----------------------------------------------------------------------------
pagedir_create(p) ==
  /\ cur = p /\ pagedir[p] = NULL /\ going[p] = NULL
  /\ FreePages # {}
  /\ mem' = Extend(mem, palloc_get_page, mem[init_page_dir])
  /\ pagedir' = [pagedir EXCEPT ![p] = palloc_get_page]
  /\ UNCHANGED <<cur, going, cr3, tlb, map, used, wrote>>

(* pagedir_set_page, when a table is there, when one is made, and when there *)
(* is no memory for one.                                                     *)
pagedir_set_page(p, v, frame, writable) ==
  LET pd == pagedir[p]
  IN  /\ cur = p /\ pd # NULL /\ map[p][v] = NULL
      /\ \/ /\ Table(pd, v) # NULL
            /\ mem' = SetPte(pd, v, pte_create(frame, writable, TRUE))
            /\ map' = [map EXCEPT ![p][v] = frame]
         \/ /\ Table(pd, v) = NULL /\ FreePages # {}
            /\ mem' = [Extend(mem, palloc_get_page,
                              [EmptyTable EXCEPT ![pt_no(v)] = pte_create(frame, writable, TRUE)])
                         EXCEPT ![pd][pd_no(v)] = pde_create(palloc_get_page)]
            /\ map' = [map EXCEPT ![p][v] = frame]
         \/ /\ Table(pd, v) = NULL /\ FreePages = {}
            /\ UNCHANGED <<mem, map>>
      /\ used' = IF map' # map THEN used \ {<<p, v>>} ELSE used
      /\ wrote' = IF map' # map THEN wrote \ {<<p, v>>} ELSE wrote
      /\ UNCHANGED <<pagedir, cur, going, cr3, tlb>>

pagedir_get_page(pd, v) == LET pte == lookup_page(pd, v) IN IF pte # NULL /\ pte.P THEN pte.page ELSE NULL

pagedir_clear_page(p, v) ==
  LET pd == pagedir[p]
      pte == lookup_page(pd, v)
  IN  /\ pd # NULL
      /\ IF pte # NULL /\ pte.P
           THEN mem' = SetPte(pd, v, [pte EXCEPT !.P = FALSE]) /\ tlb' = invalidate_pagedir(pd)
           ELSE UNCHANGED <<mem, tlb>>
      /\ map' = [map EXCEPT ![p][v] = NULL]
      /\ UNCHANGED <<pagedir, cur, going, cr3, used, wrote>>

pagedir_set_accessed(p, v) ==
  LET pd == pagedir[p]
      pte == lookup_page(pd, v)
  IN  /\ pd # NULL /\ pte # NULL
      /\ mem' = SetPte(pd, v, [pte EXCEPT !.A = FALSE])
      /\ tlb' = invalidate_pagedir(pd)
      /\ used' = used \ {<<p, v>>}
      /\ UNCHANGED <<pagedir, cur, going, cr3, map, wrote>>

pagedir_set_dirty(p, v) ==
  LET pd == pagedir[p]
      pte == lookup_page(pd, v)
  IN  /\ pd # NULL /\ pte # NULL
      /\ mem' = SetPte(pd, v, [pte EXCEPT !.D = FALSE])
      /\ tlb' = invalidate_pagedir(pd)
      /\ wrote' = wrote \ {<<p, v>>}
      /\ UNCHANGED <<pagedir, cur, going, cr3, map, used>>

(* Loading cr3 empties the TLB. *)
pagedir_activate(pd) ==
  /\ cr3' = IF pd = NULL THEN init_page_dir ELSE pd
  /\ tlb' = {}

(* A switch to process p: thread_schedule_tail calls process_activate. *)
process_activate(p) ==
  /\ cur' = p
  /\ pagedir_activate(pagedir[p])
  /\ UNCHANGED <<mem, pagedir, going, map, used, wrote>>

(* process_exit: first the thread forgets its directory, so that a switch    *)
(* does not bring it back; then the CPU leaves it; then it is destroyed.     *)
process_exit(p) ==
  /\ cur = p /\ pagedir[p] # NULL
  /\ going' = [going EXCEPT ![p] = [pd |-> pagedir[p], left |-> FALSE]]
  /\ pagedir' = [pagedir EXCEPT ![p] = NULL]
  /\ map' = [map EXCEPT ![p] = [v \in User |-> NULL]]
  /\ used' = {x \in used : x[1] # p} /\ wrote' = {x \in wrote : x[1] # p}
  /\ UNCHANGED <<mem, cur, cr3, tlb>>

LeavePagedir(p) ==
  /\ cur = p /\ going[p] # NULL
  /\ ~going[p].left
  /\ going' = [going EXCEPT ![p].left = TRUE]
  /\ pagedir_activate(NULL)
  /\ UNCHANGED <<mem, pagedir, cur, map, used, wrote>>

Tables(pd) == {mem[pd][i].page : i \in {j \in 0 .. PdUser - 1 : mem[pd][j] # NULL}}

(* The tables below PHYS_BASE are freed; the frames are not. *)
pagedir_destroy(p) ==
  /\ cur = p /\ going[p] # NULL
  /\ going[p].left
  /\ mem' = [q \in DOMAIN mem \ (Tables(going[p].pd) \cup {going[p].pd}) |-> mem[q]]
  /\ going' = [going EXCEPT ![p] = NULL]
  /\ UNCHANGED <<pagedir, cur, cr3, tlb, map, used, wrote>>

(* The CPU (external): a process reads or writes a page, through the TLB or, *)
(* when that knows nothing of it, through the tables, which are marked.      *)
Access(p, v, write) ==
  LET pd == pagedir[p]
      pte == lookup_page(pd, v)
      hit == {e \in tlb : e.v = v /\ (write => e.D)}
  IN  /\ cur = p /\ pd # NULL /\ cr3 = pd
      /\ \/ hit # {} /\ UNCHANGED <<mem, tlb>>
         \/ /\ hit = {} /\ pte # NULL
            /\ pte.P /\ (write => pte.W)
            /\ mem' = SetPte(pd, v, [pte EXCEPT !.A = TRUE, !.D = @ \/ write])
            /\ tlb' = {e \in tlb : e.v # v} \cup {[v |-> v, page |-> pte.page, D |-> pte.D \/ write]}
      /\ used' = used \cup {<<p, v>>}
      /\ wrote' = IF write THEN wrote \cup {<<p, v>>} ELSE wrote
      /\ UNCHANGED <<pagedir, cur, going, cr3, map>>

Next ==
  \/ \E p \in Proc :
       \/ pagedir_create(p) \/ process_activate(p)
       \/ process_exit(p) \/ LeavePagedir(p) \/ pagedir_destroy(p)
       \/ \E v \in User :
            \/ \E f \in Frame : pagedir_set_page(p, v, f, v \in Writable)
            \/ pagedir_clear_page(p, v) \/ pagedir_set_accessed(p, v) \/ pagedir_set_dirty(p, v)
            \/ \E w \in BOOLEAN : Access(p, v, w)

(* The tables say what they should: each process's directory maps its pages  *)
(* to the frames they were given and no others, and the kernel's pages as    *)
(* paging_init did; no table is shared or lost, and the CPU never stands on  *)
(* a freed directory, wherever process_exit is preempted; what the CPU has   *)
(* cached is still in the active tables; and a page that was used or written *)
(* since its bit was cleared is marked so, whoever clears bits and removes   *)
(* pages and whichever directory is active.                                  *)
TablesAreRight ==
  /\ \A p \in Proc : pagedir[p] # NULL =>
       /\ \A v \in User : pagedir_get_page(pagedir[p], v) = map[p][v]
       /\ mem[pagedir[p]][Kernel] = mem[init_page_dir][Kernel]
  /\ LET live == ({pagedir[p] : p \in Proc} \ {NULL}) \cup {going[p].pd : p \in {q \in Proc : going[q] # NULL}}
     IN  /\ DOMAIN mem = {init_page_dir, init_table} \cup live \cup UNION {Tables(pd) : pd \in live}
         /\ \A p, q \in live : p # q => Tables(p) \cap Tables(q) = {}
         /\ cr3 \in live \cup {init_page_dir}
  /\ \A e \in tlb : pagedir_get_page(cr3, e.v) = e.page
  /\ \A p \in Proc, v \in User : pagedir[p] # NULL /\ map[p][v] # NULL =>
       /\ <<p, v>> \in used => lookup_page(pagedir[p], v).A
       /\ <<p, v>> \in wrote => lookup_page(pagedir[p], v).D
=============================================================================
