------------------------------- MODULE Malloc -------------------------------
(* The block allocator of threads/malloc.c over the page allocator, whose    *)
(* calls are single steps here (Palloc shows that they may be).  What malloc *)
(* and free do between lock_acquire and lock_release of the descriptor is    *)
(* one step; free clears its block, and realloc copies, before that.         *)
EXTENDS Naturals, FiniteSets, FiniteSetsExt, SequencesExt

CONSTANTS
  Thread,
  Pages,            \* the number of pages in the kernel pool
  PGSIZE,
  ArenaSize,        \* sizeof (struct arena)
  MinBlock,         \* the block size of descs[0]
  SizeBits,         \* the width of size_t
  Sizes, Callocs    \* the arguments of malloc and realloc, and of calloc

Null == 0           \* no block is at address 0: the arena is there

VARIABLES
  used,       \* pages that palloc has given out
  arena,      \* the struct arena at the start of a page: its desc and free_cnt
  free_list,  \* of each descriptor, as block addresses
  live,       \* the blocks of each thread: address and the size that was asked
  pc, old     \* a thread that is freeing block old[t], or copying from it

heap == <<used, arena, free_list>>
vars == <<heap, live, pc, old>>

(* malloc_init: descriptors by block size. *)
descs == {s \in 1 .. PGSIZE : s < PGSIZE \div 2 /\ \E i \in 0 .. 10 : s = MinBlock * 2 ^ i}

blocks_per_arena(d) == (PGSIZE - ArenaSize) \div d

(* The descriptor for size, Null for a big block. *)
desc(size) == IF \E d \in descs : d >= size THEN Min({d \in descs : d >= size}) ELSE Null

block_to_arena(b) == b \div PGSIZE

arena_to_block(p, d, i) == p * PGSIZE + ArenaSize + i * d

Blocks(p, d) == {arena_to_block(p, d, i) : i \in 0 .. blocks_per_arena(d) - 1}

NoArena == [desc |-> Null, free_cnt |-> 0]

Init ==
  /\ used = {}
  /\ arena = [p \in 0 .. Pages - 1 |-> NoArena]
  /\ free_list = [d \in descs |-> <<>>]
  /\ live = [t \in Thread |-> {}]
  /\ pc = [t \in Thread |-> "out"]
  /\ old = [t \in Thread |-> Null]

(* Pages that palloc_get_multiple may return: the first page of each run. *)
palloc_get(cnt) == {p \in 0 .. Pages - cnt : cnt > 0 /\ (p .. p + cnt - 1) \cap used = {}}

(* What malloc returns, with the heap it leaves. *)
Fails == [b |-> Null, used |-> used, arena |-> arena, free_list |-> free_list]

Big(cnt, runs) ==
  IF runs = {} THEN Fails
  ELSE [b |-> Min(runs) * PGSIZE + ArenaSize,
        used |-> used \cup (Min(runs) .. Min(runs) + cnt - 1),
        arena |-> [arena EXCEPT ![Min(runs)] = [desc |-> Null, free_cnt |-> cnt]],
        free_list |-> free_list]

Pop(d, pages, arenas, list) ==
  [b |-> Head(list), used |-> pages,
   arena |-> [arenas EXCEPT ![block_to_arena(Head(list))].free_cnt = @ - 1],
   free_list |-> [free_list EXCEPT ![d] = Tail(list)]]

Normal(d, runs) ==
  CASE free_list[d] # <<>> -> Pop(d, used, arena, free_list[d])
    [] free_list[d] = <<>> /\ runs = {} -> Fails
    [] free_list[d] = <<>> /\ runs # {} ->
         Pop(d, used \cup {Min(runs)},
             [arena EXCEPT ![Min(runs)] = [desc |-> d, free_cnt |-> blocks_per_arena(d)]],
             [i \in 1 .. blocks_per_arena(d) |-> arena_to_block(Min(runs), d, i - 1)])

(* DIV_ROUND_UP in size_t: the sum wraps for the largest sizes. *)
page_cnt(size) == ((size + ArenaSize + PGSIZE - 1) % 2 ^ SizeBits) \div PGSIZE

Obtain(size) ==
  CASE size = 0 -> Fails
    [] size > 0 /\ desc(size) = Null -> Big(page_cnt(size), palloc_get(page_cnt(size)))
    [] size > 0 /\ desc(size) # Null -> Normal(desc(size), palloc_get(1))

Heap(r) == used' = r.used /\ arena' = r.arena /\ free_list' = r.free_list

Given(t, b, size) == IF b = Null THEN live[t] ELSE live[t] \cup {[addr |-> b, size |-> size]}

Gets(t, size, r) == Heap(r) /\ live' = [live EXCEPT ![t] = Given(t, r.b, size)]

malloc(t, size) ==
  /\ pc[t] = "out"
  /\ Gets(t, size, Obtain(size))
  /\ UNCHANGED <<pc, old>>

calloc(t, a, b) ==
  LET size == (a * b) % 2 ^ SizeBits
  IN  /\ pc[t] = "out"
      /\ IF size < a \/ size < b THEN UNCHANGED <<heap, live>> ELSE Gets(t, a * b, Obtain(size))
      /\ UNCHANGED <<pc, old>>

block_size(b) ==
  LET a == arena[block_to_arena(b)]
  IN  IF a.desc # Null THEN a.desc ELSE PGSIZE * a.free_cnt - (b % PGSIZE)

(* free of block x: a normal block is filled with 0xcc before the lock is    *)
(* taken, in the same step.                                                  *)
free(t, x) ==
  /\ pc[t] = "out"
  /\ live' = [live EXCEPT ![t] = @ \ {x}]
  /\ old' = [old EXCEPT ![t] = x.addr]
  /\ pc' = [pc EXCEPT ![t] = "free"]
  /\ UNCHANGED heap

(* realloc to a new size, r being what malloc returned: the old block stays *)
(* the caller's if malloc fails.                                             *)
Moves(t, x, size, r) ==
  /\ Heap(r)
  /\ IF r.b = Null
       THEN UNCHANGED <<live, old, pc>>
       ELSE /\ live' = [live EXCEPT ![t] = Given(t, r.b, size) \ {x}]
            /\ old' = [old EXCEPT ![t] = x.addr]
            /\ pc' = [pc EXCEPT ![t] = "free"]

realloc(t, x, size) == pc[t] = "out" /\ Moves(t, x, size, Obtain(size))

(* Mutant: the arena is given back with its blocks still on the free list. *)
GiveBackOnly(b, p, d) ==
  /\ used' = used \ {p}
  /\ free_list' = [free_list EXCEPT ![d] = <<b>> \o @]
  /\ arena' = [arena EXCEPT ![p] = NoArena]

(* Every block of the arena is free: all leave the list, the page goes back. *)
GiveBack(b, p, d) ==
  /\ used' = used \ {p}
  /\ free_list' = [free_list EXCEPT ![d] = SelectSeq(@, LAMBDA x : x \notin Blocks(p, d))]
  /\ arena' = [arena EXCEPT ![p] = NoArena]

Release(t) ==
  LET b == old[t]
      p == block_to_arena(b)
      a == arena[p]
  IN  /\ pc[t] = "free"
      /\ \/ /\ a.desc = Null
            /\ used' = used \ (p .. p + a.free_cnt - 1)
            /\ arena' = [arena EXCEPT ![p] = NoArena]
            /\ UNCHANGED free_list
         \/ /\ a.desc # Null /\ a.free_cnt + 1 >= blocks_per_arena(a.desc)
            /\ GiveBack(b, p, a.desc)
         \/ /\ a.desc # Null /\ a.free_cnt + 1 < blocks_per_arena(a.desc)
            /\ free_list' = [free_list EXCEPT ![a.desc] = <<b>> \o @]
            /\ arena' = [arena EXCEPT ![p].free_cnt = @ + 1]
            /\ UNCHANGED used
      /\ pc' = [pc EXCEPT ![t] = "out"]
      /\ old' = [old EXCEPT ![t] = Null]
      /\ UNCHANGED live

Next ==
  \E t \in Thread :
    \/ \E size \in Sizes : malloc(t, size)
    \/ \E c \in Callocs : calloc(t, c[1], c[2])
    \/ \E x \in live[t] : free(t, x) \/ \E size \in Sizes \ {0} : realloc(t, x, size)
    \/ Release(t)

Spec == Init /\ [][Next]_vars
-----------------------------------------------------------------------------
(* The blocks that are in somebody's hands, those being freed included. *)
Owned == {x.addr : x \in UNION {live[t] : t \in Thread}} \cup {old[t] : t \in {s \in Thread : pc[s] = "free"}}

Listed == UNION {ToSet(free_list[d]) : d \in descs}

Extent(b) == b .. b + block_size(b) - 1

(* SIZE bytes and the arena's header are within the range of size_t.  Past   *)
(* it page_cnt wraps, and so may calloc's product without its test showing   *)
(* it, and the caller is given a smaller block instead of a null pointer.    *)
Fits(size) == size + ArenaSize < 2 ^ SizeBits

InOrder(owned, listed) ==
  /\ \A b \in owned \cup listed :
       /\ {x \div PGSIZE : x \in Extent(b)} \subseteq used
       /\ b % PGSIZE >= ArenaSize
       /\ \A c \in (owned \cup listed) \ {b} : Extent(b) \cap Extent(c) = {}
  /\ owned \cap listed = {}
  /\ \A d \in descs : IsInjective(free_list[d])
  /\ \A t \in Thread : \A x \in live[t] : Fits(x.size) => block_size(x.addr) >= x.size
  /\ \A p \in used : arena[p].desc # Null =>
       arena[p].free_cnt = Cardinality(listed \cap Blocks(p, arena[p].desc))
  /\ \A p \in used : \E b \in owned : p \in {x \div PGSIZE : x \in Extent(b)}

(* Whatever the threads allocate, resize and free in whatever order: no two  *)
(* blocks that are in use or on a free list overlap, none overlaps an arena  *)
(* header or lies in a page that went back to palloc, a block is as large as *)
(* was asked if that many bytes and a header fit in size_t, and free_cnt     *)
(* counts the free blocks of its arena.  No page is lost: every page that    *)
(* malloc has from palloc has a block in it that somebody still owns, so     *)
(* that a caller who frees all gives all back.                               *)
HeapInOrder == InOrder(Owned, Listed)
=============================================================================
