------------------------------- MODULE Loader -------------------------------
(* What load in userprog/process.c makes of an executable and a command      *)
(* line: the pages its segments fill and the stack main starts on.  When     *)
(* those pages are brought in is the subject of Vm, and the order of the     *)
(* child's start and its parent's wait that of Process.                      *)
EXTENDS Integers, Sequences, SequencesExt, FiniteSetsExt

CONSTANTS AddrBits,     \* width of an address
          PGSIZE,
          PHYS_BASE,    \* the first kernel address
          Phdr_Size,    \* sizeof (struct Elf32_Phdr)
          ArrayLen      \* the length of fileArg0 and of dataAddresses

NUL == "0"
WordSize == 4
AVAIL_STACK_SPACE == PGSIZE - 12
Addr(n) == n % 2^AddrBits
pg_ofs(a) == a % PGSIZE
pg_round_down(a) == a - pg_ofs(a)
RoundUp(n) == Addr(PGSIZE * ((n + PGSIZE - 1) \div PGSIZE))
is_user_vaddr(a) == a < PHYS_BASE
-----------------------------------------------------------------------------
(* Segments. *)

(* Mutant: without the test for a region that wraps around. *)
validate_segment_wraps(phdr, file) ==
  /\ pg_ofs(phdr.offset) = pg_ofs(phdr.vaddr)
  /\ phdr.offset <= file.length
  /\ phdr.memsz >= phdr.filesz
  /\ phdr.memsz # 0
  /\ is_user_vaddr(phdr.vaddr)
  /\ is_user_vaddr(Addr(phdr.vaddr + phdr.memsz))
  /\ phdr.vaddr >= PGSIZE

validate_segment(phdr, file) ==
  /\ pg_ofs(phdr.offset) = pg_ofs(phdr.vaddr)
  /\ phdr.offset <= file.length
  /\ phdr.memsz >= phdr.filesz
  /\ phdr.memsz # 0
  /\ is_user_vaddr(phdr.vaddr)
  /\ is_user_vaddr(Addr(phdr.vaddr + phdr.memsz))
  /\ Addr(phdr.vaddr + phdr.memsz) >= phdr.vaddr
  /\ phdr.vaddr >= PGSIZE

(* page_build and page_add: the entry of a page that is there already stays. *)
page_add(spt, entry) == IF \E e \in spt : e.upage = entry.upage THEN spt ELSE spt \cup {entry}

RECURSIVE load_segment(_, _, _, _, _, _)
load_segment(spt, ofs, upage, read_bytes, zero_bytes, writable) ==
  IF read_bytes = 0 /\ zero_bytes = 0 THEN spt
  ELSE LET page_read_bytes == IF read_bytes < PGSIZE THEN read_bytes ELSE PGSIZE
           page_zero_bytes == PGSIZE - page_read_bytes
       IN  load_segment(page_add(spt, [upage |-> upage, ofs |-> ofs, read_bytes |-> page_read_bytes,
                                       writable |-> writable]),
                        ofs + PGSIZE, Addr(upage + PGSIZE), read_bytes - page_read_bytes,
                        Addr(zero_bytes - page_zero_bytes), writable)

Segment(spt, phdr) ==
  LET page_offset == pg_ofs(phdr.vaddr)
      read_bytes == IF phdr.filesz > 0 THEN Addr(page_offset + phdr.filesz) ELSE 0
      zero_bytes == Addr(RoundUp(Addr(page_offset + phdr.memsz)) - read_bytes)
  IN  load_segment(spt, pg_round_down(phdr.offset), pg_round_down(phdr.vaddr), read_bytes, zero_bytes,
                   phdr.writable)

(* The program headers from the i-th on: the pages built so far, and whether *)
(* all was well.                                                             *)
RECURSIVE Headers(_, _, _)
Headers(file, i, spt) ==
  LET file_ofs == file.phoff + i * Phdr_Size
      phdr == file.phdr[i + 1]
  IN  CASE i = file.phnum -> [ok |-> TRUE, spt |-> spt]
        [] i < file.phnum /\ file_ofs + Phdr_Size > file.length -> [ok |-> FALSE, spt |-> spt]
        [] OTHER ->
             CASE phdr.type = "ignored" -> Headers(file, i + 1, spt)
               [] phdr.type = "dynamic" -> [ok |-> FALSE, spt |-> spt]
               [] phdr.type = "load" ->
                    IF validate_segment(phdr, file) THEN Headers(file, i + 1, Segment(spt, phdr))
                    ELSE [ok |-> FALSE, spt |-> spt]
-----------------------------------------------------------------------------
(* The stack: memory below PHYS_BASE, filled as setup_stack does. *)

RECURSIVE SkipSpaces(_, _)
SkipSpaces(m, x) == IF m[x] = " " THEN SkipSpaces(m, x + 1) ELSE x

(* The name of the file to open: file_name's first word, in fileArg0. *)
FileName(line) ==
  LET from == Min({i \in 1 .. Len(line) + 1 : i > Len(line) \/ line[i] # " "})
      to == Min({i \in from .. Len(line) + 1 : i > Len(line) \/ line[i] = " "})
  IN  SubSeq(line, from, to - 1)

(* One turn of the loop that ends arguments and records where they start:    *)
(* past a run of spaces a new argument is counted unless the line ends       *)
(* there, but its address is recorded either way.                            *)
Scan(s) ==
  IF s.m[s.x] # " " THEN [s EXCEPT !.x = @ + 1]
  ELSE LET next == SkipSpaces(s.m, s.x + 1)
           argc == IF s.m[next] # NUL THEN Len(s.argv) + 1 ELSE Len(s.argv)
       IN  [x |-> next, m |-> [s.m EXCEPT ![s.x] = NUL],
            argv |-> [i \in 1 .. argc |-> IF i = argc THEN next ELSE s.argv[i]]]

RECURSIVE Arguments(_)
Arguments(s) == IF s.x < PHYS_BASE THEN Arguments(Scan(s)) ELSE s

(* The memory, the stack pointer and whether setup_stack succeeds.  A word   *)
(* is kept in its lowest byte's cell.  overrun: the arguments and the null   *)
(* pointer after them have not fitted dataAddresses; what is overwritten     *)
(* then is not modelled.                                                     *)
setup_stack(line) ==
  LET length == Len(line) + 1
      sp == PHYS_BASE - length
      m0 == [a \in 0 .. PHYS_BASE |-> IF a = PHYS_BASE \/ a < sp THEN NUL
                                      ELSE IF a = PHYS_BASE - 1 THEN NUL ELSE line[a - sp + 1]]
      s == Arguments([m |-> m0, x |-> SkipSpaces(m0, sp), argv |-> <<sp>>])
      argc == Len(s.argv)
      aligned == sp - (sp % 4)
      Slot(i) == aligned - WordSize * (argc + 1 - i)       \* of argv[i]
      esp == Slot(0) - 3 * WordSize
      word == [a \in {Slot(i) : i \in 0 .. argc} \cup {esp, esp + 4, esp + 8} |->
                 CASE a = esp -> 0
                   [] a = esp + 4 -> argc
                   [] a = esp + 8 -> Slot(0)
                   [] a = Slot(argc) -> 0
                   [] OTHER -> s.argv[(a - Slot(0)) \div WordSize + 1]]
  IN  IF length > AVAIL_STACK_SPACE THEN [ok |-> FALSE, overrun |-> FALSE]
      ELSE IF AVAIL_STACK_SPACE - length < argc * WordSize THEN [ok |-> FALSE, overrun |-> argc > ArrayLen]
      ELSE [ok |-> TRUE, overrun |-> argc + 1 > ArrayLen, m |-> s.m, word |-> word, esp |-> esp]

(* load, with the outcome of creating the page directory and opening the     *)
(* file as inputs; the stack's page joins the table.                         *)
load(file, line) ==
  LET h == Headers(file, 0, {})
      stack == setup_stack(line)
  IN  IF ~(file.opens /\ file.header /\ file.phnum <= 1024 /\ h.ok /\ stack.ok) THEN [ok |-> FALSE]
      ELSE [ok |-> TRUE, stack |-> stack, eip |-> file.entry,
            spt |-> page_add(h.spt, [upage |-> PHYS_BASE - PGSIZE, ofs |-> 0, read_bytes |-> 0, writable |-> TRUE])]
-----------------------------------------------------------------------------
Loadable(file) == {file.phdr[i] : i \in {j \in 1 .. file.phnum : file.phdr[j].type = "load"}}
Pages(phdr) == {pg_round_down(phdr.vaddr + i) : i \in 0 .. phdr.memsz - 1}

(* The segments of a program that is loaded are in user memory above page 0. *)
(* It finds every byte of them at its address: the first filesz bytes come   *)
(* from the same place of the file, the rest are zero, in pages that are     *)
(* writable exactly if the segment is, and no other page is built; here      *)
(* segments that share a page with each other or with the stack are left     *)
(* aside, as the page then keeps the entry of the first.                     *)
SegmentsAreRight(file, line) ==
  LET r == load(file, line)
      S == Loadable(file)
      stack == PHYS_BASE - PGSIZE
      apart == /\ Cardinality(S) = Cardinality({j \in 1 .. file.phnum : file.phdr[j].type = "load"})
               /\ \A s \in S : stack \notin Pages(s) /\ \A t \in S \ {s} : Pages(s) \cap Pages(t) = {}
  IN  /\ r.ok => \A s \in S : s.memsz > 0 /\ Pages(s) \subseteq PGSIZE .. stack
      /\ r.ok /\ apart =>
        /\ {e.upage : e \in r.spt} = {stack} \cup UNION {Pages(s) : s \in S}
        /\ \A s \in S, i \in 0 .. PHYS_BASE - 1 : i < s.memsz =>
             \E e \in r.spt :
               /\ e.upage = pg_round_down(s.vaddr + i)
               /\ e.writable = s.writable
               /\ LET at == pg_ofs(s.vaddr + i)
                  IN  IF i < s.filesz THEN at < e.read_bytes /\ e.ofs + at = s.offset + i
                                      ELSE at >= e.read_bytes

(* The words of a sequence of characters. *)
Words(line) ==
  LET starts == {i \in DOMAIN line : line[i] # " " /\ (i = 1 \/ line[i - 1] = " ")}
      end(i) == Max({j \in i .. Len(line) : \A k \in i .. j : line[k] # " "})
      is == SetToSortSeq(starts, LAMBDA x, y : x < y)
  IN  [n \in DOMAIN is |-> SubSeq(line, is[n], end(is[n]))]

TextAt(m, a) == [i \in 1 .. Min({x \in a .. PHYS_BASE : m[x] = NUL}) - a |-> m[a + i - 1]]

(* main gets the command line's words: a program whose stack setup_stack has *)
(* built finds the return address, argc, argv and, through argv, its         *)
(* arguments split at runs of spaces, ended by a null pointer, all at        *)
(* aligned addresses above the stack pointer; the file opened is argv[0].    *)
(* Lines that start or end with a space are left aside: argv[0] then starts  *)
(* with the spaces, and the last argument is lost.  So are lines for which   *)
(* fileArg0 or dataAddresses is too short.                                   *)
ArgumentsAreRight(line) ==
  LET r == setup_stack(line)
      argc == r.word[r.esp + 4]
      argv == r.word[r.esp + 8]
      words == Words(line)
      fits == ~r.overrun /\ Len(FileName(line)) < ArrayLen
  IN  r.ok /\ fits /\ line # <<>> /\ Head(line) # " " /\ Last(line) # " " =>
        /\ r.esp % 4 = 0
        /\ r.word[r.esp] = 0
        /\ argc = Len(words)
        /\ r.word[argv + WordSize * argc] = 0
        /\ \A i \in 1 .. argc : TextAt(r.m, r.word[argv + WordSize * (i - 1)]) = words[i]
        /\ FileName(line) = words[1]
        /\ argv + WordSize * (argc + 1) <= PHYS_BASE - Len(line) - 1
=============================================================================
