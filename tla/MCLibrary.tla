----------------------------- MODULE MCLibrary ------------------------------
(* The sequential parts of the kernel for TLC: allocators, page tables, data *)
(* structures, keyboard and display, each as the state machine of its own    *)
(* module, and the algorithms without state, over bounded inputs.  They      *)
(* share nothing, so a behaviour runs one of them, named by part; v1 to v9   *)
(* are the variables of the one that runs, or its input.                     *)
EXTENDS Integers, Sequences, SequencesExt, FiniteSets, TLC

CONSTANTS NULL, t1, t2, e1, e2, e3, e4, p1, p2, f1

VARIABLES part, v1, v2, v3, v4, v5, v6, v7, v8, v9,
          held, content   \* of the page allocator

Call(pool, cnt, zero, assert) == [pool |-> pool, cnt |-> cnt, zero |-> zero, assert |-> assert]

PageAlloc == INSTANCE Palloc WITH
  Thread <- {t1, t2}, FreePages <- 5, user_page_limit <- 2, BitsPerPage <- 16, Byte <- {1},
  Calls <- {Call("kernel", 2, FALSE, FALSE), Call("user", 1, TRUE, TRUE), Call("kernel", 0, FALSE, FALSE)},
  used <- v1, lock <- v2, pc <- v3, req <- v4, panic <- v5

(* The instance meets what the proofs about the page allocator assume. *)
ASSUME PageAllocConstants == PageAlloc!PallocConstants

Heap == INSTANCE Malloc WITH
  Thread <- {t1, t2}, Pages <- 2, PGSIZE <- 10, ArenaSize <- 4, MinBlock <- 2, SizeBits <- 6,
  Sizes <- {0, 2, 3, 7, 55, 61}, Callocs <- {<<1, 2>>, <<13, 5>>, <<7, 11>>},
  used <- v1, arena <- v2, free_list <- v3, live <- v4, pc <- v5, old <- v6

Tables == INSTANCE Paging WITH
  Proc <- {p1, p2}, Page <- 1 .. 5, Frame <- {f1}, Writable <- {1}, KernelPage <- {8, 9}, TextPage <- {8},
  PdUser <- 2, PtSize <- 2,
  mem <- v1, pagedir <- v2, cur <- v3, going <- v4, cr3 <- v5, tlb <- v6, map <- v7, used <- v8, wrote <- v9

Lists == INSTANCE List WITH
  Elem <- {e1, e2, e3, e4}, Key <- e1 :> 1 @@ e2 :> 2 @@ e3 :> 2 @@ e4 :> 3, m <- v1, seq <- v2

Hashes == INSTANCE Hash WITH
  Elem <- 1 .. 9, NULL <- 0, Key <- [e \in 1 .. 9 |-> IF e = 9 THEN 8 ELSE e],
  HashOf <- <<0, 1, 2, 4, 4, 5, 9, 6>>, MinBuckets <- 2, BEST_ELEMS_PER_BUCKET <- 1,
  buckets <- v1, bucket_cnt <- v2, elem_cnt <- v3, inside <- v4

BitSet == INSTANCE Bitmap WITH ELEM_BITS <- 3, Cnt <- 7, bitmap <- v1, set <- v2

Keyboard == INSTANCE Kbd WITH
  Code <- {30, 3, 26, 58, 42, 54, 56, 57400, 29, 83}, None <- 999,
  caps_lock <- v1, state_var <- v2, full <- v3, appended <- v4, held <- v5, on <- v6, typed <- v7

Screen == INSTANCE Vga WITH
  ROW_CNT <- 2, COL_CNT <- 3, Tab <- 2, Char <- {"a"}, MaxRows <- 4,
  fb <- v1, cx <- v2, cy <- v3, cursor <- v4, roll <- v5, row <- v6, col <- v7

Numbers == INSTANCE Arithmetic WITH W <- 4
TwoBits == INSTANCE Arithmetic WITH W <- 2
Text == INSTANCE Strings
Delays == INSTANCE Timer WITH FirstBit <- 3, TIMER_FREQ <- 7, Thousand <- 10
Output == INSTANCE Printf WITH
  Bits <- [type \in {"hh", "h", "int", "j", "l", "ll", "t", "z"} |->
             CASE type = "hh" -> 3 [] type = "h" -> 4 [] type \in {"j", "ll"} -> 7 [] OTHER -> 6],
  BufSize <- 64
Programs == INSTANCE Loader WITH AddrBits <- 8, PGSIZE <- 32, PHYS_BASE <- 192, Phdr_Size <- 2, ArrayLen <- 4
Disks == INSTANCE Block WITH SectorBits <- 4

Sector(type, name, size, data) == [type |-> type, name |-> name, size |-> size, data |-> data]
Zeros == Sector("data", "", 0, <<0, 0>>)
Scratch(s) == [i \in 0 .. 4 |-> IF i < Len(s) THEN s[i + 1] ELSE Zeros]
Archives == INSTANCE Archive WITH
  NameSize <- 4, SizeSize <- 5, ChksumSize <- 5, ULONG_MAX <- 1023, INT_MAX <- 511,
  BLOCK_SECTOR_SIZE <- 2, DeviceSize <- 5, Name <- {"a", "b"},
  Given <- {Scratch(<<>>), Scratch(<<Sector("data", "", 0, <<5, 0>>)>>),
            Scratch(<<Sector("file", "a", 3, <<>>), Sector("data", "", 0, <<1, 0>>), Sector("data", "", 0, <<2, 9>>),
                      Sector("dir", "d", 0, <<>>)>>),
            Scratch(<<Sector("file", "b", 2, <<>>), Sector("data", "", 0, <<3, 4>>), Sector("file", "a", 0, <<>>)>>)},
  files <- v1, scratch <- v2, extract_sector <- v3, append_sector <- v4, panic <- v5, model <- v6, sent <- v7, mixed <- v8
Commands == INSTANCE Startup WITH LOADER_ARGS_LEN <- 6
-----------------------------------------------------------------------------
(* The inputs. *)

Divisions == (0 .. 255) \X (1 .. 255)
Arrays == SeqOf(1 .. 3, 5) \X (0 .. 4)
Blocks == {<<[i \in 0 .. 9 |-> IF i \in DOMAIN s THEN s[i] ELSE 0], p, q, size>> :
             s \in [0 .. 4 -> 0 .. 2], p \in 0 .. 3, q \in 0 .. 5, size \in 0 .. 3}

Format(flags, widths, precisions, types, letters, args, sizes) ==
  {in \in [flags : flags, width : widths, precision : precisions, star : BOOLEAN, type : types,
           letter : letters, arg : args, size : sizes] : in.width < 0 => in.star}
Formats ==
  Format(SUBSET {"-", "+", " ", "#", "0", "'"}, {-4, 0, 7}, {-1, 0, 3}, {"int"}, {"d", "X"}, {-9, 0, 31}, {4})
  \cup Format({{}, {"0"}}, {0, 7}, {-1, 1}, {"hh", "z", "j"}, {"d", "o", "x", "u"}, {-64, 5, 12, 63}, {0, 1})

Phdr(type, offset, vaddr, filesz, memsz) ==
  [type |-> type, offset |-> offset, vaddr |-> vaddr, filesz |-> filesz, memsz |-> memsz, writable |-> vaddr % 2 = 1]
First == {Phdr("load", o, v, fs, ms) :
            o \in {0, 9, 33, 40}, v \in {0, 31, 33, 40, 65, 72, 169, 233, 250},
            fs \in {0, 1, 24, 32, 40, 63}, ms \in {0, 1, 31, 32, 40, 64, 250}}
Second == {Phdr("ignored", 0, 0, 0, 0), Phdr("dynamic", 0, 0, 0, 0),
           Phdr("load", 1, 33, 20, 40), Phdr("load", 1, 97, 20, 40)}
Files ==
  {[opens |-> TRUE, header |-> TRUE, phoff |-> 0, phnum |-> n, phdr |-> <<a, b>>, length |-> len, entry |-> 0] :
     n \in 0 .. 2, a \in First, b \in Second, len \in {3, 50}}
Lines == SeqOf({" ", "a"}, 8)

Entry(type, offset, size) == [type |-> type, offset |-> offset, size |-> size]
Entry1 == {Entry(t, o, s) : t \in {0, 32, 33, 99}, o \in {0, 1, 9, 15}, s \in {0, 1, 7, 15}}
Entry2 == {Entry(t, o, s) : t \in {33, 5}, o \in {3, 6}, s \in {2, 12}}
Disk == {[size |-> 10, signature |-> g, table |-> <<a, b, c>>] :
           g \in BOOLEAN, a \in Entry1, b \in Entry1 \cup Entry2, c \in {Entry(33, 3, 2), Entry(5, 6, 12)}}

Word(name, dash, value) == [name |-> name, dash |-> dash, value |-> value]
Words == {Word("-q", TRUE, NULL), Word("-r", TRUE, NULL), Word("-filesys", TRUE, "hda"), Word("-filesys", TRUE, NULL),
          Word("-ul", TRUE, NULL), Word("-ul", TRUE, "9"), Word("-rs", TRUE, "5"), Word("-x", TRUE, NULL), Word("run", FALSE, NULL),
          Word("ls", FALSE, NULL), Word("other", FALSE, NULL)}

Input ==
  \/ part = "divide" /\ v1 \in Divisions
  \/ part = "sort" /\ v1 \in Arrays
  \/ part = "atoi" /\ v1 \in -8 .. 7
  \/ part = "random" /\ v1 \in {TwoBits!random_init(<<a, b>>) : a \in 0 .. 3, b \in 0 .. 3}
  \/ part = "delay" /\ v1 \in (8 .. 70) \X (0 .. 20) \X {10, 100}
  \/ part = "count" /\ v1 \in 19 .. 1000
  \/ part = "string" /\ v1 \in Blocks
  \/ part = "printf" /\ v1 \in Formats
  \/ part = "dump" /\ v1 \in (0 .. 9) \X (0 .. 9) \X {4, 8}
  \/ part = "load" /\ v1 \in Files
  \/ part = "line" /\ v1 \in Lines
  \/ part = "disk" /\ v1 \in Disk
  \/ part = "buffer" /\ v1 \in [0 .. 5 -> {"0", "a"}] \X (0 .. 7)
  \/ part = "command" /\ v1 \in SeqOf(Words, 4)
  \/ part = "header" /\ v1 \in SeqOf({46, 47, 97}, 4) \X {48, 53} \X {0, 7, 64, 511}
  \/ part = "octal" /\ v1 \in SeqOf({0, 1, 3, 7}, 4)

From3 == <<v3, v4, v5, v6, v7, v8, v9>>
From5 == <<v5, v6, v7, v8, v9>>
From6 == <<v6, v7, v8, v9>>
From7 == <<v7, v8, v9>>
From8 == <<v8, v9>>

Init ==
  /\ held = [t \in {t1, t2} |-> {}] /\ content = [p \in PageAlloc!Page |-> 0]
  /\ \/ part = "palloc" /\ PageAlloc!Init /\ v6 = 0 /\ v7 = 0 /\ v8 = 0 /\ v9 = 0
     \/ part = "malloc" /\ Heap!Init /\ v7 = 0 /\ v8 = 0 /\ v9 = 0
     \/ part = "paging" /\ Tables!Init
     \/ part = "list" /\ Lists!Init /\ v3 = 0 /\ v4 = 0 /\ v5 = 0 /\ v6 = 0 /\ v7 = 0 /\ v8 = 0 /\ v9 = 0
     \/ part = "hash" /\ Hashes!Init /\ v5 = 0 /\ v6 = 0 /\ v7 = 0 /\ v8 = 0 /\ v9 = 0
     \/ part = "bitmap" /\ BitSet!Init /\ v3 = 0 /\ v4 = 0 /\ v5 = 0 /\ v6 = 0 /\ v7 = 0 /\ v8 = 0 /\ v9 = 0
     \/ part = "kbd" /\ Keyboard!Init /\ v8 = 0 /\ v9 = 0
     \/ part = "vga" /\ Screen!Init /\ v8 = 0 /\ v9 = 0
     \/ part = "archive" /\ Archives!Init /\ v9 = 0
     \/ Input /\ v2 = 0 /\ v3 = 0 /\ v4 = 0 /\ v5 = 0 /\ v6 = 0 /\ v7 = 0 /\ v8 = 0 /\ v9 = 0

Allocate == part = "palloc" /\ PageAlloc!Next /\ UNCHANGED <<part, From6>>
UseHeap == part = "malloc" /\ Heap!Next /\ UNCHANGED <<part, From7, held, content>>
UseTables == part = "paging" /\ Tables!Next /\ UNCHANGED <<part, held, content>>
UseLists == part = "list" /\ Lists!Next /\ UNCHANGED <<part, From3, held, content>>
UseHash == part = "hash" /\ Hashes!Next /\ UNCHANGED <<part, From5, held, content>>
UseBitmap == part = "bitmap" /\ BitSet!Next /\ UNCHANGED <<part, From3, held, content>>
PressKeys == part = "kbd" /\ Keyboard!Next /\ UNCHANGED <<part, From8, held, content>>
PutChars == part = "vga" /\ Screen!Next /\ UNCHANGED <<part, From8, held, content>>
Archiving == part = "archive" /\ Archives!Next /\ UNCHANGED <<part, v9, held, content>>
Draw == part = "random" /\ v1' = TwoBits!random_bytes(v1) /\ UNCHANGED <<part, v2, From3, held, content>>

Next == Allocate \/ UseHeap \/ UseTables \/ UseLists
        \/ UseHash \/ UseBitmap \/ PressKeys \/ PutChars \/ Archiving \/ Draw

Spec == Init /\ [][Next]_<<part, v1, v2, v3, v4, v5, v6, v7, v8, v9, held, content>>
-----------------------------------------------------------------------------
(* The page allocator gives each page to one caller at a time, zeroed if     *)
(* asked, and touches no page that somebody holds, although pages are freed  *)
(* without the lock under which they are searched for.                       *)
ImplementsPool == PageAlloc!ImplementsPool

(* Blocks of the heap do not overlap, free counts are exact, and pages go    *)
(* back to the page allocator with their last block.                         *)
HeapInOrder == part = "malloc" => Heap!HeapInOrder

(* Page tables hold each process's map and nothing else, and the CPU never   *)
(* uses a freed directory or a translation that is no longer in the tables.  *)
TablesAreRight == part = "paging" => Tables!TablesAreRight

(* The pointers of the doubly linked lists represent sequences, on which     *)
(* every operation does what its comment says.                               *)
ListsAreSequences == part = "list" => Lists!ListsAreSequences

(* A hash table holds the elements put into it, each in its bucket, whatever *)
(* insertions, deletions and rehashings have happened.                       *)
HashIsSet == part = "hash" => Hashes!HashIsSet

(* The words of a bitmap represent a set, on which every operation does what *)
(* its comment says, but for what it says of searching for no bits.          *)
BitmapIsSet == part = "bitmap" => BitSet!BitmapIsSet

(* The keyboard driver's state follows the keys that are held down, and it   *)
(* types the character that they stand for.                                  *)
KeysFollowed == part = "kbd" => Keyboard!KeysFollowed

(* The display shows the last rows of the text printed, however it scrolls.  *)
ScreenShowsText == part = "vga" => Screen!ScreenShowsText

(* The C library's algorithms give the results of their definitions: 64-bit  *)
(* division, sorting and searching, atoi, random numbers, strings and memory *)
(* blocks, formatted output and dumps; so do the timer's conversions of time *)
(* into ticks, loops and counts.  Where the code departs from its comments   *)
(* (memmove's value, strlcat to a full string, the calibrated loops) each    *)
(* definition says so and states what the code does.                         *)
LibraryIsRight ==
  /\ part = "divide" => Numbers!DivisionIsRight(v1[1], v1[2])
  /\ part = "sort" => Numbers!SortIsRight(v1[1], v1[2])
  /\ part = "atoi" => Numbers!AtoiIsRight(v1)
  /\ part = "random" => TwoBits!RandomIsRight(v1)
  /\ part = "delay" => Delays!DelaysAreRight(v1[1], v1[2], v1[3])
  /\ part = "count" => Delays!CountIsRight(v1)
  /\ part = "string" => Text!StringsAreRight(v1[1], v1[2], v1[3], v1[4])
  /\ part = "printf" => Output!PrintfIsRight(v1)
  /\ part = "dump" => Output!DumpIsRight(v1[1], v1[2], v1[3])

(* What the kernel takes apart means what it should: the segments of an      *)
(* executable, the words of a program's and of the kernel's command line,    *)
(* the partition table of a disk, and the archives on the scratch device.    *)
(* What is left aside (lines that overrun an array, the mark at the end of   *)
(* an archive, -rs) is named with each definition.                           *)
ImagesAreRight ==
  /\ part = "load" => Programs!SegmentsAreRight(v1, <<"a">>)
  /\ part = "line" => Programs!ArgumentsAreRight(v1)
  /\ part = "disk" => Disks!PartitionsAreRight(v1)
  /\ part = "buffer" => Commands!WordsAreRight(v1[1], v1[2])
  /\ part = "command" => Commands!CommandsAreRight(v1)
  /\ part = "archive" => Archives!ArchiveKept
  /\ part = "header" => Archives!HeaderIsRight(v1[1], v1[2], v1[3])
  /\ part = "octal" => Archives!OctalIsRight(v1)
=============================================================================
