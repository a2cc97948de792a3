------------------------------- MODULE FileSys -------------------------------
(***************************************************************************)
(* The file system: free map, inodes, the root directory and open files    *)
(* (filesys/).  One operation runs at a time, as it does under             *)
(* filesys_lock; it is a sequence of steps, one for each write that        *)
(* matters to what is found after the machine has lost power.  The calls   *)
(* of syscall.c do hold the lock.  load (process.c), which opens, reads    *)
(* and denies writes to the executable, and thread_exit, which closes the  *)
(* files of a process, do not: what these do in the middle of another      *)
(* operation is not modelled.                                              *)
(* Sectors of the free map file and of the root directory are not among    *)
(* Sector: the free map on disk is disk_map and the directory on disk is   *)
(* disk_dir, each small enough to be one sector.                           *)
(***************************************************************************)
EXTENDS Integers, Sequences, FiniteSets

CONSTANTS
  Name, Handle, NULL,
  Invalid,            \* names that are empty or longer than NAME_MAX
  Exec,               \* handles of running programs, the others are file descriptors
  Sectors,            \* sectors 1 .. Sectors are for files
  BLOCK_SECTOR_SIZE,  \* bytes in a sector
  Slots,              \* entries of the root directory
  Lengths,            \* for each name, the sizes a file is created with
  Sizes,              \* sizes of reads and writes
  Seeks,              \* positions that seek is called with
  Byte,               \* what is written
  MallocFails,        \* whether malloc fails for structures
  BounceFails         \* whether it fails for the bounce buffer of a partial sector

ASSUME FileSysAssumption ==
  /\ Sectors \in Nat /\ Slots \in Nat /\ BLOCK_SECTOR_SIZE \in Nat \ {0}
  /\ Lengths \in [Name -> SUBSET Int] /\ Sizes \subseteq Nat /\ Seeks \subseteq Int
  /\ NULL \notin Name \cup Handle /\ Exec \subseteq Handle /\ Invalid \subseteq Name

VARIABLES
  disk,         \* inodes and data, by sector
  disk_map,     \* sectors marked in the free map file
  disk_dir,     \* directory entries in use, by slot
  free_map,     \* the free map in memory: sectors in use
  open_inodes,  \* struct inode by sector, NULL if not open
  file,         \* struct file by handle, NULL if not open
  op,           \* the operation in progress and its locals
  ret,          \* what the last read or write returned
  untidy        \* sectors may have been lost: power failure, or a create that failed late

vars == <<disk, disk_map, disk_dir, free_map, open_inodes, file, op, ret, untidy>>
onDisk == <<disk, disk_map, disk_dir>>
inMemory == <<free_map, open_inodes, file>>

Sector == 1 .. Sectors
Slot == 1 .. Slots
Junk == [k \in 1 .. BLOCK_SECTOR_SIZE |-> -1]
Zeros == [k \in 1 .. BLOCK_SECTOR_SIZE |-> 0]
Idle == [pc |-> "idle"]
Least(S) == CHOOSE x \in S : \A y \in S : x <= y

bytes_to_sectors(size) == (size + BLOCK_SECTOR_SIZE - 1) \div BLOCK_SECTOR_SIZE

(* struct inode_disk in a sector, and the struct read from it. *)
OnDisk(i) == <<i.start, i.length>>
FromDisk(block) == [start |-> block[1], length |-> block[2]]

(* The data sectors of an inode. *)
Extent(i) == i.start .. i.start + bytes_to_sectors(i.length) - 1

(* do_format, then free_map_open: an empty directory, an empty free map. *)
Init ==
  /\ disk = [s \in Sector |-> Junk]
  /\ disk_map = {}
  /\ disk_dir = [s \in Slot |-> NULL]
  /\ free_map = {}
  /\ open_inodes = [s \in Sector |-> NULL]
  /\ file = [h \in Handle |-> NULL]
  /\ op = Idle
  /\ ret = <<>>
  /\ untidy = FALSE

Begin(r) == op.pc = "idle" /\ op' = r
Goto(l) == op' = [op EXCEPT !.pc = l]
Return(r) == op' = Idle /\ ret' = r

(* An assertion has failed: the kernel stops where it is. *)
Panic == op' = [pc |-> "panic"] /\ UNCHANGED ret
-----------------------------------------------------------------------------
(* free-map.c *)

(* The starts of free runs of cnt sectors.  With cnt = 0 the scan finds bit  *)
(* 0, which is the sector of the free map's inode: nobody looks there.       *)
Runs(cnt) == IF cnt = 0 THEN {0}
             ELSE {s \in Sector : s + cnt - 1 <= Sectors /\ (s .. s + cnt - 1) \cap free_map = {}}

(* Mutant: the free map is not written. *)
AllocateUnwritten(cnt, start) ==
  /\ Runs(cnt) # {} /\ start = Least(Runs(cnt))
  /\ free_map' = free_map \cup (start .. start + cnt - 1)
  /\ disk_map' = disk_map

(* free_map_allocate when there is a run: marked in memory and on disk. *)
Allocate(cnt, start) ==
  /\ Runs(cnt) # {} /\ start = Least(Runs(cnt))
  /\ free_map' = free_map \cup (start .. start + cnt - 1)
  /\ disk_map' = free_map'

(* It fails when there is none, or when the free map cannot be written,      *)
(* which undoes it.                                                          *)
AllocateFails(cnt) == Runs(cnt) = {} \/ BounceFails

(* free_map_release, which goes on if the free map cannot be written.  What  *)
(* a free sector holds is not told apart any more: it is Junk, that nothing  *)
(* may read.                                                                 *)
Release(sectors) ==
  /\ free_map' = free_map \ sectors
  /\ disk_map' = free_map' \/ (BounceFails /\ disk_map' = disk_map)
  /\ disk' = [s \in Sector |-> IF s \in sectors THEN Junk ELSE disk[s]]
-----------------------------------------------------------------------------
(* inode.c *)

(* inode_open: the open inode of that sector, or one read from it. *)
Opened(s) ==
  IF open_inodes[s] # NULL THEN [open_inodes[s] EXCEPT !.open_cnt = @ + 1]
  ELSE [open_cnt |-> 1, removed |-> FALSE, deny_write_cnt |-> 0,
        start |-> FromDisk(disk[s]).start, length |-> FromDisk(disk[s]).length]

byte_to_sector(i, pos) == i.start + pos \div BLOCK_SECTOR_SIZE
sector_ofs(pos) == pos % BLOCK_SECTOR_SIZE

(* How much of SIZE bytes at OFFSET the next turn of the loops of            *)
(* inode_read_at and inode_write_at moves.                                   *)
ChunkSize(i, size, offset) ==
  Least({size, i.length - offset, BLOCK_SECTOR_SIZE - sector_ofs(offset)})

(* A chunk that is not a whole sector goes through the bounce buffer. *)
Bounces(i, size, offset) == ChunkSize(i, size, offset) < BLOCK_SECTOR_SIZE

(* inode_read_at, as the bytes read when memory does not run out. *)
inode_read_at(i, size, offset) ==
  LET read[n \in 0 .. size] ==
        LET o == offset + size - n
            c == ChunkSize(i, n, o) IN
        IF n = 0 \/ c <= 0 THEN <<>>
        ELSE SubSeq(disk[byte_to_sector(i, o)], sector_ofs(o) + 1, sector_ofs(o) + c) \o read[n - c]
  IN  read[size]

(* The chunk that inode_write_at puts into a sector. *)
Put(block, ofs, n, b) == [k \in DOMAIN block |-> IF k \in ofs + 1 .. ofs + n THEN b ELSE block[k]]

(* Mutant: the inode is freed although other openers are left. *)
InodeCloseEarly ==
  LET s == op.sector
      i == open_inodes[s] IN
  /\ op.pc = "close"
  /\ open_inodes' = [open_inodes EXCEPT ![s] = IF @.open_cnt = 1 THEN NULL ELSE [@ EXCEPT !.open_cnt = @ - 1]]
  /\ \/ /\ i.removed
        /\ Release({s})
        /\ op' = [pc |-> "free", extent |-> Extent(i)]
        /\ UNCHANGED ret
     \/ /\ ~ i.removed
        /\ Return(<<>>)
        /\ UNCHANGED <<free_map, disk_map, disk>>
  /\ UNCHANGED <<disk_dir, file, untidy>>

(* inode_close.  The last opener of a removed inode frees its sector, then   *)
(* its data.                                                                 *)
InodeClose ==
  LET s == op.sector
      i == open_inodes[s] IN
  /\ op.pc = "close"
  /\ open_inodes' = [open_inodes EXCEPT ![s] = IF @.open_cnt = 1 THEN NULL ELSE [@ EXCEPT !.open_cnt = @ - 1]]
  /\ \/ /\ i.open_cnt = 1 /\ i.removed
        /\ Release({s})
        /\ op' = [pc |-> "free", extent |-> Extent(i)]
        /\ UNCHANGED ret
     \/ /\ ~ (i.open_cnt = 1 /\ i.removed)
        /\ Return(<<>>)
        /\ UNCHANGED <<free_map, disk_map, disk>>
  /\ UNCHANGED <<disk_dir, file, untidy>>

(* Mutant: the data of the removed file stay allocated. *)
InodeFreeNothing ==
  /\ op.pc = "free"
  /\ Return(<<>>)
  /\ UNCHANGED <<onDisk, inMemory, untidy>>

InodeFree ==
  /\ op.pc = "free"
  /\ Release(op.extent)
  /\ Return(<<>>)
  /\ UNCHANGED <<disk_dir, open_inodes, file, untidy>>
-----------------------------------------------------------------------------
(* directory.c *)

Entries(n) == {s \in Slot : disk_dir[s] # NULL /\ disk_dir[s].name = n}
FreeSlots == {s \in Slot : disk_dir[s] = NULL}

(* lookup reads the directory through a bounce buffer: without memory it     *)
(* finds nothing.                                                            *)
Misses(n) == Entries(n) = {} \/ BounceFails

(* The slot that the second loop of dir_add stops at; a read that fails      *)
(* stops it as well.                                                         *)
AddSlots == IF FreeSlots = {} THEN IF BounceFails THEN Slot ELSE {}
            ELSE IF BounceFails THEN 1 .. Least(FreeSlots) ELSE {Least(FreeSlots)}
-----------------------------------------------------------------------------
(* filesys_create, one step for each write. *)

Create(n, length) ==
  /\ op.pc = "idle"
  /\ \/ /\ AllocateFails(1) \/ MallocFails
        /\ Return(<<>>)
        /\ UNCHANGED <<free_map, disk_map>>
     \/ \E s \in Sector :
          /\ Allocate(1, s)
          /\ op' = [pc |-> "data", name |-> n, length |-> length, sector |-> s]
          /\ ret' = <<>>
  /\ UNCHANGED <<disk, disk_dir, open_inodes, file, untidy>>

(* inode_create, which asserts that the length is not negative: room for the *)
(* data.                                                                     *)
CreateData ==
  /\ op.pc = "data"
  /\ \/ /\ op.length < 0
        /\ Panic
        /\ UNCHANGED <<free_map, disk_map>>
     \/ /\ op.length >= 0
        /\ AllocateFails(bytes_to_sectors(op.length)) \/ MallocFails
        /\ Goto("undo")
        /\ UNCHANGED <<free_map, disk_map>>
     \/ \E s \in 0 .. Sectors :
          /\ op.length >= 0
          /\ Allocate(bytes_to_sectors(op.length), s)
          /\ op' = [pc |-> "inode", name |-> op.name, sector |-> op.sector,
                    inode |-> [start |-> s, length |-> op.length]]
  /\ UNCHANGED <<disk, disk_dir, open_inodes, file, ret, untidy>>

(* The inode is written and the data sectors are cleared: one step, since    *)
(* nothing leads to these sectors yet.                                       *)
CreateInode ==
  /\ op.pc = "inode"
  /\ disk' = [s \in Sector |-> IF s = op.sector THEN OnDisk(op.inode)
                               ELSE IF s \in Extent(op.inode) THEN Zeros ELSE disk[s]]
  /\ Goto("add")
  /\ UNCHANGED <<disk_map, disk_dir, inMemory, ret, untidy>>

(* dir_add.  If it fails only the sector of the inode is given back. *)
CreateAdd ==
  /\ op.pc = "add"
  /\ \/ /\ op.name \notin Invalid /\ Misses(op.name)
        /\ \E s \in AddSlots :
             disk_dir' = [disk_dir EXCEPT ![s] = [name |-> op.name, sector |-> op.sector]]
        /\ Return(<<>>)
        /\ UNCHANGED untidy
     \/ /\ op.name \in Invalid \/ Entries(op.name) # {} \/ FreeSlots = {} \/ BounceFails
        /\ Goto("undo")
        /\ untidy' = (untidy \/ op.inode.length > 0)
        /\ UNCHANGED <<disk_dir, ret>>
  /\ UNCHANGED <<disk, disk_map, inMemory>>

CreateUndo ==
  /\ op.pc = "undo"
  /\ Release({op.sector})
  /\ Return(<<>>)
  /\ UNCHANGED <<disk_dir, open_inodes, file, untidy>>
-----------------------------------------------------------------------------
(* filesys_remove, filesys_open and file.c. *)

(* dir_remove.  The entry is erased before the sectors are freed. *)
Remove(n) ==
  /\ op.pc = "idle"
  /\ \/ /\ Misses(n) \/ MallocFails
        /\ Return(<<>>)
        /\ UNCHANGED <<disk_dir, open_inodes>>
     \/ \E slot \in Entries(n) :
          LET s == disk_dir[slot].sector IN
          \/ /\ disk_dir' = [disk_dir EXCEPT ![slot] = NULL]
             /\ open_inodes' = [open_inodes EXCEPT ![s] = [Opened(s) EXCEPT !.removed = TRUE]]
             /\ op' = [pc |-> "close", sector |-> s]
             /\ ret' = <<>>
          \/ /\ BounceFails
             /\ open_inodes' = [open_inodes EXCEPT ![s] = Opened(s)]
             /\ op' = [pc |-> "close", sector |-> s]
             /\ ret' = <<>>
             /\ UNCHANGED disk_dir
  /\ UNCHANGED <<disk, disk_map, free_map, file, untidy>>

Open(n, h) ==
  /\ op.pc = "idle" /\ file[h] = NULL
  /\ \/ /\ Misses(n) \/ MallocFails
        /\ Return(<<>>)
        /\ UNCHANGED <<open_inodes, file>>
     \/ \E slot \in Entries(n) :
          LET s == disk_dir[slot].sector IN
          /\ open_inodes' = [open_inodes EXCEPT ![s] = Opened(s)]
          /\ file' = [file EXCEPT ![h] = [inode |-> s, pos |-> 0, deny_write |-> FALSE]]
          /\ Return(<<>>)
  /\ UNCHANGED <<onDisk, free_map, untidy>>

(* file_reopen: a second struct file for the same inode. *)
Reopen(h, g) ==
  /\ op.pc = "idle" /\ file[h] # NULL /\ file[g] = NULL
  /\ open_inodes' = [open_inodes EXCEPT ![file[h].inode].open_cnt = @ + 1]
  /\ file' = [file EXCEPT ![g] = [inode |-> file[h].inode, pos |-> 0, deny_write |-> FALSE]]
  /\ Return(<<>>)
  /\ UNCHANGED <<onDisk, free_map, untidy>>

(* Mutant: file_allow_write, whoever denied writes. *)
CloseAllows(h) ==
  /\ file[h] # NULL
  /\ Begin([pc |-> "close", sector |-> file[h].inode])
  /\ open_inodes' = [open_inodes EXCEPT ![file[h].inode].deny_write_cnt = 0]
  /\ file' = [file EXCEPT ![h] = NULL]
  /\ ret' = <<>>
  /\ UNCHANGED <<onDisk, free_map, untidy>>

(* file_close: file_allow_write, then inode_close. *)
Close(h) ==
  /\ file[h] # NULL
  /\ Begin([pc |-> "close", sector |-> file[h].inode])
  /\ open_inodes' = [open_inodes EXCEPT ![file[h].inode].deny_write_cnt =
                       @ - IF file[h].deny_write THEN 1 ELSE 0]
  /\ file' = [file EXCEPT ![h] = NULL]
  /\ ret' = <<>>
  /\ UNCHANGED <<onDisk, free_map, untidy>>

(* file_seek, which asserts that the position is not negative. *)
Seek(h, pos) ==
  /\ op.pc = "idle" /\ file[h] # NULL
  /\ \/ /\ pos >= 0
        /\ file' = [file EXCEPT ![h].pos = pos]
        /\ Return(<<>>)
     \/ pos < 0 /\ Panic /\ UNCHANGED file
  /\ UNCHANGED <<onDisk, free_map, open_inodes, untidy>>

(* file_deny_write; only file_close allows writes again. *)
DenyWrite(h) ==
  /\ op.pc = "idle" /\ file[h] # NULL /\ ~ file[h].deny_write
  /\ file' = [file EXCEPT ![h].deny_write = TRUE]
  /\ open_inodes' = [open_inodes EXCEPT ![file[h].inode].deny_write_cnt = @ + 1]
  /\ Return(<<>>)
  /\ UNCHANGED <<onDisk, free_map, untidy>>

(* file_read.  A sector that has to bounce may end it early. *)
Read(h, size) ==
  LET f == file[h]
      bytes == inode_read_at(open_inodes[f.inode], size, f.pos) IN
  /\ op.pc = "idle" /\ f # NULL
  /\ \E n \in IF BounceFails THEN 0 .. Len(bytes) ELSE {Len(bytes)} :
       /\ Return(SubSeq(bytes, 1, n))
       /\ file' = [file EXCEPT ![h].pos = @ + n]
  /\ UNCHANGED <<onDisk, free_map, open_inodes, untidy>>

(* file_write: inode_write_at, which refuses if anybody denies writes... *)
Write(h, size, b) ==
  /\ op.pc = "idle" /\ file[h] # NULL
  /\ \/ /\ open_inodes[file[h].inode].deny_write_cnt > 0
        /\ Return(<<0>>)
     \/ /\ open_inodes[file[h].inode].deny_write_cnt = 0
        /\ op' = [pc |-> "write", handle |-> h, byte |-> b, size |-> size,
                  offset |-> file[h].pos, done |-> 0]
        /\ ret' = <<>>
  /\ UNCHANGED <<onDisk, inMemory, untidy>>

(* ... one turn of its loop, which writes one sector... *)
WriteChunk ==
  LET i == open_inodes[file[op.handle].inode]
      c == ChunkSize(i, op.size, op.offset) IN
  /\ op.pc = "write" /\ op.size > 0 /\ c > 0
  /\ disk' = [disk EXCEPT ![byte_to_sector(i, op.offset)] =
                Put(@, sector_ofs(op.offset), c, op.byte)]
  /\ op' = [op EXCEPT !.size = @ - c, !.offset = @ + c, !.done = @ + c]
  /\ UNCHANGED <<disk_map, disk_dir, inMemory, ret, untidy>>

(* ... and the position, which moves by what was written. *)
WriteEnd ==
  LET i == open_inodes[file[op.handle].inode] IN
  /\ op.pc = "write"
  /\ \/ op.size = 0 \/ ChunkSize(i, op.size, op.offset) <= 0
     \/ BounceFails /\ Bounces(i, op.size, op.offset)
  /\ file' = [file EXCEPT ![op.handle].pos = @ + op.done]
  /\ Return(<<op.done>>)
  /\ UNCHANGED <<onDisk, free_map, open_inodes, untidy>>
-----------------------------------------------------------------------------
Removed == {s \in Sector : open_inodes[s] # NULL /\ open_inodes[s].removed}

(* The machine stops, whatever it was doing, and starts again: filesys_init  *)
(* without format reads the free map.  filesys_done has nothing to write.    *)
PowerOff ==
  /\ free_map' = disk_map
  /\ open_inodes' = [s \in Sector |-> NULL]
  /\ file' = [h \in Handle |-> NULL]
  /\ Return(<<>>)
  /\ untidy' = (untidy \/ op.pc # "idle" \/ Removed # {})
  /\ UNCHANGED onDisk

Step == CreateData \/ CreateInode \/ CreateAdd \/ CreateUndo
        \/ InodeClose \/ InodeFree \/ WriteChunk \/ WriteEnd

Next ==
  \/ Step \/ PowerOff
  \/ \E n \in Name :
       \/ Remove(n)
       \/ \E length \in Lengths[n] : Create(n, length)
       \/ \E h \in Handle : Open(n, h)
  \/ \E h \in Handle :
       \/ Close(h)
       \/ \E g \in Handle : Reopen(h, g)
  \/ \E h \in Exec : DenyWrite(h)
  \/ \E h \in Handle \ Exec :
       \/ \E pos \in Seeks : Seek(h, pos)
       \/ \E size \in Sizes : Read(h, size) \/ \E b \in Byte : Write(h, size, b)

Spec == Init /\ [][Next]_vars
-----------------------------------------------------------------------------
(* Properties. *)

Linked == {disk_dir[s].sector : s \in {t \in Slot : disk_dir[t] # NULL}}
OpenFiles == {h \in Handle : file[h] # NULL}
InodeOf(s) == IF open_inodes[s] # NULL THEN open_inodes[s] ELSE FromDisk(disk[s])

Contents(s) ==
  LET i == InodeOf(s) IN
  [k \in 1 .. i.length |-> disk[byte_to_sector(i, k - 1)][sector_ofs(k - 1) + 1]]

(* A sector's inode is the file, whether it is named, open or both. *)
Store == INSTANCE FileStore WITH
  Id <- Sector, MaxLength <- Sectors * BLOCK_SECTOR_SIZE,
  dir <- [n \in Name |-> IF Entries(n) = {} THEN NULL ELSE disk_dir[Least(Entries(n))].sector],
  data <- [s \in Sector |-> IF s \in Linked \/ \E h \in OpenFiles : file[h].inode = s
                            THEN Contents(s) ELSE NULL],
  open <- [h \in Handle |-> IF file[h] = NULL THEN NULL
                            ELSE [inode |-> file[h].inode, pos |-> file[h].pos]]

(* The directory, the files and the open files are those of FileStore: a     *)
(* file keeps what was written to it until it is removed and closed by all,  *)
(* whatever other files are created, removed and written, although sectors   *)
(* are used again, and the power may fail between any two sectors.           *)
ImplementsStore == Store!Spec

(* At every moment the disk alone is in order, so that losing power loses no *)
(* file: the sectors of a file in the directory are marked in the free map   *)
(* file and belong to no other file.  It rests on the order of the writes:   *)
(* free map, inode, data, directory in filesys_create, directory before free *)
(* map in dir_remove.  Names are unique, too, as long as there is memory for *)
(* a bounce buffer; without one, lookup finds nothing and dir_add may give a *)
(* name twice, or write over an entry.                                       *)
DiskInOrder ==
  LET used(s) == {s} \cup Extent(FromDisk(disk[s])) IN
  \A a, b \in {t \in Slot : disk_dir[t] # NULL} :
    LET s == disk_dir[a].sector
        t == disk_dir[b].sector IN
    /\ used(s) \subseteq disk_map
    /\ s \notin Extent(FromDisk(disk[s]))
    /\ a # b => used(s) \cap used(t) = {}
    /\ a # b /\ ~ BounceFails => disk_dir[a].name # disk_dir[b].name

(* No sector is lost: between operations the free map, in memory and on      *)
(* disk, marks the sectors of files that have a name or are open, and no     *)
(* others - unless the power has failed or dir_add has, which gives back     *)
(* only one of the sectors that filesys_create took.                         *)
NoSectorLost ==
  LET live == Linked \cup {file[h].inode : h \in OpenFiles}
      used(s) == {s} \cup Extent(InodeOf(s)) IN
  op.pc = "idle" /\ ~ untidy =>
    /\ free_map = UNION {used(s) : s \in live}
    /\ disk_map = free_map

(* inode_deny_write counts the open files that deny writes, and while there  *)
(* is one the file does not change (executables are protected this way): a   *)
(* program that runs twice is still protected when one of the two has ended. *)
WritesDenied ==
  [][\A s \in Sector :
       LET deniers == {h \in OpenFiles : file[h].inode = s /\ file[h].deny_write} IN
       deniers # {} => /\ Contents(s)' = Contents(s)
                       /\ open_inodes[s].deny_write_cnt = Cardinality(deniers)]_vars
=============================================================================
