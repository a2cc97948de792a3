------------------------------- MODULE Block --------------------------------
(* Block devices (devices/block.c), the partitions found on a disk           *)
(* (devices/partition.c) and the device given to each role                   *)
(* (locate_block_device in threads/init.c).  Sector numbers have a width.    *)
EXTENDS Integers, Sequences, SequencesExt, FiniteSetsExt

CONSTANTS SectorBits,   \* width of a block_sector_t
          NULL

Sector(n) == n % 2^SectorBits

Panic == -1

(* A device: the sector of the disk it starts at is 0 for the disk itself;   *)
(* name is the number that follows the disk's name, 0 for none.              *)
block_register(blocks, name, type, size, start) ==
  Append(blocks, [name |-> name, type |-> type, size |-> size, start |-> start])

Role(part_type) ==
  CASE part_type = 32 -> "kernel" [] part_type = 33 -> "filesys" [] part_type = 34 -> "scratch"
    [] part_type = 35 -> "swap" [] OTHER -> "foreign"

Extended == {5, 15, 133, 197}

found_partition(blocks, disk_size, type, start, size, part_nr) ==
  IF start >= disk_size \/ Sector(start + size) < start \/ Sector(start + size) > disk_size THEN blocks
  ELSE block_register(blocks, part_nr, Role(type), size, start)

(* read_partition_table, entry by entry, on the blocks and the count so far. *)
(* The table read is always the one in sector 0, whatever sector says.       *)
RECURSIVE read_partition_table(_, _, _, _)
RECURSIVE Entries(_, _, _, _, _)
read_partition_table(disk, sector, primary, s) ==
  IF sector >= disk.size \/ ~disk.signature THEN s ELSE Entries(disk, sector, primary, s, 1)

Entries(disk, sector, primary, s, i) ==
  IF i > Len(disk.table) THEN s
  ELSE LET e == disk.table[i]
           found == [nr |-> s.nr + 1,
                     blocks |-> found_partition(s.blocks, disk.size, e.type, Sector(e.offset + sector), e.size, s.nr + 1)]
           nested == IF sector = 0 THEN read_partition_table(disk, e.offset, e.offset, s)
                     ELSE read_partition_table(disk, Sector(e.offset + primary), primary, s)
       IN  Entries(disk, sector, primary,
                   IF e.size = 0 \/ e.type = 0 THEN s ELSE IF e.type \in Extended THEN nested ELSE found, i + 1)

partition_scan(disk) ==
  read_partition_table(disk, 0, 0, [nr |-> 0, blocks |-> block_register(<<>>, 0, "raw", disk.size, 0)])

check_sector(block, sector) == sector < block.size
partition_sector(block, sector) == Sector(block.start + sector)

(* block_read and block_write: the sector of the disk reached, or Panic. *)
block_read(block, disk_size, sector) ==
  IF check_sector(block, sector) /\ partition_sector(block, sector) < disk_size
    THEN partition_sector(block, sector) ELSE Panic
block_write(block, disk_size, sector) ==
  IF block.type = "foreign" THEN Panic ELSE block_read(block, disk_size, sector)

block_get_by_name(blocks, name) == SelectInSeq(blocks, LAMBDA b : b.name = name)

(* The index of the device for a role, 0 if there is none. *)
locate_block_device(blocks, role, name) ==
  IF name # NULL THEN (IF block_get_by_name(blocks, name) = 0 THEN Panic ELSE block_get_by_name(blocks, name))
  ELSE SelectInSeq(blocks, LAMBDA b : b.type = role)
-----------------------------------------------------------------------------
(* However the numbers in a partition table are chosen, each partition       *)
(* registered is one the table describes, in its order, wholly on the disk:  *)
(* an access to a sector of it reaches that sector of its own range of the   *)
(* disk and no access gets past its end; and a role goes to the first device *)
(* of its type.  Tables with extended entries are left aside, because the    *)
(* table in sector 0 is then read again.                                     *)
PartitionsAreRight(disk) ==
  LET blocks == partition_scan(disk).blocks
      used == SelectSeq(disk.table, LAMBDA e : e.size # 0 /\ e.type # 0)
      fits == SelectSeq(used, LAMBDA e : e.offset + e.size <= disk.size /\ e.offset < disk.size)
  IN  disk.signature /\ (\A i \in DOMAIN disk.table : disk.table[i].type \notin Extended) =>
        /\ Len(blocks) = Len(fits) + 1
        /\ \A i \in DOMAIN fits :
             LET b == blocks[i + 1]
                 e == fits[i]
             IN  /\ b.type = Role(e.type)
                 /\ used[b.name] = e
                 /\ \A x \in 0 .. 2^SectorBits - 1 :
                      block_read(b, disk.size, x) = IF x < e.size THEN e.offset + x ELSE Panic
                 /\ block_write(b, disk.size, 0) = IF Role(e.type) = "foreign" THEN Panic ELSE e.offset
        /\ LET k == locate_block_device(blocks, "filesys", NULL)
           IN  IF k = 0 THEN \A i \in DOMAIN fits : fits[i].type # 33
               ELSE fits[k - 1].type = 33 /\ \A i \in 1 .. k - 2 : fits[i].type # 33
=============================================================================
