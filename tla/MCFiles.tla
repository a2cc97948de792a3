------------------------------- MODULE MCFiles -------------------------------
(* The file system and the system calls on files for TLC.  A behaviour runs  *)
(* one of three parts, which share no state: the file system with two files  *)
(* open; a smaller one with a file that runs as two programs, a name that is *)
(* not valid and a malloc that fails also for bounce buffers; the descriptor *)
(* tables.                                                                   *)
EXTENDS FileSys

CONSTANTS n1, n2, n3, h1, h2, h3, p1, p2, f1, f2, f3

VARIABLES
  part,
  short_disk, short_disk_map, short_disk_dir, short_free_map, short_open_inodes,
  short_file, short_op, short_ret, short_untidy,
  fd_pointers, num_open_files, opened, lock, pc, call, lost, panic

MCName == {n1, n2}
MCHandle == {h1, h2}
MCExec == {}

(* Two sectors of data, and one sector or none. *)
MCLengths == [n \in MCName |-> IF n = n1 THEN {4} ELSE {0, 2}]
MCSeeks == {-1, 0}

Short == INSTANCE FileSys WITH
  Name <- {n1, n3}, Invalid <- {n3}, Handle <- {h1, h2, h3}, Exec <- {h2, h3},
  Sectors <- 3, BounceFails <- TRUE, Lengths <- [n \in {n1, n3} |-> IF n = n1 THEN {2} ELSE {-1, 2}],
  disk <- short_disk, disk_map <- short_disk_map, disk_dir <- short_disk_dir,
  free_map <- short_free_map, open_inodes <- short_open_inodes, file <- short_file,
  op <- short_op, ret <- short_ret, untidy <- short_untidy
short == <<short_disk, short_disk_map, short_disk_dir, short_free_map, short_open_inodes,
           short_file, short_op, short_ret, short_untidy>>

Calls == INSTANCE Syscall WITH Proc <- {p1, p2}, File <- {f1, f2, f3}, MAX_FILES <- 2, Faults <- TRUE
calls == <<fd_pointers, num_open_files, opened, lock, pc, call, lost, panic>>

(* The instance meets what the proofs about the system calls assume. *)
ASSUME CallsConstants == Calls!SyscallConstants

MCInit == part \in {"store", "short", "calls"} /\ Init /\ Short!Init /\ Calls!Init

UseStore == part = "store" /\ Next /\ UNCHANGED <<part, short, calls>>
UseShort == part = "short" /\ Short!Next /\ UNCHANGED <<part, vars, calls>>
UseCalls == part = "calls" /\ Calls!Next /\ UNCHANGED <<part, vars, short>>

MCNext == UseStore \/ UseShort \/ UseCalls

(* The fairness of Syscall, while it is the part that runs. *)
MCSpec ==
  /\ MCInit /\ [][MCNext]_<<part, vars, short, calls>>
  /\ \A p \in {p1, p2} : WF_calls(part = "calls" /\ Calls!Kernel(p)) /\ WF_calls(part = "calls" /\ Calls!Take(p))
-----------------------------------------------------------------------------
(* Whenever the power fails, the directory on disk leads to files that have  *)
(* their sectors for themselves, marked in the free map, even where memory   *)
(* was too short to read the directory (filesys_create, dir_remove).         *)
DisksInOrder == DiskInOrder /\ Short!DiskInOrder

(* A file that runs as a program, once or twice, is not written to.          *)
ExecutablesKept == Short!WritesDenied

(* Open struct files and descriptor tables agree, and counts are exact.      *)
FilesOwned == Calls!FilesOwned

(* Whoever waits for filesys_lock for ever is passed by others for ever,     *)
(* unless the holder has died.                                               *)
LockServed == Calls!LockServed
=============================================================================
