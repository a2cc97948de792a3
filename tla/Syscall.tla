------------------------------- MODULE Syscall -------------------------------
(***************************************************************************)
(* The system calls on files (userprog/syscall.c): the descriptor table of *)
(* each process, filesys_lock, and what thread_exit does to the files of a *)
(* process.  What the file system does with a file is module FileSys; here *)
(* a struct file is only open or not.                                      *)
(***************************************************************************)
EXTENDS Integers, FiniteSets

CONSTANTS
  Proc,        \* processes
  File,        \* struct files that file_open may return
  NULL,
  MAX_FILES,
  Faults       \* whether a process passes pointers to memory that it does not have

VARIABLES
  fd_pointers,     \* the table of each process
  num_open_files,
  opened,          \* struct files that are open
  lock,            \* the holder of filesys_lock
  pc, call,        \* where each process is, and in which call
  lost,            \* a thread has died with the lock
  panic            \* an assertion has failed

vars == <<fd_pointers, num_open_files, opened, lock, pc, call, lost, panic>>
failure == <<lost, panic>>
table == <<fd_pointers, num_open_files>>

Index == 0 .. MAX_FILES - 1

(* Descriptors that programs pass: all that are treated differently. *)
Descriptor == -1 .. MAX_FILES + 3

(* What the constants stand for: finitely many processes, and pointers that  *)
(* are not null; a wild one leads to no struct file.                         *)
SyscallConstants ==
  /\ IsFiniteSet(Proc) /\ NULL \notin Proc
  /\ {NULL, "wild"} \cap File = {}
  /\ MAX_FILES \in Nat

NoCall == [does |-> "nothing", pointer |-> NULL, fd |-> 0]

(* init_thread: an empty table. *)
Init ==
  /\ fd_pointers = [p \in Proc |-> [i \in Index |-> NULL]]
  /\ num_open_files = [p \in Proc |-> 0]
  /\ opened = {}
  /\ lock = NULL
  /\ pc = [p \in Proc |-> "user"]
  /\ call = [p \in Proc |-> NoCall]
  /\ lost = FALSE
  /\ panic = FALSE

Goto(p, l) == pc' = [pc EXCEPT ![p] = l]

(* Back to the program, whatever the value. *)
Return(p) ==
  /\ Goto(p, "user")
  /\ call' = [call EXCEPT ![p] = NoCall]
  /\ UNCHANGED failure

(* The rest of the call needs filesys_lock.  does says what it will do: use  *)
(* a name, copy to or from a buffer of the process, open, close, create or   *)
(* seek with a number below 0, or other.                                     *)
Acquire(p, does, pointer, fd) ==
  /\ pc[p] = "user"
  /\ Goto(p, "acquire")
  /\ call' = [call EXCEPT ![p] = [does |-> does, pointer |-> pointer, fd |-> fd]]
  /\ UNCHANGED <<table, opened, lock, failure>>

(* What the calls read at fd_pointers[fd - 2].  Their range test lets        *)
(* MAX_FILES through, where struct thread has num_open_files: a count that   *)
(* is not 0 is taken for the address of a struct file.                       *)
Pointer(p, fd) ==
  LET i == fd - 2 IN
  IF i \in Index THEN fd_pointers[p][i]
  ELSE IF num_open_files[p] = 0 THEN NULL ELSE "wild"

InRange(fd) == fd >= 2 /\ fd <= MAX_FILES + 2

(* A call on a descriptor: nothing is done unless it leads to a pointer. *)
OnDescriptor(p, does, fd) ==
  /\ pc[p] = "user"
  /\ \/ /\ InRange(fd) /\ Pointer(p, fd) # NULL
        /\ Acquire(p, does, Pointer(p, fd), IF does = "close" THEN fd ELSE 0)
     \/ /\ ~ InRange(fd) \/ Pointer(p, fd) = NULL
        /\ Return(p)
        /\ UNCHANGED <<table, opened, lock>>
-----------------------------------------------------------------------------
(* The calls, up to the lock. *)

system_create(p, size) == Acquire(p, IF size < 0 THEN "badcreate" ELSE "name", NULL, 0)

system_remove(p) == Acquire(p, "name", NULL, 0)

system_open(p) ==
  \/ /\ num_open_files[p] < MAX_FILES
     /\ Acquire(p, "open", NULL, 0)
  \/ /\ pc[p] = "user" /\ num_open_files[p] >= MAX_FILES
     /\ Return(p)
     /\ UNCHANGED <<table, opened, lock>>

system_filesize(p, fd) == OnDescriptor(p, "other", fd)

(* Descriptor 0 is the keyboard. *)
system_read(p, fd) ==
  \/ fd # 0 /\ OnDescriptor(p, "copy", fd)
  \/ fd = 0 /\ pc[p] = "user" /\ Return(p) /\ UNCHANGED <<table, opened, lock>>

(* Descriptor 1 is the console. *)
system_write(p, fd) ==
  \/ fd # 1 /\ OnDescriptor(p, "copy", fd)
  \/ fd = 1 /\ pc[p] = "user" /\ Return(p) /\ UNCHANGED <<table, opened, lock>>

system_seek(p, fd, position) == OnDescriptor(p, IF position < 0 THEN "badseek" ELSE "other", fd)

system_tell(p, fd) == OnDescriptor(p, "other", fd)

system_close(p, fd) == OnDescriptor(p, "close", fd)

(* lock_acquire (&filesys_lock), which asserts that the lock is not ours: it *)
(* seems to be if the page of a thread that died with it is ours now.        *)
Locked(p) ==
  /\ pc[p] = "acquire"
  /\ \/ /\ lock = NULL
        /\ lock' = p
        /\ Goto(p, "inside")
        /\ UNCHANGED panic
     \/ /\ lock = p
        /\ panic' = TRUE
        /\ UNCHANGED <<lock, pc>>
  /\ UNCHANGED <<table, opened, call, lost>>
-----------------------------------------------------------------------------
(* The calls, with the lock: the file operation, lock_release and what       *)
(* follows.                                                                  *)

(* Mutant: the lock is kept when the file cannot be opened. *)
OpenFileHolds(p) ==
  /\ pc[p] = "inside" /\ call[p].does = "open"
  /\ Return(p)
  /\ UNCHANGED <<table, opened, lock>>

(* filesys_open fails, or returns a new struct file, which goes to the first *)
(* empty place of the table.  Which of the unused ones malloc finds for it   *)
(* makes no difference.                                                      *)
OpenFile(p) ==
  LET free == {i \in Index : fd_pointers[p][i] = NULL} IN
  /\ pc[p] = "inside" /\ call[p].does = "open"
  /\ lock' = NULL
  /\ Return(p)
  /\ \/ UNCHANGED <<table, opened>>
     \/ LET f == CHOOSE x \in File : x \notin opened
        IN  /\ File \ opened # {}
            /\ opened' = opened \cup {f}
            /\ \/ free = {} /\ UNCHANGED table
               \/ \E i \in free :
                    /\ \A j \in free : i <= j
                    /\ fd_pointers' = [fd_pointers EXCEPT ![p][i] = f]
                    /\ num_open_files' = [num_open_files EXCEPT ![p] = @ + 1]

(* file_close, then the table. *)
CloseFile(p) ==
  /\ pc[p] = "inside" /\ call[p].does = "close" /\ call[p].pointer \in File
  /\ opened' = opened \ {call[p].pointer}
  /\ lock' = NULL
  /\ num_open_files' = [num_open_files EXCEPT ![p] = @ - 1]
  /\ fd_pointers' = [fd_pointers EXCEPT ![p][call[p].fd - 2] = NULL]
  /\ Return(p)

(* The other operations change no table. *)
UseFile(p) ==
  /\ pc[p] = "inside" /\ call[p].does \notin {"open", "close", "badseek"}
  /\ call[p].pointer # "wild"
  /\ lock' = NULL
  /\ Return(p)
  /\ UNCHANGED <<table, opened>>

(* inode_create and file_seek assert that a length or a position is not      *)
(* below 0; filesys_create may have failed before that.                      *)
FailedAssertion(p) ==
  /\ pc[p] = "inside" /\ call[p].does \in {"badcreate", "badseek"}
  /\ panic' = TRUE
  /\ UNCHANGED <<table, opened, lock, pc, call, lost>>

(* The file system reads the name, copies to or from the buffer, or follows  *)
(* a wild pointer: a fault on memory that the process does not have ends it  *)
(* where it is (page_fault, system_exit_helper), and nobody releases the     *)
(* lock.                                                                     *)
Fault(p) ==
  /\ pc[p] = "inside"
  /\ \/ call[p].pointer = "wild" /\ call[p].does # "badseek"
     \/ Faults /\ call[p].does \in {"name", "open", "copy"}
  /\ Goto(p, "exit")
  /\ lost' = TRUE
  /\ UNCHANGED <<table, opened, lock, call, panic>>
-----------------------------------------------------------------------------
(* The exit call, or an end by check_pointer, an unknown call or an          *)
(* exception outside the file system.                                        *)
system_exit(p) ==
  /\ pc[p] = "user"
  /\ Goto(p, "exit")
  /\ call' = [call EXCEPT ![p] = NoCall]
  /\ UNCHANGED <<table, opened, lock, failure>>

(* Mutant: the loop ends at the first empty place. *)
CloseAllShort(p) ==
  LET taken == {i \in Index : \A j \in 0 .. i : fd_pointers[p][j] # NULL} IN
  /\ pc[p] = "exit"
  /\ opened' = opened \ {fd_pointers[p][i] : i \in taken}
  /\ num_open_files' = [num_open_files EXCEPT ![p] = @ - Cardinality(taken)]
  /\ Goto(p, "dead")
  /\ call' = [call EXCEPT ![p] = NoCall]
  /\ UNCHANGED <<fd_pointers, lock, failure>>

(* The loop of thread_exit: it closes files from index 0 on, without the     *)
(* lock, as long as the count is not 0.                                      *)
CloseAll(p) ==
  LET taken == {i \in Index : fd_pointers[p][i] # NULL}
      closed == {i \in taken : Cardinality({j \in taken : j < i}) < num_open_files[p]} IN
  /\ pc[p] = "exit"
  /\ opened' = opened \ {fd_pointers[p][i] : i \in closed}
  /\ num_open_files' = [num_open_files EXCEPT ![p] = @ - Cardinality(closed)]
  /\ Goto(p, "dead")
  /\ call' = [call EXCEPT ![p] = NoCall]
  /\ UNCHANGED <<fd_pointers, lock, failure>>

(* A new process in place of a dead one, after init_thread. *)
Execute(p) ==
  /\ pc[p] = "dead"
  /\ fd_pointers' = [fd_pointers EXCEPT ![p] = [i \in Index |-> NULL]]
  /\ num_open_files' = [num_open_files EXCEPT ![p] = 0]
  /\ Return(p)
  /\ UNCHANGED <<opened, lock>>

Inside(p) == OpenFile(p) \/ CloseFile(p) \/ UseFile(p) \/ FailedAssertion(p) \/ Fault(p)

(* syscall_handler. *)
Handler(p) ==
  \/ system_remove(p) \/ system_open(p) \/ system_exit(p)
  \/ \E size \in {-1, 0} : system_create(p, size)
  \/ \E fd \in Descriptor :
       \/ system_filesize(p, fd) \/ system_read(p, fd) \/ system_write(p, fd)
       \/ system_tell(p, fd) \/ system_close(p, fd)
       \/ \E position \in {-1, 0} : system_seek(p, fd, position)

Kernel(p) == ~ panic /\ (Inside(p) \/ CloseAll(p))
Take(p) == ~ panic /\ Locked(p)

Next == \E p \in Proc : Kernel(p) \/ Take(p) \/ (~ panic /\ (Handler(p) \/ Execute(p)))

Spec == Init /\ [][Next]_vars

(* The timer preempts every thread, so that each goes on.  sema_down tests   *)
(* the lock again when it wakes up, and lock_release does not hand the lock  *)
(* over: a thread that finds it taken whenever it runs may wait for ever.    *)
FairSpec ==
  Spec /\ \A p \in Proc : WF_vars(Kernel(p)) /\ WF_vars(Take(p))
-----------------------------------------------------------------------------
(* Properties. *)

(* Every open struct file is at exactly one place of one table of a process  *)
(* that lives, and every pointer in such a table is to an open file: none is *)
(* closed twice, used after it was closed, or left open by a process that    *)
(* ended, wherever it ended (system_open, system_close, thread_exit).  The   *)
(* count that bounds system_open, and ends the loop of thread_exit, is the   *)
(* number of places taken.                                                   *)
FilesOwned ==
  LET at == {a \in Proc \X Index : pc[a[1]] # "dead" /\ fd_pointers[a[1]][a[2]] # NULL} IN
  /\ opened = {fd_pointers[a[1]][a[2]] : a \in at}
  /\ Cardinality(opened) = Cardinality(at)
  /\ \A p \in Proc : pc[p] # "dead" =>
    num_open_files[p] = Cardinality({i \in Index : fd_pointers[p][i] # NULL})

(* filesys_lock is released on every path of every call: a process that      *)
(* waits for it for ever is passed by another that enters the file system    *)
(* again and again, unless a thread has died with the lock, which leaves it  *)
(* taken for ever, or the kernel has stopped.  (That it is passed for ever   *)
(* cannot be excluded: see FairSpec.)                                        *)
LockServed ==
  \A p \in Proc : <>[](pc[p] = "acquire" /\ ~ lost /\ ~ panic) =>
    \E q \in Proc : []<>(pc[q] = "acquire") /\ []<>(pc[q] = "inside")
=============================================================================
