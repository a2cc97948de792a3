----------------------------- MODULE FileStore -----------------------------
(***************************************************************************)
(* What the file system promises: names for files, files of a fixed length *)
(* that keep what is written to them, open files that outlive their name,  *)
(* and a power failure that takes nothing but the open files away.         *)
(***************************************************************************)
EXTENDS Integers, Sequences

CONSTANTS Name, Handle, Id, Byte, MaxLength, NULL

VARIABLES
  dir,    \* the file of each name, or NULL
  data,   \* the bytes of each file that has a name or is open, or NULL
  open,   \* the file and position of each open file, or NULL
  ret     \* what the last read or write returned

vars == <<dir, data, open, ret>>

Init ==
  /\ dir = [n \in Name |-> NULL]
  /\ data = [i \in Id |-> NULL]
  /\ open = [h \in Handle |-> NULL]
  /\ ret = <<>>

(* A file without a name that nobody has open is gone. *)
Keep(d, names, opens) ==
  [i \in Id |-> IF \/ \E n \in Name : names[n] = i
                   \/ \E h \in Handle : opens[h] # NULL /\ opens[h].inode = i
                THEN d[i] ELSE NULL]

Create(n, i) ==
  /\ dir[n] = NULL
  /\ dir' = [dir EXCEPT ![n] = i]
  /\ ret' = <<>>
  /\ data[i] = NULL
  /\ \E length \in 0 .. MaxLength : data' = [data EXCEPT ![i] = [k \in 1 .. length |-> 0]]
  /\ UNCHANGED open

Remove(n) ==
  /\ dir[n] # NULL
  /\ dir' = [dir EXCEPT ![n] = NULL]
  /\ ret' = <<>>
  /\ UNCHANGED open
  /\ data' = Keep(data, dir', open)

Open(n, h) ==
  /\ dir[n] # NULL /\ open[h] = NULL
  /\ open' = [open EXCEPT ![h] = [inode |-> dir[n], pos |-> 0]]
  /\ ret' = <<>>
  /\ UNCHANGED <<dir, data>>

Reopen(h, g) ==
  /\ open[h] # NULL /\ open[g] = NULL
  /\ open' = [open EXCEPT ![g] = [inode |-> open[h].inode, pos |-> 0]]
  /\ ret' = <<>>
  /\ UNCHANGED <<dir, data>>

Close(h) ==
  /\ open[h] # NULL
  /\ open' = [open EXCEPT ![h] = NULL]
  /\ ret' = <<>>
  /\ UNCHANGED dir
  /\ data' = Keep(data, dir, open')

Seek(h, p) ==
  /\ open[h] # NULL
  /\ open' = [open EXCEPT ![h].pos = p]
  /\ ret' = <<>>
  /\ UNCHANGED <<dir, data>>

(* The bytes from the position on, as many as asked for and as there are. *)
Read(h, size) ==
  LET f == open[h]
      bytes == data[f.inode]
      end == IF f.pos + size <= Len(bytes) THEN f.pos + size ELSE Len(bytes) IN
  /\ f # NULL
  /\ UNCHANGED <<dir, data>>
  /\ ret' = SubSeq(bytes, f.pos + 1, end)
  /\ open' = [open EXCEPT ![h].pos = @ + Len(ret')]

(* A write is not atomic: some of the bytes at or after the position of an   *)
(* open file change, then the position moves.                                *)
Write(h, b) ==
  LET i == open[h].inode IN
  /\ open[h] # NULL /\ data' # data
  /\ UNCHANGED <<dir, open, ret>>
  /\ \E from, to \in DOMAIN data[i] :
       /\ open[h].pos < from
       /\ data' = [data EXCEPT ![i] =
            [k \in DOMAIN @ |-> IF k \in from .. to THEN b ELSE @[k]]]

Wrote(h, count) ==
  /\ open[h] # NULL
  /\ open' = [open EXCEPT ![h].pos = @ + count]
  /\ ret' = <<count>>
  /\ count > 0 => open[h].pos + count <= Len(data[open[h].inode])
  /\ UNCHANGED <<dir, data>>

(* Another call begins, or one ends that has failed. *)
NoResult == ret' = <<>> /\ UNCHANGED <<dir, open, data>>

PowerOff ==
  /\ open' = [h \in Handle |-> NULL]
  /\ ret' = <<>>
  /\ UNCHANGED dir
  /\ data' = Keep(data, dir, open')

Next ==
  \/ NoResult
  \/ \E n \in Name : Remove(n)
  \/ \E n \in Name, i \in Id : Create(n, i)
  \/ \E n \in Name, h \in Handle : Open(n, h)
  \/ \E h \in Handle : Close(h)
  \/ \E h, g \in Handle : Reopen(h, g)
  \/ \E h \in Handle : open[h] # NULL /\ data' = data
                      /\ \E k \in 0 .. MaxLength + 1 : Seek(h, k) \/ Read(h, k) \/ Wrote(h, k)
  \/ \E h \in Handle, b \in Byte : Write(h, b)
  \/ PowerOff

Spec == Init /\ [][Next]_vars
=============================================================================
