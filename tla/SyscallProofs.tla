--------------------------- MODULE SyscallProofs ----------------------------
(***************************************************************************)
(* Proofs about module Syscall, for any number of processes, struct files  *)
(* and places in a table: open files and descriptor tables agree, whatever *)
(* descriptors programs pass and wherever in a call a process ends.        *)
(***************************************************************************)
EXTENDS Syscall, FiniteSetTheorems, TLAPS

Label == {"user", "acquire", "inside", "exit", "dead"}
Deed == {"nothing", "name", "open", "close", "copy", "other", "badcreate", "badseek"}

TypeOK ==
  /\ fd_pointers \in [Proc -> [Index -> File \cup {NULL}]]
  /\ num_open_files \in [Proc -> Int]
  /\ opened \in SUBSET File
  /\ pc \in [Proc -> Label]
  /\ call \in [Proc -> [does : Deed, pointer : File \cup {NULL, "wild"}, fd : Int]]

Alive(p) == pc[p] # "dead"

(* The places of p's table that are taken. *)
Places(p) == {i \in Index : fd_pointers[p][i] # NULL}

(* An open file is at a place of a live process, and such a place holds an   *)
(* open file.                                                                *)
OpenInv ==
  /\ \A f \in opened : \E p \in Proc : \E i \in Places(p) : Alive(p) /\ fd_pointers[p][i] = f
  /\ \A p \in Proc : Alive(p) => \A i \in Places(p) : fd_pointers[p][i] \in opened

(* No file is at two places. *)
ApartInv ==
  \A p, q \in Proc : \A i \in Places(p) : \A j \in Places(q) :
    Alive(p) /\ Alive(q) /\ fd_pointers[p][i] = fd_pointers[q][j] => p = q /\ i = j

CountInv == \A p \in Proc : Alive(p) => num_open_files[p] = Cardinality(Places(p))

(* What system_open and system_close tested before they waited for the lock  *)
(* is still true: only the process itself changes its table.                 *)
CallInv ==
  \A p \in Proc : pc[p] \in {"acquire", "inside"} =>
    /\ call[p].does = "open" => num_open_files[p] < MAX_FILES
    /\ call[p].does = "close" /\ call[p].pointer \in File =>
         call[p].fd - 2 \in Index /\ fd_pointers[p][call[p].fd - 2] = call[p].pointer

SInv == TypeOK /\ OpenInv /\ ApartInv /\ CountInv /\ CallInv
-----------------------------------------------------------------------------
(* The steps, one alternative for each way in which they change the tables.  *)

(* p goes on in a call, or returns, and no table changes. *)
Moves(p, l, c) ==
  /\ Alive(p) /\ l \in Label \ {"dead"}
  /\ c \in [does : Deed, pointer : File \cup {NULL, "wild"}, fd : Int]
  /\ l \in {"acquire", "inside"} =>
       /\ c.does = "open" => num_open_files[p] < MAX_FILES
       /\ c.does = "close" /\ c.pointer \in File =>
            c.fd - 2 \in Index /\ fd_pointers[p][c.fd - 2] = c.pointer
  /\ Goto(p, l) /\ call' = [call EXCEPT ![p] = c]
  /\ UNCHANGED <<table, opened>>

(* A file that was not open goes to an empty place. *)
Opens(p, i, f) ==
  /\ Alive(p) /\ fd_pointers[p][i] = NULL /\ f \notin opened
  /\ opened' = opened \cup {f}
  /\ fd_pointers' = [fd_pointers EXCEPT ![p][i] = f]
  /\ num_open_files' = [num_open_files EXCEPT ![p] = @ + 1]
  /\ Goto(p, "user") /\ call' = [call EXCEPT ![p] = NoCall]

(* The file at place i is closed. *)
Closes(p, i) ==
  /\ Alive(p) /\ fd_pointers[p][i] \in File
  /\ opened' = opened \ {fd_pointers[p][i]}
  /\ fd_pointers' = [fd_pointers EXCEPT ![p][i] = NULL]
  /\ num_open_files' = [num_open_files EXCEPT ![p] = @ - 1]
  /\ Goto(p, "user") /\ call' = [call EXCEPT ![p] = NoCall]

(* p ends, and all its files are closed. *)
Ends(p) ==
  /\ Alive(p)
  /\ opened' = opened \ {fd_pointers[p][i] : i \in Places(p)}
  /\ \E n \in Int : num_open_files' = [num_open_files EXCEPT ![p] = n]
  /\ Goto(p, "dead") /\ call' = [call EXCEPT ![p] = NoCall]
  /\ UNCHANGED fd_pointers

(* A new process with an empty table. *)
Starts(p) ==
  /\ pc[p] = "dead"
  /\ fd_pointers' = [fd_pointers EXCEPT ![p] = [i \in Index |-> NULL]]
  /\ num_open_files' = [num_open_files EXCEPT ![p] = 0]
  /\ Goto(p, "user") /\ call' = [call EXCEPT ![p] = NoCall]
  /\ UNCHANGED opened

Alternatives(p) ==
  \/ \E l \in Label : \E c \in [does : Deed, pointer : File \cup {NULL, "wild"}, fd : Int] : Moves(p, l, c)
  \/ \E i \in Index, f \in File : Opens(p, i, f)
  \/ \E i \in Index : Closes(p, i)
  \/ Ends(p) \/ Starts(p)
-----------------------------------------------------------------------------
(* The places of a table are finitely many, and a table is full only when    *)
(* they are MAX_FILES.                                                       *)
LEMMA PlacesFinite ==
  ASSUME SyscallConstants, NEW p \in Proc
  PROVE  /\ IsFiniteSet(Places(p)) /\ Cardinality(Places(p)) \in Nat
         /\ Cardinality(Places(p)) <= MAX_FILES
         /\ Cardinality(Places(p)) < MAX_FILES => \E i \in Index : fd_pointers[p][i] = NULL
  <1>1. MAX_FILES \in Nat
    BY Zenon DEF SyscallConstants
  <1>2. IsFiniteSet(Index) /\ Cardinality(Index) = MAX_FILES
    <2>1. IsFiniteSet(0 .. MAX_FILES - 1)
          /\ Cardinality(0 .. MAX_FILES - 1) = IF 0 > MAX_FILES - 1 THEN 0 ELSE MAX_FILES - 1 - 0 + 1
      BY <1>1, FS_Interval
    <2>2. QED
      BY <1>1, <2>1 DEF Index
  <1>3. Places(p) \in SUBSET Index
    BY Zenon DEF Places
  <1>4. /\ IsFiniteSet(Places(p)) /\ Cardinality(Places(p)) <= MAX_FILES
        /\ Cardinality(Index) = Cardinality(Places(p)) => Index = Places(p)
    BY <1>2, <1>3, FS_Subset, Zenon
  <1>5. Cardinality(Places(p)) \in Nat
    BY <1>4, FS_CardinalityType, Zenon
  <1>6. ASSUME Cardinality(Places(p)) < MAX_FILES PROVE \E i \in Index : fd_pointers[p][i] = NULL
    <2>1. Places(p) # Index
      BY <1>2, <1>5, <1>6, <1>1
    <2>2. QED
      BY <2>1, Zenon DEF Places
  <1>7. QED
    BY <1>4, <1>5, <1>6, Zenon

LEMMA InitSInv == ASSUME SyscallConstants, Init PROVE SInv
  <1>1. TypeOK
    BY DEF Init, TypeOK, NoCall, Label, Deed
  <1>2. \A p \in Proc : Places(p) = {}
    BY Zenon DEF Init, Places
  <1>3. OpenInv /\ ApartInv
    BY <1>2, Zenon DEF Init, OpenInv, ApartInv
  <1>4. CountInv
    BY <1>2, FS_EmptySet, Zenon DEF Init, CountInv
  <1>5. CallInv
    BY DEF Init, CallInv
  <1>6. QED
    BY <1>1, <1>3, <1>4, <1>5, Zenon DEF SInv

(* What a step of p leaves of the other processes. *)
LEMMA OthersKept ==
  ASSUME TypeOK, NEW p \in Proc, Alternatives(p), NEW q \in Proc, q # p
  PROVE  /\ pc'[q] = pc[q] /\ call'[q] = call[q] /\ num_open_files'[q] = num_open_files[q]
         /\ fd_pointers'[q] = fd_pointers[q] /\ Places(q)' = Places(q) /\ Alive(q)' = Alive(q)
  <1>1. /\ pc'[q] = pc[q] /\ call'[q] = call[q] /\ num_open_files'[q] = num_open_files[q]
        /\ fd_pointers'[q] = fd_pointers[q]
    BY DEF TypeOK, Alternatives, Moves, Opens, Closes, Ends, Starts, Goto, table
  <1>2. QED
    BY <1>1, Zenon DEF Places, Alive

LEMMA MovesInv ==
  ASSUME SyscallConstants, SInv, NEW p \in Proc, NEW l \in Label,
         NEW c \in [does : Deed, pointer : File \cup {NULL, "wild"}, fd : Int], Moves(p, l, c)
  PROVE  SInv'
  <1>1. TypeOK'
    BY DEF SInv, TypeOK, Moves, Goto, table
  <1>2. /\ pc'[p] = l /\ call'[p] = c /\ l # "dead" /\ Alive(p)
        /\ \A q \in Proc : q # p => pc'[q] = pc[q] /\ call'[q] = call[q]
    BY DEF SInv, TypeOK, Moves, Goto
  <1>3. fd_pointers' = fd_pointers /\ num_open_files' = num_open_files /\ opened' = opened
    BY Zenon DEF Moves, table
  <1>4. \A q \in Proc : Places(q)' = Places(q) /\ Alive(q)' = Alive(q)
    BY <1>2, <1>3, Zenon DEF Places, Alive
  <1>5. OpenInv' /\ ApartInv'
    <2>1. OpenInv'
      BY <1>3, <1>4, Zenon DEF SInv, OpenInv
    <2>2. ApartInv'
      <3> SUFFICES ASSUME NEW q \in Proc, NEW r \in Proc, Alive(q)', Alive(r)',
                          NEW j \in Places(q)', NEW k \in Places(r)', fd_pointers'[q][j] = fd_pointers'[r][k]
                   PROVE  q = r /\ j = k
        BY Zenon DEF ApartInv
      <3>1. Alive(q) /\ Alive(r) /\ j \in Places(q) /\ k \in Places(r) /\ fd_pointers[q][j] = fd_pointers[r][k]
        BY <1>3, <1>4, Zenon
      <3>2. QED
        BY <3>1, Zenon DEF SInv, ApartInv
    <2>3. QED
      BY <2>1, <2>2, Zenon
  <1>6. CountInv'
    BY <1>3, <1>4, Zenon DEF SInv, CountInv
  <1>7. CallInv'
    <2> SUFFICES ASSUME NEW q \in Proc, pc'[q] \in {"acquire", "inside"}
                 PROVE  /\ call'[q].does = "open" => num_open_files[q] < MAX_FILES
                        /\ call'[q].does = "close" /\ call'[q].pointer \in File =>
                             /\ call'[q].fd - 2 \in Index
                             /\ fd_pointers[q][call'[q].fd - 2] = call'[q].pointer
      BY <1>3 DEF CallInv, Index
    <2>1. CASE q = p
      BY <1>2, <2>1 DEF Moves
    <2>2. CASE q # p
      BY <1>2, <2>2 DEF SInv, CallInv
    <2>3. QED
      BY <2>1, <2>2, Zenon
  <1>8. QED
    BY <1>1, <1>5, <1>6, <1>7, Zenon DEF SInv

LEMMA OpensInv ==
  ASSUME SyscallConstants, SInv, NEW p \in Proc, NEW i \in Index, NEW f \in File, Opens(p, i, f)
  PROVE  SInv'
  <1>1. TypeOK'
    BY DEF SInv, TypeOK, Opens, Goto, NoCall, Label, Deed
  <1>2. /\ fd_pointers'[p] = [fd_pointers[p] EXCEPT ![i] = f] /\ num_open_files'[p] = num_open_files[p] + 1
        /\ pc'[p] = "user" /\ Alive(p) /\ Alive(p)' /\ opened' = opened \cup {f}
    BY DEF SInv, TypeOK, Opens, Goto, Alive
  <1>3. \A q \in Proc : q # p =>
          /\ fd_pointers'[q] = fd_pointers[q] /\ Places(q)' = Places(q) /\ Alive(q)' = Alive(q)
          /\ num_open_files'[q] = num_open_files[q] /\ pc'[q] = pc[q] /\ call'[q] = call[q]
    BY OthersKept, Zenon DEF SInv, Alternatives
  <1>4. f # NULL /\ f \notin opened /\ i \notin Places(p)
    BY DEF SyscallConstants, Opens, Places
  <1>5. fd_pointers'[p][i] = f /\ \A j \in Index : j # i => fd_pointers'[p][j] = fd_pointers[p][j]
    BY <1>2 DEF SInv, TypeOK
  <1>6. Places(p)' = Places(p) \cup {i}
    <2>1. Places(p)' = {j \in Index : fd_pointers'[p][j] # NULL}
      BY DEF Places, Index
    <2>2. QED
      BY <1>4, <1>5, <2>1 DEF Places
  <1>7. OpenInv'
    <2>1. ASSUME NEW g \in opened' PROVE \E q \in Proc : \E j \in Places(q)' : Alive(q)' /\ fd_pointers'[q][j] = g
      <3>1. CASE g = f
        BY <1>2, <1>5, <1>6, <3>1, Zenon
      <3>2. CASE g \in opened
        <4>0. PICK q \in Proc : \E j \in Places(q) : Alive(q) /\ fd_pointers[q][j] = g
          BY <3>2, Zenon DEF SInv, OpenInv
        <4>1. PICK j \in Places(q) : Alive(q) /\ fd_pointers[q][j] = g
          BY <4>0, Zenon
        <4>2. CASE q = p
          BY <1>2, <1>4, <1>5, <1>6, <4>1, <4>2, Zenon DEF Places
        <4>3. CASE q # p
          BY <1>3, <4>1, <4>3, Zenon
        <4>4. QED
          BY <4>2, <4>3, Zenon
      <3>3. QED
        BY <1>2, <2>1, <3>1, <3>2, Zenon
    <2>2. ASSUME NEW q \in Proc, Alive(q)', NEW j \in Places(q)' PROVE fd_pointers'[q][j] \in opened'
      <3>1. CASE q = p
        BY <1>2, <1>4, <1>5, <1>6, <2>2, <3>1, Zenon DEF SInv, OpenInv, Places
      <3>2. CASE q # p
        BY <1>2, <1>3, <2>2, <3>2, Zenon DEF SInv, OpenInv
      <3>3. QED
        BY <3>1, <3>2, Zenon
    <2>3. QED
      BY <2>1, <2>2, Zenon DEF OpenInv
  <1>8. ApartInv'
    <2> SUFFICES ASSUME NEW q \in Proc, NEW r \in Proc, Alive(q)', Alive(r)',
                        NEW j \in Places(q)', NEW k \in Places(r)', fd_pointers'[q][j] = fd_pointers'[r][k]
                 PROVE  q = r /\ j = k
      BY Zenon DEF ApartInv
    <2>1. ASSUME NEW x \in Proc, NEW y \in Places(x)', Alive(x)', x # p \/ y # i
          PROVE  Alive(x) /\ y \in Places(x) /\ fd_pointers'[x][y] = fd_pointers[x][y] /\ fd_pointers'[x][y] # f
      <3>1. Alive(x) /\ y \in Places(x) /\ fd_pointers'[x][y] = fd_pointers[x][y]
        <4>1. CASE x = p
          BY <1>2, <1>5, <1>6, <2>1, <4>1, Zenon DEF Places
        <4>2. CASE x # p
          BY <1>3, <2>1, <4>2, Zenon
        <4>3. QED
          BY <4>1, <4>2, Zenon
      <3>2. QED
        BY <1>4, <3>1, Zenon DEF SInv, OpenInv
    <2>2. CASE (q = p /\ j = i) /\ (r = p /\ k = i)
      BY <2>2, Zenon
    <2>3. CASE (q = p /\ j = i) /\ (r # p \/ k # i)
      BY <1>5, <2>1, <2>3, Zenon
    <2>4. CASE (q # p \/ j # i) /\ (r = p /\ k = i)
      BY <1>5, <2>1, <2>4, Zenon
    <2>5. CASE (q # p \/ j # i) /\ (r # p \/ k # i)
      <3>1. Alive(q) /\ j \in Places(q) /\ fd_pointers'[q][j] = fd_pointers[q][j]
        BY <2>1, <2>5, Zenon
      <3>2. Alive(r) /\ k \in Places(r) /\ fd_pointers'[r][k] = fd_pointers[r][k]
        BY <2>1, <2>5, Zenon
      <3>3. QED
        BY <3>1, <3>2, Zenon DEF SInv, ApartInv
    <2>6. QED
      BY <2>2, <2>3, <2>4, <2>5, Zenon
  <1>9. CountInv'
    <2>1. num_open_files'[p] = Cardinality(Places(p)')
      <3>1. IsFiniteSet(Places(p))
        BY PlacesFinite, Zenon
      <3>2. Cardinality(Places(p) \cup {i}) = Cardinality(Places(p)) + 1
        BY <1>4, <3>1, FS_AddElement, Zenon
      <3>3. num_open_files[p] = Cardinality(Places(p))
        BY <1>2, Zenon DEF SInv, CountInv
      <3>4. QED
        BY <1>2, <1>6, <3>2, <3>3, Zenon
    <2>2. QED
      BY <1>3, <2>1, Zenon DEF SInv, CountInv
  <1>10. CallInv'
    BY <1>2, <1>3 DEF SInv, CallInv, Index
  <1>11. QED
    BY <1>1, <1>7, <1>8, <1>9, <1>10, Zenon DEF SInv

LEMMA ClosesInv ==
  ASSUME SyscallConstants, SInv, NEW p \in Proc, NEW i \in Index, Closes(p, i)
  PROVE  SInv'
  <1>1. TypeOK'
    BY DEF SInv, TypeOK, Closes, Goto, NoCall, Label, Deed
  <1>2. /\ fd_pointers'[p] = [fd_pointers[p] EXCEPT ![i] = NULL] /\ num_open_files'[p] = num_open_files[p] - 1
        /\ pc'[p] = "user" /\ Alive(p) /\ Alive(p)' /\ opened' = opened \ {fd_pointers[p][i]}
    BY DEF SInv, TypeOK, Closes, Goto, Alive
  <1>3. \A q \in Proc : q # p =>
          /\ fd_pointers'[q] = fd_pointers[q] /\ Places(q)' = Places(q) /\ Alive(q)' = Alive(q)
          /\ num_open_files'[q] = num_open_files[q] /\ pc'[q] = pc[q] /\ call'[q] = call[q]
    BY OthersKept, Zenon DEF SInv, Alternatives
  <1>4. i \in Places(p)
    BY DEF SyscallConstants, Closes, Places
  <1>5. fd_pointers'[p][i] = NULL /\ \A j \in Index : j # i => fd_pointers'[p][j] = fd_pointers[p][j]
    BY <1>2 DEF SInv, TypeOK
  <1>6. Places(p)' = Places(p) \ {i}
    <2>1. Places(p)' = {j \in Index : fd_pointers'[p][j] # NULL}
      BY DEF Places, Index
    <2>2. QED
      BY <1>5, <2>1 DEF Places
  <1>7. ASSUME NEW q \in Proc, NEW j \in Places(q)', Alive(q)'
        PROVE  Alive(q) /\ j \in Places(q) /\ fd_pointers'[q][j] = fd_pointers[q][j] /\ (q # p \/ j # i)
    <2>1. CASE q = p
      BY <1>2, <1>5, <1>6, <1>7, <2>1, Zenon DEF Places
    <2>2. CASE q # p
      BY <1>3, <1>7, <2>2, Zenon
    <2>3. QED
      BY <2>1, <2>2, Zenon
  <1>8. OpenInv'
    <2>1. ASSUME NEW g \in opened' PROVE \E q \in Proc : \E j \in Places(q)' : Alive(q)' /\ fd_pointers'[q][j] = g
      <3>0. PICK q \in Proc : \E j \in Places(q) : Alive(q) /\ fd_pointers[q][j] = g
        BY <1>2, <2>1, Zenon DEF SInv, OpenInv
      <3>1. PICK j \in Places(q) : Alive(q) /\ fd_pointers[q][j] = g
        BY <3>0, Zenon
      <3>2. q # p \/ j # i
        BY <1>2, <2>1, <3>1, Zenon
      <3>3. CASE q = p
        BY <1>2, <1>5, <1>6, <3>1, <3>2, <3>3, Zenon DEF Places
      <3>4. CASE q # p
        BY <1>3, <3>1, <3>4, Zenon
      <3>5. QED
        BY <3>3, <3>4, Zenon
    <2>2. ASSUME NEW q \in Proc, Alive(q)', NEW j \in Places(q)' PROVE fd_pointers'[q][j] \in opened'
      <3>1. Alive(q) /\ j \in Places(q) /\ fd_pointers'[q][j] = fd_pointers[q][j] /\ (q # p \/ j # i)
        BY <1>7, <2>2, Zenon
      <3>2. fd_pointers[q][j] \in opened
        BY <3>1, Zenon DEF SInv, OpenInv
      <3>3. fd_pointers[q][j] # fd_pointers[p][i]
        BY <1>2, <1>4, <3>1, Zenon DEF SInv, ApartInv
      <3>4. QED
        BY <1>2, <3>1, <3>2, <3>3, Zenon
    <2>3. QED
      BY <2>1, <2>2, Zenon DEF OpenInv
  <1>9. ApartInv'
    <2> SUFFICES ASSUME NEW q \in Proc, NEW r \in Proc, Alive(q)', Alive(r)',
                        NEW j \in Places(q)', NEW k \in Places(r)', fd_pointers'[q][j] = fd_pointers'[r][k]
                 PROVE  q = r /\ j = k
      BY Zenon DEF ApartInv
    <2>1. Alive(q) /\ j \in Places(q) /\ fd_pointers'[q][j] = fd_pointers[q][j]
      BY <1>7, Zenon
    <2>2. Alive(r) /\ k \in Places(r) /\ fd_pointers'[r][k] = fd_pointers[r][k]
      BY <1>7, Zenon
    <2>3. QED
      BY <2>1, <2>2, Zenon DEF SInv, ApartInv
  <1>10. CountInv'
    <2>1. num_open_files'[p] = Cardinality(Places(p)')
      <3>1. IsFiniteSet(Places(p))
        BY PlacesFinite, Zenon
      <3>2. Cardinality(Places(p) \ {i}) = Cardinality(Places(p)) - 1
        BY <1>4, <3>1, FS_RemoveElement, Zenon
      <3>3. num_open_files[p] = Cardinality(Places(p))
        BY <1>2, Zenon DEF SInv, CountInv
      <3>4. QED
        BY <1>2, <1>6, <3>2, <3>3, Zenon
    <2>2. QED
      BY <1>3, <2>1, Zenon DEF SInv, CountInv
  <1>11. CallInv'
    BY <1>2, <1>3 DEF SInv, CallInv, Index
  <1>12. QED
    BY <1>1, <1>8, <1>9, <1>10, <1>11, Zenon DEF SInv

LEMMA EndsInv ==
  ASSUME SyscallConstants, SInv, NEW p \in Proc, Ends(p)
  PROVE  SInv'
  <1>1. TypeOK'
    BY DEF SInv, TypeOK, Ends, Goto, NoCall, Label, Deed
  <1>2. /\ fd_pointers' = fd_pointers /\ pc'[p] = "dead" /\ Alive(p) /\ ~ Alive(p)'
        /\ opened' = opened \ {fd_pointers[p][i] : i \in Places(p)}
    BY DEF SInv, TypeOK, Ends, Goto, Alive
  <1>3. \A q \in Proc : q # p =>
          /\ Places(q)' = Places(q) /\ Alive(q)' = Alive(q)
          /\ num_open_files'[q] = num_open_files[q] /\ pc'[q] = pc[q] /\ call'[q] = call[q]
    BY OthersKept, Zenon DEF SInv, Alternatives
  <1>4. OpenInv'
    <2>1. ASSUME NEW g \in opened' PROVE \E q \in Proc : \E j \in Places(q)' : Alive(q)' /\ fd_pointers'[q][j] = g
      <3>1. PICK q \in Proc : \E j \in Places(q) : Alive(q) /\ fd_pointers[q][j] = g
        BY <1>2, <2>1, Zenon DEF SInv, OpenInv
      <3>2. q # p
        BY <1>2, <2>1, <3>1, Zenon
      <3>3. QED
        BY <1>2, <1>3, <3>1, <3>2, Zenon
    <2>2. ASSUME NEW q \in Proc, Alive(q)', NEW j \in Places(q)' PROVE fd_pointers'[q][j] \in opened'
      <3>1. q # p /\ Alive(q) /\ j \in Places(q)
        BY <1>2, <1>3, <2>2, Zenon
      <3>2. \A i \in Places(p) : fd_pointers[q][j] # fd_pointers[p][i]
        BY <1>2, <3>1, Zenon DEF SInv, ApartInv
      <3>3. QED
        BY <1>2, <3>1, <3>2, Zenon DEF SInv, OpenInv
    <2>3. QED
      BY <2>1, <2>2, Zenon DEF OpenInv
  <1>5. ApartInv'
    <2> SUFFICES ASSUME NEW q \in Proc, NEW r \in Proc, Alive(q)', Alive(r)',
                        NEW j \in Places(q)', NEW k \in Places(r)', fd_pointers'[q][j] = fd_pointers'[r][k]
                 PROVE  q = r /\ j = k
      BY Zenon DEF ApartInv
    <2>1. Alive(q) /\ Alive(r) /\ j \in Places(q) /\ k \in Places(r) /\ fd_pointers[q][j] = fd_pointers[r][k]
      BY <1>2, <1>3, Zenon
    <2>2. QED
      BY <2>1, Zenon DEF SInv, ApartInv
  <1>6. CountInv'
    BY <1>2, <1>3, Zenon DEF SInv, CountInv
  <1>7. CallInv'
    BY <1>2, <1>3 DEF SInv, CallInv, Index
  <1>8. QED
    BY <1>1, <1>4, <1>5, <1>6, <1>7, Zenon DEF SInv

LEMMA StartsInv ==
  ASSUME SyscallConstants, SInv, NEW p \in Proc, Starts(p)
  PROVE  SInv'
  <1>1. TypeOK'
    BY DEF SInv, TypeOK, Starts, Goto, NoCall, Label, Deed
  <1>2. /\ fd_pointers'[p] = [i \in Index |-> NULL] /\ num_open_files'[p] = 0
        /\ pc'[p] = "user" /\ ~ Alive(p) /\ opened' = opened
    BY DEF SInv, TypeOK, Starts, Goto, Alive
  <1>3. \A q \in Proc : q # p =>
          /\ fd_pointers'[q] = fd_pointers[q] /\ Places(q)' = Places(q) /\ Alive(q)' = Alive(q)
          /\ num_open_files'[q] = num_open_files[q] /\ pc'[q] = pc[q] /\ call'[q] = call[q]
    BY OthersKept, Zenon DEF SInv, Alternatives
  <1>4. Places(p)' = {}
    <2>1. Places(p)' = {j \in Index : fd_pointers'[p][j] # NULL}
      BY DEF Places, Index
    <2>2. QED
      BY <1>2, <2>1
  <1>5. OpenInv'
    <2>1. ASSUME NEW g \in opened' PROVE \E q \in Proc : \E j \in Places(q)' : Alive(q)' /\ fd_pointers'[q][j] = g
      <3>1. PICK q \in Proc : \E j \in Places(q) : Alive(q) /\ fd_pointers[q][j] = g
        BY <1>2, <2>1, Zenon DEF SInv, OpenInv
      <3>2. q # p
        BY <1>2, <3>1, Zenon
      <3>3. QED
        BY <1>3, <3>1, <3>2, Zenon
    <2>2. ASSUME NEW q \in Proc, Alive(q)', NEW j \in Places(q)' PROVE fd_pointers'[q][j] \in opened'
      BY <1>2, <1>3, <1>4, <2>2, Zenon DEF SInv, OpenInv
    <2>3. QED
      BY <2>1, <2>2, Zenon DEF OpenInv
  <1>6. ApartInv'
    <2> SUFFICES ASSUME NEW q \in Proc, NEW r \in Proc, Alive(q)', Alive(r)',
                        NEW j \in Places(q)', NEW k \in Places(r)', fd_pointers'[q][j] = fd_pointers'[r][k]
                 PROVE  q = r /\ j = k
      BY Zenon DEF ApartInv
    <2>1. q # p /\ r # p
      BY <1>4, Zenon
    <2>2. Alive(q) /\ Alive(r) /\ j \in Places(q) /\ k \in Places(r) /\ fd_pointers[q][j] = fd_pointers[r][k]
      BY <1>3, <2>1, Zenon
    <2>3. QED
      BY <2>2, Zenon DEF SInv, ApartInv
  <1>7. CountInv'
    BY <1>2, <1>3, <1>4, FS_EmptySet, Zenon DEF SInv, CountInv
  <1>8. CallInv'
    BY <1>2, <1>3 DEF SInv, CallInv, Index
  <1>9. QED
    BY <1>1, <1>5, <1>6, <1>7, <1>8, Zenon DEF SInv
-----------------------------------------------------------------------------
(* What the actions are. *)

LEMMA NoCallType == NoCall \in [does : Deed, pointer : File \cup {NULL, "wild"}, fd : Int]
  BY DEF NoCall, Deed

(* A call that returns, and changes no table. *)
LEMMA ReturnMoves ==
  ASSUME NEW p \in Proc, pc[p] \in {"user", "inside"}, Return(p), UNCHANGED <<table, opened>>
  PROVE  Alternatives(p)
  <1>1. Moves(p, "user", NoCall)
    BY NoCallType DEF Return, Moves, Alive, Label
  <1>2. "user" \in Label
    BY DEF Label
  <1>3. QED
    BY <1>1, <1>2, NoCallType, Zenon DEF Alternatives

(* A call that goes on to filesys_lock. *)
LEMMA AcquireMoves ==
  ASSUME NEW p \in Proc, NEW does \in Deed, NEW pointer \in File \cup {NULL, "wild"}, NEW fd \in Int,
         does = "open" => num_open_files[p] < MAX_FILES,
         does = "close" /\ pointer \in File => fd - 2 \in Index /\ fd_pointers[p][fd - 2] = pointer,
         Acquire(p, does, pointer, fd)
  PROVE  Alternatives(p)
  <1> DEFINE c == [does |-> does, pointer |-> pointer, fd |-> fd]
  <1>1. c \in [does : Deed, pointer : File \cup {NULL, "wild"}, fd : Int]
    OBVIOUS
  <1>2. Moves(p, "acquire", c)
    BY DEF Acquire, Moves, Alive, Label
  <1>3. "acquire" \in Label
    BY DEF Label
  <1>4. QED
    BY <1>1, <1>2, <1>3, Zenon DEF Alternatives

(* A call on a descriptor.  A place of the table that holds a struct file is *)
(* where system_close will find it; a wild pointer is none.                  *)
LEMMA DescriptorMoves ==
  ASSUME SyscallConstants, SInv, NEW p \in Proc, NEW does \in {"other", "copy", "badseek", "close"},
         NEW fd \in Descriptor, OnDescriptor(p, does, fd)
  PROVE  Alternatives(p)
  <1>1. MAX_FILES \in Nat /\ fd \in Int /\ {NULL, "wild"} \cap File = {}
    BY DEF SyscallConstants, Descriptor
  <1>2. CASE Acquire(p, does, Pointer(p, fd), IF does = "close" THEN fd ELSE 0)
    <2>1. /\ Pointer(p, fd) \in File \cup {NULL, "wild"}
          /\ Pointer(p, fd) \in File => fd - 2 \in Index /\ fd_pointers[p][fd - 2] = Pointer(p, fd)
      BY <1>1 DEF SInv, TypeOK, Pointer
    <2>2. does \in Deed /\ does # "open" /\ (IF does = "close" THEN fd ELSE 0) \in Int
      BY <1>1 DEF Deed
    <2>3. PICK x : x = Pointer(p, fd)
      OBVIOUS
    <2>4. PICK y \in Int : y = IF does = "close" THEN fd ELSE 0
      BY <2>2
    <2>5. Acquire(p, does, x, y)
      BY <1>2, <2>3, <2>4, Zenon
    <2>6. /\ x \in File \cup {NULL, "wild"}
          /\ does = "close" /\ x \in File => y - 2 \in Index /\ fd_pointers[p][y - 2] = x
      BY <2>1, <2>3, <2>4
    <2>7. QED
      BY <2>2, <2>5, <2>6, AcquireMoves, Zenon
  <1>3. CASE pc[p] = "user" /\ Return(p) /\ UNCHANGED <<table, opened, lock>>
    BY <1>3, ReturnMoves, Zenon
  <1>4. QED
    BY <1>2, <1>3, Zenon DEF OnDescriptor

(* system_open tested that a place is free, so that the file finds one. *)
LEMMA OpenFileOpens ==
  ASSUME SyscallConstants, SInv, NEW p \in Proc, OpenFile(p)
  PROVE  Alternatives(p)
  <1>1. pc[p] = "inside" /\ call[p].does = "open" /\ Return(p)
    BY Zenon DEF OpenFile
  <1>2. CASE UNCHANGED <<table, opened>>
    BY <1>1, <1>2, ReturnMoves, Zenon
  <1>3. CASE ~ UNCHANGED <<table, opened>>
    <2> DEFINE f == CHOOSE x \in File : x \notin opened
               free == {i \in Index : fd_pointers[p][i] = NULL}
    <2>1. /\ File \ opened # {} /\ opened' = opened \cup {f}
          /\ \/ free = {}
             \/ \E i \in free : /\ fd_pointers' = [fd_pointers EXCEPT ![p][i] = f]
                               /\ num_open_files' = [num_open_files EXCEPT ![p] = @ + 1]
      BY <1>3, Zenon DEF OpenFile
    <2>2. PICK g : g = f
      OBVIOUS
    <2>3. g \in File /\ g \notin opened
      BY <2>1, <2>2
    <2>4. free # {}
      <3>1. num_open_files[p] < MAX_FILES
        BY <1>1, Zenon DEF SInv, CallInv
      <3>2. num_open_files[p] = Cardinality(Places(p))
        BY <1>1 DEF SInv, CountInv, Alive
      <3>3. QED
        BY <3>1, <3>2, PlacesFinite, Zenon
    <2>5. PICK i \in free : /\ fd_pointers' = [fd_pointers EXCEPT ![p][i] = g]
                            /\ num_open_files' = [num_open_files EXCEPT ![p] = @ + 1]
      BY <2>1, <2>2, <2>4, Zenon
    <2>6. Opens(p, i, g)
      BY <1>1, <2>1, <2>2, <2>3, <2>5 DEF Opens, Return, Alive
    <2>7. QED
      BY <2>3, <2>6, Zenon DEF Alternatives
  <1>4. QED
    BY <1>2, <1>3, Zenon

LEMMA CloseFileCloses ==
  ASSUME SInv, NEW p \in Proc, CloseFile(p)
  PROVE  Alternatives(p)
  <1>1. PICK i \in Index : i = call[p].fd - 2 /\ fd_pointers[p][i] = call[p].pointer
    BY DEF SInv, CallInv, CloseFile
  <1>2. /\ pc[p] = "inside" /\ call[p].pointer \in File /\ Return(p)
        /\ opened' = opened \ {call[p].pointer}
        /\ num_open_files' = [num_open_files EXCEPT ![p] = @ - 1]
        /\ fd_pointers' = [fd_pointers EXCEPT ![p][i] = NULL]
    BY <1>1, Zenon DEF CloseFile
  <1>3. Closes(p, i)
    BY <1>1, <1>2 DEF Closes, Return, Alive
  <1>4. QED
    BY <1>3, Zenon DEF Alternatives

(* A thread that goes on where it is, in the same call. *)
LEMMA GoesOn ==
  ASSUME SInv, NEW p \in Proc, pc[p] \in {"acquire", "inside"}, NEW l \in {"acquire", "inside", "exit"},
         Goto(p, l), UNCHANGED <<call, table, opened>>
  PROVE  Alternatives(p)
  <1>1. PICK c \in [does : Deed, pointer : File \cup {NULL, "wild"}, fd : Int] : c = call[p]
    BY DEF SInv, TypeOK
  <1>2. call' = [call EXCEPT ![p] = c]
    BY <1>1 DEF SInv, TypeOK
  <1>3. /\ c.does = "open" => num_open_files[p] < MAX_FILES
        /\ c.does = "close" /\ c.pointer \in File =>
             c.fd - 2 \in Index /\ fd_pointers[p][c.fd - 2] = c.pointer
    BY <1>1 DEF SInv, CallInv
  <1>4. l \in Label /\ l # "dead" /\ Alive(p)
    BY DEF Label, Alive
  <1>5. Moves(p, l, c)
    BY <1>2, <1>3, <1>4 DEF Moves
  <1>6. QED
    BY <1>4, <1>5, Zenon DEF Alternatives

(* The loop of thread_exit closes every file: the count does not end it      *)
(* before the last one.                                                      *)
LEMMA CloseAllEnds ==
  ASSUME SyscallConstants, SInv, NEW p \in Proc, CloseAll(p)
  PROVE  Alternatives(p)
  <1> DEFINE closed == {i \in Places(p) : Cardinality({j \in Places(p) : j < i}) < num_open_files[p]}
  <1>1. /\ pc[p] = "exit"
        /\ opened' = opened \ {fd_pointers[p][i] : i \in closed}
        /\ num_open_files' = [num_open_files EXCEPT ![p] = @ - Cardinality(closed)]
        /\ Goto(p, "dead") /\ call' = [call EXCEPT ![p] = NoCall] /\ UNCHANGED fd_pointers
    BY Zenon DEF CloseAll, Places
  <1>2. IsFiniteSet(Places(p)) /\ Cardinality(Places(p)) \in Nat /\ num_open_files[p] = Cardinality(Places(p))
    BY <1>1, PlacesFinite DEF SInv, CountInv, Alive
  <1>3. ASSUME NEW i \in Places(p) PROVE Cardinality({j \in Places(p) : j < i}) < num_open_files[p]
    <2> DEFINE lower == {j \in Places(p) : j < i}
    <2>1. lower \in SUBSET Places(p) /\ lower # Places(p)
      <3>1. i \in Int /\ ~ (i < i)
        BY DEF Places, Index
      <3>2. QED
        BY <3>1, Zenon
    <2>2. /\ IsFiniteSet(lower) /\ Cardinality(lower) <= Cardinality(Places(p))
          /\ Cardinality(Places(p)) # Cardinality(lower)
      BY <1>2, <2>1, FS_Subset, Zenon
    <2>3. Cardinality(lower) \in Nat
      BY <2>2, FS_CardinalityType, Zenon
    <2> HIDE DEF lower
    <2>4. Cardinality(lower) < num_open_files[p]
      BY <1>2, <2>2, <2>3
    <2>5. QED
      BY <2>4, Zenon DEF lower
  <1>4. closed = Places(p)
    BY <1>3, Zenon
  <1>5. num_open_files[p] - Cardinality(closed) \in Int
    <2>1. \A n \in Nat : n - n \in Int
      OBVIOUS
    <2>2. QED
      BY <1>2, <1>4, <2>1, Zenon
  <1>6. \E n \in Int : num_open_files' = [num_open_files EXCEPT ![p] = n]
    BY <1>1, <1>5, Zenon
  <1>7. opened' = opened \ {fd_pointers[p][i] : i \in Places(p)}
    BY <1>1, <1>4, Zenon
  <1>8. Ends(p)
    BY <1>1, <1>6, <1>7 DEF Ends, Alive
  <1>9. QED
    BY <1>8, Zenon DEF Alternatives

LEMMA HandlerMoves ==
  ASSUME SyscallConstants, SInv, NEW p \in Proc, Handler(p)
  PROVE  Alternatives(p)
  <1>1. {"name", "open"} \subseteq Deed /\ "name" # "open" /\ "name" # "close" /\ "open" # "close"
        /\ NULL \in File \cup {NULL, "wild"} /\ 0 \in Int
    BY DEF Deed
  <1>2. CASE system_remove(p)
    BY <1>1, <1>2, AcquireMoves, Zenon DEF system_remove
  <1>7. ASSUME NEW size \in {-1, 0}, system_create(p, size)
        PROVE  Alternatives(p)
    <2>1. "badcreate" \in Deed /\ "badcreate" # "open" /\ "badcreate" # "close"
      BY DEF Deed
    <2>2. Acquire(p, "badcreate", NULL, 0) \/ Acquire(p, "name", NULL, 0)
      BY <1>7 DEF system_create
    <2>3. QED
      BY <1>1, <2>1, <2>2, AcquireMoves, Zenon
  <1>3. CASE system_open(p)
    <2>1. CASE num_open_files[p] < MAX_FILES /\ Acquire(p, "open", NULL, 0)
      BY <1>1, <2>1, AcquireMoves, Zenon
    <2>2. CASE pc[p] = "user" /\ Return(p) /\ UNCHANGED <<table, opened, lock>>
      BY <2>2, ReturnMoves, Zenon
    <2>3. QED
      BY <1>3, <2>1, <2>2, Zenon DEF system_open
  <1>4. CASE system_exit(p)
    <2>1. Moves(p, "exit", NoCall) /\ "exit" \in Label
      BY <1>4, NoCallType DEF system_exit, Moves, Alive, Label
    <2>2. QED
      BY <2>1, NoCallType, Zenon DEF Alternatives
  <1>5. ASSUME NEW fd \in Descriptor,
               \/ system_filesize(p, fd) \/ system_read(p, fd) \/ system_write(p, fd)
               \/ system_tell(p, fd) \/ system_close(p, fd)
               \/ \E position \in {-1, 0} : system_seek(p, fd, position)
        PROVE  Alternatives(p)
    <2>1. CASE pc[p] = "user" /\ Return(p) /\ UNCHANGED <<table, opened, lock>>
      BY <2>1, ReturnMoves, Zenon
    <2>2. CASE \E does \in {"other", "copy", "badseek", "close"} : OnDescriptor(p, does, fd)
      BY <2>2, DescriptorMoves, Zenon
    <2>3. CASE \E position \in {-1, 0} : system_seek(p, fd, position)
      <3>1. OnDescriptor(p, "badseek", fd) \/ OnDescriptor(p, "other", fd)
        BY <2>3 DEF system_seek
      <3>2. QED
        BY <2>2, <3>1, Zenon
    <2>4. QED
      BY <1>5, <2>1, <2>2, <2>3, Zenon DEF system_filesize, system_read, system_write, system_tell, system_close
  <1>6. QED
    BY <1>2, <1>3, <1>4, <1>5, <1>7, Zenon DEF Handler

LEMMA NextAlternatives ==
  ASSUME SyscallConstants, SInv, Next
  PROVE  \E p \in Proc : Alternatives(p)
  <1>1. PICK p \in Proc : OpenFile(p) \/ CloseFile(p) \/ UseFile(p) \/ Fault(p) \/ CloseAll(p) \/ Locked(p)
                          \/ FailedAssertion(p) \/ Handler(p) \/ Execute(p)
    BY Zenon DEF Next, Kernel, Take, Inside
  <1>2. CASE OpenFile(p) \/ CloseFile(p)
    BY <1>2, OpenFileOpens, CloseFileCloses, Zenon
  <1>3. CASE UseFile(p)
    BY <1>3, ReturnMoves, Zenon DEF UseFile
  <1>4. CASE Fault(p)
    BY <1>4, GoesOn, Zenon DEF Fault
  <1>5. CASE CloseAll(p)
    BY <1>5, CloseAllEnds, Zenon
  <1>6. CASE Locked(p)
    <2>1. CASE Goto(p, "inside")
      BY <1>6, <2>1, GoesOn, Zenon DEF Locked
    <2>2. CASE UNCHANGED pc
      <3>1. Goto(p, "acquire")
        BY <1>6, <2>2 DEF Locked, Goto, SInv, TypeOK
      <3>2. QED
        BY <1>6, <3>1, GoesOn, Zenon DEF Locked
    <2>3. QED
      BY <1>6, <2>1, <2>2, Zenon DEF Locked
  <1>7. CASE Handler(p)
    BY <1>7, HandlerMoves, Zenon
  <1>8. CASE Execute(p)
    <2>1. Starts(p)
      BY <1>8 DEF Execute, Return, Starts
    <2>2. QED
      BY <2>1, Zenon DEF Alternatives
  <1>9. CASE FailedAssertion(p)
    <2>1. Goto(p, "inside")
      BY <1>9 DEF FailedAssertion, Goto, SInv, TypeOK
    <2>2. QED
      BY <1>9, <2>1, GoesOn, Zenon DEF FailedAssertion
  <1>10. QED
    BY <1>1, <1>2, <1>3, <1>4, <1>5, <1>6, <1>7, <1>8, <1>9, Zenon

LEMMA NextSInv == ASSUME SyscallConstants, SInv, [Next]_vars PROVE SInv'
  <1>1. CASE Next
    <2>1. PICK p \in Proc : Alternatives(p)
      BY <1>1, NextAlternatives, Zenon
    <2>2. QED
      BY <2>1, MovesInv, OpensInv, ClosesInv, EndsInv, StartsInv, Zenon DEF Alternatives
  <1>2. CASE UNCHANGED vars
    <2>1. /\ UNCHANGED <<fd_pointers, num_open_files, opened, pc, call>>
      BY <1>2, Zenon DEF vars
    <2>2. TypeOK' /\ CallInv'
      BY <2>1, Zenon DEF SInv, TypeOK, CallInv
    <2>3. OpenInv' /\ CountInv'
      BY <2>1, Zenon DEF SInv, OpenInv, CountInv, Places, Alive
    <2>4. ApartInv'
      <3>1. \A p \in Proc : Places(p)' = Places(p) /\ Alive(p)' = Alive(p)
        BY <2>1, Zenon DEF Places, Alive
      <3> SUFFICES ASSUME NEW q \in Proc, NEW r \in Proc, Alive(q)', Alive(r)',
                          NEW j \in Places(q)', NEW k \in Places(r)', fd_pointers'[q][j] = fd_pointers'[r][k]
                   PROVE  q = r /\ j = k
        BY Zenon DEF ApartInv
      <3>2. Alive(q) /\ Alive(r) /\ j \in Places(q) /\ k \in Places(r) /\ fd_pointers[q][j] = fd_pointers[r][k]
        BY <2>1, <3>1, Zenon
      <3>3. QED
        BY <3>2, Zenon DEF SInv, ApartInv
    <2>5. QED
      BY <2>2, <2>3, <2>4, Zenon DEF SInv
  <1>3. QED
    BY <1>1, <1>2, Zenon

(* The inductive invariant holds in every state of the system calls on       *)
(* files.                                                                    *)
THEOREM SInvHolds ==
  ASSUME SyscallConstants
  PROVE  Spec => []SInv
  <1>1. Init => SInv
    BY InitSInv, Zenon
  <1>2. SInv /\ [Next]_vars => SInv'
    BY NextSInv, Zenon
  <1>3. QED
    BY <1>1, <1>2, PTL DEF Spec

(* Every open struct file is at exactly one place of one live process, every *)
(* such place holds an open file, and num_open_files counts the places: no   *)
(* file is closed twice, used after it was closed or left open, wherever in  *)
(* system_open, system_close or thread_exit a process ends.                  *)
THEOREM FilesOwnedHolds ==
  ASSUME SyscallConstants
  PROVE  Spec => []FilesOwned
  <1>1. SInv => FilesOwned
    <2> SUFFICES ASSUME SInv PROVE FilesOwned
      BY Zenon
    <2> DEFINE at == {a \in Proc \X Index : pc[a[1]] # "dead" /\ fd_pointers[a[1]][a[2]] # NULL}
               file == [a \in at |-> fd_pointers[a[1]][a[2]]]
    <2>1. ASSUME NEW a \in at
          PROVE  file[a] \in opened
      <3>1. a[1] \in Proc /\ a[2] \in Places(a[1]) /\ Alive(a[1])
        BY DEF Places, Alive
      <3>2. QED
        BY <3>1, Zenon DEF SInv, OpenInv
    <2>2. ASSUME NEW f \in opened PROVE \E a \in at : file[a] = f
      <3>1. PICK p \in Proc : \E i \in Places(p) : Alive(p) /\ fd_pointers[p][i] = f
        BY Zenon DEF SInv, OpenInv
      <3>2. PICK i \in Places(p) : Alive(p) /\ fd_pointers[p][i] = f
        BY <3>1, Zenon
      <3>3. <<p, i>> \in at /\ file[<<p, i>>] = f
        BY <3>2 DEF Places, Alive
      <3>4. QED
        BY <3>3, Zenon
    <2>3. ASSUME NEW a \in at, NEW b \in at, file[a] = file[b] PROVE a = b
      <3>1. PICK p \in Proc, i \in Index : a = <<p, i>> /\ Alive(p) /\ i \in Places(p)
        BY DEF Places, Alive
      <3>2. PICK q \in Proc, j \in Index : b = <<q, j>> /\ Alive(q) /\ j \in Places(q)
        BY DEF Places, Alive
      <3>3. fd_pointers[p][i] = fd_pointers[q][j]
        BY <2>3, <3>1, <3>2
      <3> HIDE DEF file, at
      <3>4. p = q /\ i = j
        BY <3>1, <3>2, <3>3, Zenon DEF SInv, ApartInv
      <3>5. QED
        BY <3>1, <3>2, <3>4, Zenon
    <2>4. IsFiniteSet(at)
      <3>1. IsFiniteSet(Proc) /\ MAX_FILES \in Nat
        BY Zenon DEF SyscallConstants
      <3>2. IsFiniteSet(Index)
        BY <3>1, FS_Interval DEF Index
      <3>3. IsFiniteSet(Proc \X Index)
        BY <3>1, <3>2, FS_Product, Zenon
      <3>4. QED
        BY <3>3, FS_Subset, Zenon
    <2>5. opened = {fd_pointers[a[1]][a[2]] : a \in at}
      <3>1. \A a \in at : file[a] = fd_pointers[a[1]][a[2]]
        OBVIOUS
      <3> HIDE DEF file, at
      <3>2. \A a \in at : fd_pointers[a[1]][a[2]] \in opened
        BY <2>1, <3>1, Zenon
      <3>3. \A f \in opened : \E a \in at : fd_pointers[a[1]][a[2]] = f
        BY <2>2, <3>1, Zenon
      <3>4. QED
        BY <3>2, <3>3, Zenon
    <2>6. Cardinality(opened) = Cardinality(at)
      <3>1. file \in [at -> opened] /\ DOMAIN file = at
        BY <2>1, Zenon
      <3> HIDE DEF file, at
      <3>2. file \in Surjection(at, opened)
        BY <2>2, <3>1, Zenon DEF Surjection
      <3>3. file \in Injection(at, opened)
        BY <2>3, <3>1, Zenon DEF Injection, IsInjective
      <3>4. QED
        BY <2>4, <3>2, <3>3, FS_Surjection, Zenon
    <2>7. \A p \in Proc : pc[p] # "dead" =>
            num_open_files[p] = Cardinality({i \in Index : fd_pointers[p][i] # NULL})
      BY Zenon DEF SInv, CountInv, Alive, Places
    <2>8. QED
      BY <2>5, <2>6, <2>7, Zenon DEF FilesOwned
  <1>2. QED
    BY <1>1, SInvHolds, PTL
=============================================================================
