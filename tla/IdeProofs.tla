----------------------------- MODULE IdeProofs ------------------------------
(***************************************************************************)
(* Proofs about module Ide: what is read from a disk is what was written   *)
(* there, and a write is on the disk when it returns, for any threads,     *)
(* sectors and contents, with commands that the disk fails and interrupts  *)
(* that no command has caused.                                             *)
(***************************************************************************)
EXTENDS Ide, TLAPS

(* Where a thread uses the channel; and where ide_init does. *)
Using == {"select", "settle", "issue", "down", "busy", "input", "output", "release"}
Booting == {"probe", "next", "done", "select", "settle", "issue", "down", "busy", "input"}

Request == [op : {"read", "write", "identify"}, d : Dev, s : Sec \cup {NULL}, v : Value \cup {NULL}]
Label == Using \cup {"off", "acquire", "probe", "next", "done"}
Controller == [dev : Dev, sector : Sec \cup {NULL}, cmd : {"none", "read", "write", "identify", "store"},
               status : {"idle", "busy", "drq"}, buf : Value \cup {NULL}]
Content == [Dev -> [Sec -> Value]]

(* Requests and the controller's registers. *)
TypeOK ==
  /\ completion_wait \in Nat /\ spurious \in Nat /\ irq \in BOOLEAN
  /\ ctl \in Controller
  /\ disk \in Content /\ written \in Content
  /\ pc \in [Threads -> Label]
  /\ req \in [Threads -> Request \cup {NULL}]
  /\ failed \subseteq Dev \X Sec /\ registered \subseteq Dev

(* The channel has one user: ide_init while the system starts, then the      *)
(* holder of the lock.                                                       *)
BootInv ==
  /\ pc[Boot] \in Booting
  /\ pc[Boot] \in Using => req[Boot] \in Request /\ req[Boot].op = "identify"
  /\ pc[Boot] # "done" => \A t \in Thread : pc[t] = "off"

UserInv ==
  \A t \in Thread :
    /\ pc[t] \in Using \cup {"off", "acquire"}
    /\ pc[t] \in Using => lock = t
    /\ pc[t] # "off" =>
         /\ req[t] \in Request /\ req[t].op \in {"read", "write"} /\ req[t].s \in Sec
         /\ req[t].op = "write" => req[t].v \in Value

(* What the controller is doing for the user of the channel. *)
StageAt(t) ==
  /\ pc[t] \in {"issue", "down", "busy", "input", "output"} =>
       ctl.dev = req[t].d /\ ctl.sector = req[t].s
  /\ pc[t] = "issue" => ctl.status = "idle"
  /\ pc[t] \in {"down", "busy"} /\ req[t].op # "write" /\ ctl.status # "idle" => ctl.cmd = req[t].op
  /\ pc[t] = "input" => req[t].op # "write" /\ ctl.status = "drq" /\ ctl.cmd = req[t].op
  /\ pc[t] = "busy" /\ req[t].op = "write" /\ ctl.status # "idle" => ctl.cmd = "write"
  /\ pc[t] = "output" => req[t].op = "write" /\ ctl.status = "drq"
  /\ pc[t] = "down" /\ req[t].op = "write" => ctl.status # "drq" /\ ctl.cmd = "store"

(* A sector is on the disk, or on its way there, or its store has failed.    *)
Pending(d, s) == ctl.status = "busy" /\ ctl.cmd = "store" /\ ctl.dev = d /\ ctl.sector = s

DataInv ==
  /\ ctl.status = "busy" /\ ctl.cmd = "store" => ctl.sector \in Sec /\ ctl.buf \in Value
  /\ ctl.cmd = "read" /\ ctl.status # "idle" => ctl.sector \in Sec
  /\ ctl.status = "drq" /\ ctl.cmd = "read" => ctl.buf = disk[ctl.dev][ctl.sector]
  /\ \A d \in Dev, s \in Sec : <<d, s>> \notin failed =>
       written[d][s] = IF Pending(d, s) THEN ctl.buf ELSE disk[d][s]

(* What the user has read or written. *)
ValueAt(t) ==
  /\ pc[t] \in {"down", "release"} /\ req[t].op = "write" =>
       written[req[t].d][req[t].s] = req[t].v
  /\ pc[t] = "release" /\ req[t].op = "read" /\ <<req[t].d, req[t].s>> \notin failed =>
       req[t].v = written[req[t].d][req[t].s]

(* Interrupts, as long as each was caused by a command: none is left over    *)
(* from an earlier command, so that the one that ends a wait is that of the  *)
(* command waited for.                                                       *)
Calm == ctl.status # "busy" /\ completion_wait = 0 /\ ~ irq
QuietAt(t) ==
  /\ pc[t] = "down" =>
       /\ ctl.status = "busy" => completion_wait = 0 /\ ~ irq
       /\ completion_wait <= 1 /\ (irq => completion_wait = 0)
  /\ pc[t] = "busy" /\ req[t].op # "write" => Calm
  /\ pc[t] = "busy" /\ req[t].op = "write" /\ ctl.status # "idle" => completion_wait = 0 /\ ~ irq

QuietInv ==
  spurious = 0 =>
    /\ (\A t \in Threads : pc[t] \notin {"down", "busy"}) => Calm
    /\ \A t \in Threads : QuietAt(t)

DInv ==
  /\ TypeOK /\ BootInv /\ UserInv /\ DataInv /\ QuietInv
  /\ \A t \in Threads : StageAt(t) /\ ValueAt(t)
-----------------------------------------------------------------------------
LEMMA OneUser ==
  ASSUME IdeConstants, DInv, NEW t \in Threads, NEW u \in Threads, pc[t] \in Using, pc[u] \in Using
  PROVE  t = u
  BY Zenon DEF DInv, BootInv, UserInv, Using, Threads

LEMMA UserRequest ==
  ASSUME DInv, NEW t \in Threads, pc[t] \in Using
  PROVE  /\ req[t] \in Request
         /\ req[t].d \in Dev /\ req[t].s \in Sec \cup {NULL} /\ req[t].v \in Value \cup {NULL}
         /\ req[t].op \in {"read", "write", "identify"}
         /\ req[t].op # "identify" => req[t].s \in Sec
         /\ req[t].op = "write" => req[t].v \in Value
  <1>1. req[t] \in Request
    BY Zenon DEF DInv, BootInv, UserInv, Using, Threads
  <1>2. /\ req[t].op # "identify" => req[t].s \in Sec
        /\ req[t].op = "write" => req[t].v \in Value
    BY Zenon DEF DInv, BootInv, UserInv, Using, Threads
  <1>3. QED
    BY <1>1, <1>2, Zenon DEF Request

LEMMA ProbeInv ==
  ASSUME IdeConstants, DInv, Probe
  PROVE  DInv'
  <1> USE DEF chan, devs, hard, ghost, Goto
  <1>1. /\ pc[Boot] = "probe"
        /\ pc'[Boot] = "next"
        /\ \A u \in Threads : u # Boot => pc'[u] = pc[u]
        /\ UNCHANGED <<lock, completion_wait, expecting_interrupt, registered, regs, ctl, irq,
                       disk, spurious, errors, req, count, written, failed, panic>>
    BY Zenon DEF DInv, TypeOK, Probe, Threads
  <1>2. TypeOK'
    BY Zenon DEF DInv, TypeOK, Probe, Label
  <1>3. BootInv'
    BY <1>1, Zenon DEF DInv, BootInv, Using, Booting, Threads
  <1>4. UserInv'
    BY <1>1, Zenon DEF IdeConstants, DInv, UserInv, Threads
  <1>5. DataInv'
    BY <1>1 DEF DInv, DataInv, Pending
  <1>6. QuietInv'
    BY <1>1 DEF DInv, QuietInv, QuietAt, Calm
  <1>7. ASSUME NEW u \in Threads PROVE StageAt(u)' /\ ValueAt(u)'
    <2>1. StageAt(u) /\ ValueAt(u)
      BY Zenon DEF DInv
    <2>2. StageAt(u)'
      BY <1>1, <2>1, Zenon DEF StageAt
    <2>3. ValueAt(u)'
      BY <1>1, <2>1, Zenon DEF ValueAt
    <2>4. QED
      BY <2>2, <2>3, Zenon
  <1>8. QED
    BY <1>2, <1>3, <1>4, <1>5, <1>6, <1>7, Zenon DEF DInv

LEMMA CallInv ==
  ASSUME IdeConstants, DInv, NEW t \in Thread, Call(t)
  PROVE  DInv'
  <1> USE DEF chan, devs, hard, ghost, Goto
  <1>1. /\ Up
        /\ pc[t] = "off"
        /\ pc'[t] = "acquire"
        /\ \A u \in Threads : u # t => pc'[u] = pc[u]
        /\ req'[t] \in Request /\ req'[t].op \in {"read", "write"} /\ req'[t].s \in Sec
        /\ req'[t].op = "write" => req'[t].v \in Value
        /\ \A u \in Threads : u # t => req'[u] = req[u]
        /\ UNCHANGED <<lock, completion_wait, expecting_interrupt, is_ata, registered, regs,
                       ctl, irq, disk, spurious, errors, written, failed, panic>>
    <2>1. PICK d \in registered, s \in Sec, v \in Value \cup {NULL}, op \in {"read", "write"} :
            /\ req' = [req EXCEPT ![t] = [op |-> op, d |-> d, s |-> s, v |-> v]]
            /\ op = "write" => v \in Value
      BY Zenon DEF Call
    <2>2. registered \subseteq Dev
      BY Zenon DEF DInv, TypeOK
    <2>3. [op |-> op, d |-> d, s |-> s, v |-> v] \in Request
      BY <2>2, Zenon DEF Request
    <2>4. req \in [Threads -> Request \cup {NULL}] /\ t \in Threads
      BY Zenon DEF DInv, TypeOK, Threads
    <2>5. req'[t] = [op |-> op, d |-> d, s |-> s, v |-> v] /\ \A u \in Threads : u # t => req'[u] = req[u]
      BY <2>1, <2>4, Zenon
    <2>6. /\ pc'[t] = "acquire" /\ \A u \in Threads : u # t => pc'[u] = pc[u]
      BY <2>4, Zenon DEF DInv, TypeOK, Call
    <2>7. QED
      BY <2>1, <2>3, <2>5, <2>6 DEF Call
  <1>2. TypeOK'
    BY <1>1 DEF DInv, TypeOK, Call, Using, Threads, Label
  <1>3. BootInv'
    BY <1>1, Zenon DEF BootInv, Using, Booting, Threads, Up
  <1>4. UserInv'
    BY <1>1, Zenon DEF IdeConstants, DInv, UserInv, Using, Threads
  <1>5. DataInv'
    BY <1>1 DEF DInv, DataInv, Pending
  <1>6. QuietInv'
    BY <1>1 DEF DInv, QuietInv, QuietAt, Calm
  <1>7. ASSUME NEW u \in Threads PROVE StageAt(u)' /\ ValueAt(u)'
    <2>1. StageAt(u) /\ ValueAt(u)
      BY Zenon DEF DInv
    <2>2. StageAt(u)'
      BY <1>1, <2>1, Zenon DEF StageAt
    <2>3. ValueAt(u)'
      BY <1>1, <2>1, Zenon DEF ValueAt
    <2>4. QED
      BY <2>2, <2>3, Zenon
  <1>8. QED
    BY <1>2, <1>3, <1>4, <1>5, <1>6, <1>7, Zenon DEF DInv

LEMMA AcquireInv ==
  ASSUME IdeConstants, DInv, NEW t \in Thread, Acquire(t)
  PROVE  DInv'
  <1> USE DEF chan, devs, hard, ghost, Goto
  <1>1. /\ pc[t] = "acquire"
        /\ lock = NULL
        /\ pc'[t] = "select"
        /\ \A u \in Threads : u # t => pc'[u] = pc[u]
        /\ lock' = t
        /\ UNCHANGED <<completion_wait, expecting_interrupt, is_ata, registered, regs, ctl,
                       irq, disk, spurious, errors, req, count, written, failed, panic>>
    BY Zenon DEF DInv, TypeOK, Acquire, Threads
  <1>2. \A u \in Threads : pc[u] \notin Using
    BY <1>1, Zenon DEF IdeConstants, DInv, BootInv, UserInv, Using, Threads
  <1>3. TypeOK'
    BY Zenon DEF DInv, TypeOK, Acquire, Using, Label
  <1>4. BootInv'
    BY <1>1, Zenon DEF DInv, BootInv, Threads
  <1>5. UserInv'
    BY <1>1, <1>2, Zenon DEF IdeConstants, DInv, UserInv, Using, Threads
  <1>6. DataInv'
    BY <1>1 DEF DInv, DataInv, Pending
  <1>7. QuietInv'
    BY <1>1, <1>2, Zenon DEF DInv, QuietInv, QuietAt, Calm
  <1>8. ASSUME NEW u \in Threads PROVE StageAt(u)' /\ ValueAt(u)'
    <2>1. StageAt(u) /\ ValueAt(u)
      BY Zenon DEF DInv
    <2>2. StageAt(u)'
      BY <1>1, <2>1, Zenon DEF StageAt
    <2>3. ValueAt(u)'
      BY <1>1, <2>1, Zenon DEF ValueAt
    <2>4. QED
      BY <2>2, <2>3, Zenon
  <1>9. QED
    BY <1>3, <1>4, <1>5, <1>6, <1>7, <1>8, Zenon DEF DInv

LEMMA PollIdleInv ==
  ASSUME IdeConstants, DInv, NEW t \in Threads, PollIdle(t)
  PROVE  DInv'
  <1> USE DEF chan, devs, hard, ghost, Goto
  <1>1. /\ pc[t] \in {"select", "settle"}
        /\ irq
        /\ ~ irq'
        /\ UNCHANGED <<lock, completion_wait, expecting_interrupt, is_ata, registered, regs,
                       ctl, disk, spurious, errors, pc, req, count, written, failed, panic>>
    BY Zenon DEF PollIdle
  <1>2. \A u \in Threads : u # t => pc[u] \notin Using
    BY <1>1, OneUser, Zenon DEF Using
  <1>3. TypeOK'
    BY Zenon DEF DInv, TypeOK, PollIdle
  <1>4. BootInv'
    BY <1>1, Zenon DEF DInv, BootInv
  <1>5. UserInv'
    BY <1>1, Zenon DEF DInv, UserInv
  <1>6. DataInv'
    BY <1>1 DEF DInv, DataInv, Pending
  <1>7. QuietInv'
    BY <1>1, Zenon DEF DInv, QuietInv, QuietAt, Calm
  <1>8. ASSUME NEW u \in Threads PROVE StageAt(u)' /\ ValueAt(u)'
    <2>1. StageAt(u) /\ ValueAt(u)
      BY Zenon DEF DInv
    <2>2. StageAt(u)'
      BY <1>1, <2>1, Zenon DEF StageAt
    <2>3. ValueAt(u)'
      BY <1>1, <2>1, Zenon DEF ValueAt
    <2>4. QED
      BY <2>2, <2>3, Zenon
  <1>9. QED
    BY <1>3, <1>4, <1>5, <1>6, <1>7, <1>8, Zenon DEF DInv

LEMMA SelectInv ==
  ASSUME IdeConstants, DInv, NEW t \in Threads, Select(t)
  PROVE  DInv'
  <1> USE DEF chan, devs, hard, ghost, Goto
  <1>1. /\ pc[t] = "select"
        /\ ctl.status = "idle"
        /\ pc'[t] = "settle"
        /\ \A u \in Threads : u # t => pc'[u] = pc[u]
        /\ ctl'.dev = req[t].d
        /\ ctl'.sector = ctl.sector
        /\ ctl'.cmd = ctl.cmd
        /\ ctl'.status = ctl.status
        /\ ctl'.buf = ctl.buf
        /\ ~ irq'
        /\ UNCHANGED <<lock, completion_wait, expecting_interrupt, is_ata, registered, regs,
                       disk, spurious, errors, req, count, written, failed, panic>>
    BY Zenon DEF DInv, TypeOK, Select, Controller
  <1>2. \A u \in Threads : u # t => pc[u] \notin Using
    BY <1>1, OneUser, Zenon DEF Using
  <1>0. /\ req[t] \in Request
        /\ req[t].d \in Dev /\ req[t].s \in Sec \cup {NULL} /\ req[t].v \in Value \cup {NULL}
        /\ req[t].op \in {"read", "write", "identify"}
        /\ req[t].op # "identify" => req[t].s \in Sec
        /\ req[t].op = "write" => req[t].v \in Value
    BY <1>1, UserRequest, Zenon DEF Using
  <1>3. TypeOK'
    <2>1. TypeOK
      BY Zenon DEF DInv
    <2>2. ctl' \in Controller
      BY <1>0, <2>1, Zenon DEF TypeOK, Select, Controller
    <2>3. pc' \in [Threads -> Label]
      BY <2>1, Zenon DEF TypeOK, Select, Using, Label
    <2>4. QED
      BY <2>1, <2>2, Zenon DEF TypeOK, Select, Label, Using
  <1>4. BootInv'
    BY <1>1, <1>2, Zenon DEF IdeConstants, DInv, BootInv, Using, Booting, Threads
  <1>5. UserInv'
    BY <1>1 DEF DInv, UserInv, Using, Threads
  <1>6. DataInv'
    BY <1>1 DEF DInv, DataInv, Pending
  <1>7. QuietInv'
    BY <1>1, <1>2, Zenon DEF DInv, QuietInv, QuietAt, Calm
  <1>8. ASSUME NEW u \in Threads PROVE StageAt(u)' /\ ValueAt(u)'
    <2>1. StageAt(u) /\ ValueAt(u)
      BY Zenon DEF DInv
    <2>2. StageAt(u)'
      BY <1>1, <1>2, Zenon DEF StageAt, Using
    <2>3. ValueAt(u)'
      BY <1>1, <2>1, Zenon DEF ValueAt
    <2>4. QED
      BY <2>2, <2>3, Zenon
  <1>9. QED
    BY <1>3, <1>4, <1>5, <1>6, <1>7, <1>8, Zenon DEF DInv

LEMMA AddressInv ==
  ASSUME IdeConstants, DInv, NEW t \in Threads, Address(t)
  PROVE  DInv'
  <1> USE DEF chan, devs, hard, ghost, Goto
  <1>1. /\ pc[t] = "settle"
        /\ ctl.status = "idle"
        /\ pc'[t] = "issue"
        /\ \A u \in Threads : u # t => pc'[u] = pc[u]
        /\ ctl'.dev = req[t].d
        /\ ctl'.sector = req[t].s
        /\ ctl'.cmd = ctl.cmd
        /\ ctl'.status = ctl.status
        /\ ctl'.buf = ctl.buf
        /\ ~ irq'
        /\ UNCHANGED <<lock, completion_wait, is_ata, registered, regs, disk, spurious,
                       errors, req, count, written, failed, panic>>
    BY Zenon DEF DInv, TypeOK, Address, Controller
  <1>2. \A u \in Threads : u # t => pc[u] \notin Using
    BY <1>1, OneUser, Zenon DEF Using
  <1>0. /\ req[t] \in Request
        /\ req[t].d \in Dev /\ req[t].s \in Sec \cup {NULL} /\ req[t].v \in Value \cup {NULL}
        /\ req[t].op \in {"read", "write", "identify"}
        /\ req[t].op # "identify" => req[t].s \in Sec
        /\ req[t].op = "write" => req[t].v \in Value
    BY <1>1, UserRequest, Zenon DEF Using
  <1>3. TypeOK'
    <2>1. TypeOK
      BY Zenon DEF DInv
    <2>2. ctl' \in Controller
      BY <1>0, <2>1, Zenon DEF TypeOK, Address, Controller
    <2>3. pc' \in [Threads -> Label]
      BY <2>1, Zenon DEF TypeOK, Address, Using, Label
    <2>4. QED
      BY <2>1, <2>2 DEF TypeOK, Address, Label, Using
  <1>4. BootInv'
    BY <1>1, <1>2, Zenon DEF IdeConstants, DInv, BootInv, Using, Booting, Threads
  <1>5. UserInv'
    BY <1>1 DEF DInv, UserInv, Using, Threads
  <1>6. DataInv'
    BY <1>1 DEF DInv, DataInv, Pending
  <1>7. QuietInv'
    BY <1>1 DEF DInv, QuietInv, QuietAt, Calm
  <1>8. ASSUME NEW u \in Threads PROVE StageAt(u)' /\ ValueAt(u)'
    <2>1. StageAt(u) /\ ValueAt(u)
      BY Zenon DEF DInv
    <2>2. StageAt(u)'
      BY <1>1, <1>2, Zenon DEF StageAt, Using
    <2>3. ValueAt(u)'
      BY <1>1, <2>1, Zenon DEF ValueAt
    <2>4. QED
      BY <2>2, <2>3, Zenon
  <1>9. QED
    BY <1>3, <1>4, <1>5, <1>6, <1>7, <1>8, Zenon DEF DInv

LEMMA IssueInv ==
  ASSUME IdeConstants, DInv, NEW t \in Threads, Issue(t)
  PROVE  DInv'
  <1> USE DEF chan, devs, hard, ghost, Goto
  <1>1. /\ pc[t] = "issue"
        /\ pc'[t] = (IF req[t].op = "write" THEN "busy" ELSE "down")
        /\ \A u \in Threads : u # t => pc'[u] = pc[u]
        /\ ctl'.dev = ctl.dev
        /\ ctl'.sector = ctl.sector
        /\ ctl'.cmd = req[t].op
        /\ ctl'.status = "busy"
        /\ ctl'.buf = ctl.buf
        /\ UNCHANGED <<lock, completion_wait, expecting_interrupt, is_ata, registered, regs,
                       irq, disk, spurious, errors, req, count, written, failed, panic>>
    BY Zenon DEF DInv, TypeOK, Issue, Controller
  <1>2. \A u \in Threads : u # t => pc[u] \notin Using
    BY <1>1, OneUser, Zenon DEF Using
  <1>0. /\ req[t] \in Request
        /\ req[t].d \in Dev /\ req[t].s \in Sec \cup {NULL} /\ req[t].v \in Value \cup {NULL}
        /\ req[t].op \in {"read", "write", "identify"}
        /\ req[t].op # "identify" => req[t].s \in Sec
        /\ req[t].op = "write" => req[t].v \in Value
    BY <1>1, UserRequest, Zenon DEF Using
  <1>3. TypeOK'
    <2>1. TypeOK
      BY Zenon DEF DInv
    <2>2. ctl' \in Controller
      BY <1>0, <2>1, Zenon DEF TypeOK, Issue, Controller
    <2>3. pc' \in [Threads -> Label]
      BY <2>1, Zenon DEF TypeOK, Issue, Using, Label
    <2>4. QED
      BY <1>1, <2>1, <2>2, <2>3, Zenon DEF TypeOK
  <1>4. BootInv'
    BY <1>1, <1>2, Zenon DEF IdeConstants, DInv, BootInv, Using, Booting, Threads
  <1>5. UserInv'
    BY <1>1 DEF DInv, UserInv, Using, Threads
  <1>6. DataInv'
    BY <1>0, <1>1 DEF DInv, DataInv, Pending, StageAt
  <1>7. QuietInv'
    BY <1>1, <1>2 DEF DInv, QuietInv, QuietAt, Calm, Using
  <1>8. ASSUME NEW u \in Threads PROVE StageAt(u)' /\ ValueAt(u)'
    <2>1. StageAt(u) /\ ValueAt(u)
      BY Zenon DEF DInv
    <2>2. StageAt(u)'
      BY <1>1, <1>2, <2>1, Zenon DEF StageAt, Using
    <2>3. ValueAt(u)'
      BY <1>1, <2>1, Zenon DEF ValueAt
    <2>4. QED
      BY <2>2, <2>3, Zenon
  <1>9. QED
    BY <1>3, <1>4, <1>5, <1>6, <1>7, <1>8, Zenon DEF DInv

LEMMA DownInv ==
  ASSUME IdeConstants, DInv, NEW t \in Threads, Down(t)
  PROVE  DInv'
  <1> USE DEF chan, devs, hard, ghost, Goto
  <1>1. /\ pc[t] = "down"
        /\ completion_wait > 0
        /\ pc'[t] = (IF req[t].op = "write" THEN "release" ELSE "busy")
        /\ \A u \in Threads : u # t => pc'[u] = pc[u]
        /\ completion_wait' = completion_wait - 1
        /\ UNCHANGED <<lock, expecting_interrupt, is_ata, registered, regs, ctl, irq, disk,
                       spurious, errors, req, count, written, failed, panic>>
    BY Zenon DEF DInv, TypeOK, Down
  <1>2. \A u \in Threads : u # t => pc[u] \notin Using
    BY <1>1, OneUser, Zenon DEF Using
  <1>3. TypeOK'
    BY DEF DInv, TypeOK, Down, Using, Label
  <1>4. BootInv'
    BY <1>1, Zenon DEF DInv, BootInv, Using, Booting, Threads
  <1>5. UserInv'
    BY <1>1, <1>2, Zenon DEF DInv, UserInv, Using, Threads
  <1>6. DataInv'
    BY <1>1 DEF DInv, DataInv, Pending
  <1>7. QuietInv'
    BY <1>1 DEF DInv, QuietInv, QuietAt, Calm, TypeOK
  <1>8. ASSUME NEW u \in Threads PROVE StageAt(u)' /\ ValueAt(u)'
    <2>1. StageAt(u) /\ ValueAt(u)
      BY Zenon DEF DInv
    <2>2. StageAt(u)'
      BY <1>1, <2>1, Zenon DEF StageAt
    <2>3. ValueAt(u)'
      BY <1>1, <2>1, Zenon DEF ValueAt
    <2>4. QED
      BY <2>2, <2>3, Zenon
  <1>9. QED
    BY <1>3, <1>4, <1>5, <1>6, <1>7, <1>8, Zenon DEF DInv

LEMMA NotBusyInv ==
  ASSUME IdeConstants, DInv, NEW t \in Threads, NotBusy(t)
  PROVE  DInv'
  <1> USE DEF chan, devs, hard, ghost, Goto
  <1>1. /\ pc[t] = "busy"
        /\ ctl.status # "busy"
        /\ \/ ctl.status = "drq" /\ pc'[t] = (IF req[t].op = "write" THEN "output" ELSE "input")
           \/ ctl.status = "idle" /\ req[t].op = "identify" /\ pc'[t] = "next"
           \/ pc'[t] = pc[t]
        /\ \A u \in Threads : u # t => pc'[u] = pc[u]
        /\ UNCHANGED <<lock, completion_wait, expecting_interrupt, registered, regs, ctl, irq,
                       disk, spurious, errors, req, count, written, failed>>
    BY Zenon DEF DInv, TypeOK, NotBusy
  <1>2. \A u \in Threads : u # t => pc[u] \notin Using
    BY <1>1, OneUser, Zenon DEF Using
  <1>3. TypeOK'
    <2>1. TypeOK
      BY Zenon DEF DInv
    <2>2. pc' \in [Threads -> Label]
      BY <2>1, Zenon DEF TypeOK, NotBusy, Using, Label
    <2>3. QED
      BY <1>1, <2>1, <2>2, Zenon DEF TypeOK
  <1>4. BootInv'
    BY <1>1, Zenon DEF DInv, BootInv, Using, Booting, Threads
  <1>5. UserInv'
    BY <1>1, <1>2, Zenon DEF IdeConstants, DInv, UserInv, Using, Threads
  <1>6. DataInv'
    BY <1>1 DEF DInv, DataInv, Pending
  <1>7. QuietInv'
    BY <1>1 DEF DInv, QuietInv, QuietAt, Calm
  <1>8. ASSUME NEW u \in Threads PROVE StageAt(u)' /\ ValueAt(u)'
    <2>1. StageAt(u) /\ ValueAt(u)
      BY Zenon DEF DInv
    <2>2. StageAt(u)'
      BY <1>1, <2>1, Zenon DEF StageAt
    <2>3. ValueAt(u)'
      BY <1>1, <2>1, Zenon DEF ValueAt
    <2>4. QED
      BY <2>2, <2>3, Zenon
  <1>9. QED
    BY <1>3, <1>4, <1>5, <1>6, <1>7, <1>8, Zenon DEF DInv

LEMMA InputInv ==
  ASSUME IdeConstants, DInv, NEW t \in Threads, Input(t)
  PROVE  DInv'
  <1> USE DEF chan, devs, hard, ghost, Goto
  <1>1. /\ pc[t] = "input"
        /\ ctl'.dev = ctl.dev
        /\ ctl'.sector = ctl.sector
        /\ ctl'.cmd = ctl.cmd
        /\ ctl'.status = "idle"
        /\ ctl'.buf = ctl.buf
        /\ \/ req[t].op = "read" /\ pc'[t] = "release" /\ req'[t] \in Request /\ req'[t].op = "read" /\ req'[t].v = ctl.buf
              /\ req'[t].d = req[t].d /\ req'[t].s = req[t].s
           \/ req[t].op = "identify" /\ pc'[t] = "next" /\ req'[t] = req[t]
        /\ \A u \in Threads : u # t => pc'[u] = pc[u] /\ req'[u] = req[u]
        /\ UNCHANGED <<lock, completion_wait, expecting_interrupt, regs, irq, disk, spurious,
                       errors, count, written, failed, panic>>
    BY DEF DInv, TypeOK, Input, Threads, Request, BootInv, UserInv, Controller, Using
  <1>2. \A u \in Threads : u # t => pc[u] \notin Using
    BY <1>1, OneUser, Zenon DEF Using
  <1>0. /\ req[t] \in Request
        /\ req[t].d \in Dev /\ req[t].s \in Sec \cup {NULL} /\ req[t].v \in Value \cup {NULL}
        /\ req[t].op \in {"read", "write", "identify"}
        /\ req[t].op # "identify" => req[t].s \in Sec
        /\ req[t].op = "write" => req[t].v \in Value
    BY <1>1, UserRequest, Zenon DEF Using
  <1>3. TypeOK'
    <2>1. TypeOK
      BY Zenon DEF DInv
    <2>2. ctl' \in Controller
      BY <2>1, Zenon DEF TypeOK, Input, Controller
    <2>3. pc' \in [Threads -> Label]
      BY <2>1, Zenon DEF TypeOK, Input, Using, Label
    <2>4. req' \in [Threads -> Request \cup {NULL}]
      BY <1>1, <2>1, Zenon DEF TypeOK, Input
    <2>5. registered' \subseteq Dev
      BY <1>0, <2>1 DEF TypeOK, Input
    <2>6. QED
      BY <1>1, <2>1, <2>2, <2>3, <2>4, <2>5, Zenon DEF TypeOK
  <1>4. BootInv'
    BY <1>1 DEF DInv, BootInv, Using, Booting, Threads
  <1>5. UserInv'
    BY <1>1 DEF DInv, UserInv, Using, Threads
  <1>6. DataInv'
    BY <1>1 DEF DInv, DataInv, Pending, StageAt
  <1>7. QuietInv'
    BY <1>1 DEF DInv, QuietInv, QuietAt, Calm
  <1>a. req[t].op = "read" /\ <<req[t].d, req[t].s>> \notin failed => ctl.buf = written[req[t].d][req[t].s]
    BY <1>0, <1>1 DEF DInv, StageAt, DataInv
  <1>8. ASSUME NEW u \in Threads PROVE StageAt(u)' /\ ValueAt(u)'
    <2>1. StageAt(u) /\ ValueAt(u)
      BY Zenon DEF DInv
    <2>2. StageAt(u)'
      BY <1>1, <1>2, Zenon DEF StageAt, Using
    <2>3. ValueAt(u)'
      BY <1>0, <1>1, <1>a, <2>1 DEF ValueAt
    <2>4. QED
      BY <2>2, <2>3, Zenon
  <1>9. QED
    BY <1>3, <1>4, <1>5, <1>6, <1>7, <1>8, Zenon DEF DInv

LEMMA OutputInv ==
  ASSUME IdeConstants, DInv, NEW t \in Threads, Output(t)
  PROVE  DInv'
  <1> USE DEF chan, devs, hard, ghost, Goto
  <1>1. /\ pc[t] = "output"
        /\ pc'[t] = "down"
        /\ \A u \in Threads : u # t => pc'[u] = pc[u]
        /\ ctl'.dev = ctl.dev
        /\ ctl'.sector = ctl.sector
        /\ ctl'.cmd = "store"
        /\ ctl'.status = "busy"
        /\ ctl'.buf = req[t].v
        /\ written'[req[t].d][req[t].s] = req[t].v
        /\ \A d \in Dev, s \in Sec : d # req[t].d \/ s # req[t].s => written'[d][s] = written[d][s]
        /\ failed' = failed \ {<<req[t].d, req[t].s>>}
        /\ UNCHANGED <<lock, completion_wait, expecting_interrupt, is_ata, registered, regs,
                       irq, disk, spurious, errors, req, count, panic>>
    <2>1. /\ req[t].d \in Dev /\ req[t].s \in Sec /\ TypeOK
      BY UserRequest, Zenon DEF Output, DInv, StageAt, Using
    <2>2. written' = [written EXCEPT ![req[t].d][req[t].s] = req[t].v]
      BY Zenon DEF Output
    <2>3. written \in [Dev -> [Sec -> Value]]
      BY <2>1, Zenon DEF TypeOK, Content
    <2>4. /\ written'[req[t].d][req[t].s] = req[t].v
          /\ \A d \in Dev, s \in Sec : d # req[t].d \/ s # req[t].s => written'[d][s] = written[d][s]
      BY <2>1, <2>2, <2>3, Zenon
    <2>5. /\ ctl'.dev = ctl.dev /\ ctl'.sector = ctl.sector /\ ctl'.cmd = "store"
          /\ ctl'.status = "busy" /\ ctl'.buf = req[t].v
      BY <2>1, Zenon DEF TypeOK, Output, Controller
    <2>6. /\ pc'[t] = "down" /\ \A u \in Threads : u # t => pc'[u] = pc[u]
      BY <2>1, Zenon DEF TypeOK, Output
    <2>7. QED
      BY <2>4, <2>5, <2>6, Zenon DEF Output
  <1>2. \A u \in Threads : u # t => pc[u] \notin Using
    BY <1>1, OneUser, Zenon DEF Using
  <1>0. /\ req[t] \in Request
        /\ req[t].d \in Dev /\ req[t].s \in Sec \cup {NULL} /\ req[t].v \in Value \cup {NULL}
        /\ req[t].op \in {"read", "write", "identify"}
        /\ req[t].op # "identify" => req[t].s \in Sec
        /\ req[t].op = "write" => req[t].v \in Value
    BY <1>1, UserRequest, Zenon DEF Using
  <1>b. req[t].s \in Sec /\ req[t].v \in Value /\ written' \in Content
    <2>1. req[t].s \in Sec /\ req[t].v \in Value /\ req[t].op = "write"
      BY <1>0, <1>1, Zenon DEF DInv, StageAt
    <2>2. written \in [Dev -> [Sec -> Value]]
      BY Zenon DEF DInv, TypeOK, Content
    <2>3. QED
      BY <2>1, <2>2, Zenon DEF Output, Content
  <1>3. TypeOK'
    <2>1. TypeOK
      BY Zenon DEF DInv
    <2>2. ctl' \in Controller
      BY <1>0, <2>1, Zenon DEF TypeOK, Output, Controller
    <2>3. pc' \in [Threads -> Label]
      BY <2>1, Zenon DEF TypeOK, Output, Using, Label
    <2>4. QED
      BY <1>1, <1>b, <2>1, <2>2, <2>3, Zenon DEF TypeOK
  <1>4. BootInv'
    BY <1>1, Zenon DEF DInv, BootInv, Booting, Threads
  <1>5. UserInv'
    BY <1>1 DEF DInv, UserInv, Using, Threads
  <1>6. DataInv'
    BY <1>1, <1>b DEF DInv, DataInv, Pending, StageAt
  <1>7. QuietInv'
    BY <1>1, <1>2 DEF DInv, QuietInv, QuietAt, Calm, Using
  <1>8. ASSUME NEW u \in Threads PROVE StageAt(u)' /\ ValueAt(u)'
    <2>1. StageAt(u) /\ ValueAt(u)
      BY Zenon DEF DInv
    <2>2. StageAt(u)'
      BY <1>1, <1>2, <2>1, Zenon DEF StageAt, Using
    <2>3. ValueAt(u)'
      BY <1>1, <1>2, Zenon DEF ValueAt, Using
    <2>4. QED
      BY <2>2, <2>3, Zenon
  <1>9. QED
    BY <1>3, <1>4, <1>5, <1>6, <1>7, <1>8, Zenon DEF DInv

LEMMA ReleaseInv ==
  ASSUME IdeConstants, DInv, NEW t \in Threads, Release(t)
  PROVE  DInv'
  <1> USE DEF chan, devs, hard, ghost, Goto
  <1>1. /\ pc[t] = "release"
        /\ pc'[t] = "off"
        /\ \A u \in Threads : u # t => pc'[u] = pc[u]
        /\ lock' = NULL
        /\ \A u \in Threads : u # t => req'[u] = req[u]
        /\ req'[t] = NULL
        /\ UNCHANGED <<completion_wait, expecting_interrupt, is_ata, registered, regs, ctl,
                       irq, disk, spurious, errors, count, written, failed, panic>>
    BY Zenon DEF DInv, TypeOK, Release
  <1>2. \A u \in Threads : u # t => pc[u] \notin Using
    BY <1>1, OneUser, Zenon DEF Using
  <1>3. TypeOK'
    BY Zenon DEF DInv, TypeOK, Release, Label
  <1>4. BootInv'
    BY <1>1, Zenon DEF DInv, BootInv, Booting, Threads
  <1>5. UserInv'
    BY <1>1, <1>2, Zenon DEF DInv, UserInv, Using, Threads
  <1>6. DataInv'
    BY <1>1 DEF DInv, DataInv, Pending
  <1>7. QuietInv'
    BY <1>1, <1>2, Zenon DEF DInv, QuietInv, QuietAt, Calm
  <1>8. ASSUME NEW u \in Threads PROVE StageAt(u)' /\ ValueAt(u)'
    <2>1. StageAt(u) /\ ValueAt(u)
      BY Zenon DEF DInv
    <2>2. StageAt(u)'
      BY <1>1, <2>1, Zenon DEF StageAt
    <2>3. ValueAt(u)'
      BY <1>1, <2>1, Zenon DEF ValueAt
    <2>4. QED
      BY <2>2, <2>3, Zenon
  <1>9. QED
    BY <1>3, <1>4, <1>5, <1>6, <1>7, <1>8, Zenon DEF DInv

LEMMA HandlerInv ==
  ASSUME IdeConstants, DInv, interrupt_handler
  PROVE  DInv'
  <1> USE DEF chan, devs, hard, ghost, Goto
  <1>1. /\ irq
        /\ ~ irq'
        /\ completion_wait' \in {completion_wait, completion_wait + 1}
        /\ UNCHANGED <<lock, expecting_interrupt, is_ata, registered, regs, ctl, disk,
                       spurious, errors, pc, req, count, written, failed, panic>>
    BY Zenon DEF interrupt_handler
  <1>2. TypeOK'
    <2>1. TypeOK
      BY Zenon DEF DInv
    <2>2. completion_wait \in Nat
      BY <2>1, Zenon DEF TypeOK
    <2>3. completion_wait' \in Nat
      BY <1>1, <2>2
    <2>4. irq' \in BOOLEAN
      BY Zenon DEF interrupt_handler
    <2>5. QED
      BY <1>1, <2>1, <2>3, <2>4, Zenon DEF TypeOK
  <1>3. BootInv'
    BY <1>1, Zenon DEF DInv, BootInv
  <1>4. UserInv'
    BY <1>1, Zenon DEF DInv, UserInv
  <1>5. DataInv'
    BY <1>1 DEF DInv, DataInv, Pending
  <1>6. QuietInv'
    BY <1>1 DEF DInv, QuietInv, QuietAt, Calm
  <1>7. ASSUME NEW u \in Threads PROVE StageAt(u)' /\ ValueAt(u)'
    <2>1. StageAt(u) /\ ValueAt(u)
      BY Zenon DEF DInv
    <2>2. StageAt(u)'
      BY <1>1, <2>1, Zenon DEF StageAt
    <2>3. ValueAt(u)'
      BY <1>1, <2>1, Zenon DEF ValueAt
    <2>4. QED
      BY <2>2, <2>3, Zenon
  <1>8. QED
    BY <1>2, <1>3, <1>4, <1>5, <1>6, <1>7, Zenon DEF DInv

LEMMA SpuriousInv ==
  ASSUME IdeConstants, DInv, Spurious
  PROVE  DInv'
  <1> USE DEF chan, devs, hard, ghost, Goto
  <1>1. /\ ~ irq
        /\ irq'
        /\ spurious' = spurious + 1
        /\ UNCHANGED <<lock, completion_wait, expecting_interrupt, is_ata, registered, regs,
                       ctl, disk, errors, pc, req, count, written, failed, panic>>
    BY Zenon DEF Spurious
  <1>2. TypeOK'
    BY DEF DInv, TypeOK, Spurious
  <1>3. BootInv'
    BY <1>1, Zenon DEF DInv, BootInv
  <1>4. UserInv'
    BY <1>1, Zenon DEF DInv, UserInv
  <1>5. DataInv'
    BY <1>1 DEF DInv, DataInv, Pending
  <1>6. QuietInv'
    BY <1>1 DEF DInv, QuietInv, TypeOK
  <1>7. ASSUME NEW u \in Threads PROVE StageAt(u)' /\ ValueAt(u)'
    <2>1. StageAt(u) /\ ValueAt(u)
      BY Zenon DEF DInv
    <2>2. StageAt(u)'
      BY <1>1, <2>1, Zenon DEF StageAt
    <2>3. ValueAt(u)'
      BY <1>1, <2>1, Zenon DEF ValueAt
    <2>4. QED
      BY <2>2, <2>3, Zenon
  <1>8. QED
    BY <1>2, <1>3, <1>4, <1>5, <1>6, <1>7, Zenon DEF DInv

(* The disk has the data of a command that reads. *)
LEMMA AnswerReadInv ==
  ASSUME IdeConstants, DInv, Answer, ctl.cmd \in {"read", "identify"}
  PROVE  DInv'
  <1> USE DEF chan, devs, hard, ghost
  <1>2. /\ ctl \in Controller
        /\ disk \in [Dev -> [Sec -> Value]]
    BY Zenon DEF DInv, TypeOK, Content
  <1>1. /\ ctl.status = "busy" /\ ctl'.status = "drq" /\ irq'
        /\ ctl'.dev = ctl.dev /\ ctl'.sector = ctl.sector /\ ctl'.cmd = ctl.cmd
        /\ ctl.cmd \in {"read", "identify"}
        /\ ctl'.buf = IF ctl.cmd = "read" THEN disk[ctl.dev][ctl.sector] ELSE NULL
        /\ UNCHANGED <<disk, failed, errors, lock, completion_wait, expecting_interrupt,
                       is_ata, registered, regs, spurious, pc, req, count, written, panic>>
    BY <1>2, Zenon DEF Answer, Controller
  <1>3. TypeOK'
    <2>1. ctl.cmd = "read" => disk[ctl.dev][ctl.sector] \in Value
      BY <1>1, <1>2, Zenon DEF DInv, DataInv, Controller
    <2>2. ctl' \in Controller
      BY <1>2, <2>1, Zenon DEF Answer, Controller
    <2>3. TypeOK /\ irq' = TRUE
      BY Zenon DEF DInv, Answer
    <2>4. QED
      BY <1>1, <2>2, <2>3, Zenon DEF TypeOK
  <1>4. BootInv' /\ UserInv'
    BY <1>1, Zenon DEF DInv, BootInv, UserInv
  <1>5. DataInv'
    BY <1>1 DEF DInv, DataInv, Pending
  <1>6. QuietInv'
    BY <1>1, Zenon DEF DInv, QuietInv, QuietAt, Calm, StageAt
  <1>7. ASSUME NEW u \in Threads PROVE StageAt(u)' /\ ValueAt(u)'
    <2>1. StageAt(u) /\ ValueAt(u)
      BY Zenon DEF DInv
    <2>2. StageAt(u)'
      BY <1>1, <2>1, Zenon DEF StageAt
    <2>3. ValueAt(u)'
      BY <1>1, <2>1, Zenon DEF ValueAt
    <2>4. QED
      BY <2>2, <2>3, Zenon
  <1>8. QED
    BY <1>3, <1>4, <1>5, <1>6, <1>7, Zenon DEF DInv

(* The disk is ready for the data of a write. *)
LEMMA AnswerWriteInv ==
  ASSUME IdeConstants, DInv, Answer, ctl.cmd = "write"
  PROVE  DInv'
  <1> USE DEF chan, devs, hard, ghost
  <1>2. /\ ctl \in Controller
        /\ disk \in [Dev -> [Sec -> Value]]
    BY Zenon DEF DInv, TypeOK, Content
  <1>1. /\ ctl.status = "busy" /\ ctl'.status = "drq" /\ ctl.cmd = "write"
        /\ ctl'.dev = ctl.dev /\ ctl'.sector = ctl.sector /\ ctl'.cmd = ctl.cmd /\ ctl'.buf = ctl.buf
        /\ UNCHANGED <<irq, disk, failed, errors, lock, completion_wait, expecting_interrupt,
                       is_ata, registered, regs, spurious, pc, req, count, written, panic>>
    BY <1>2, Zenon DEF Answer, Controller
  <1>3. TypeOK'
    <2>1. ctl' \in Controller
      BY <1>2, Zenon DEF Answer, Controller
    <2>2. QED
      BY <1>1, <2>1, Zenon DEF DInv, TypeOK
  <1>4. BootInv' /\ UserInv'
    BY <1>1, Zenon DEF DInv, BootInv, UserInv
  <1>5. DataInv'
    BY <1>1 DEF DInv, DataInv, Pending
  <1>6. QuietInv'
    BY <1>1, Zenon DEF DInv, QuietInv, QuietAt, Calm
  <1>7. ASSUME NEW u \in Threads PROVE StageAt(u)' /\ ValueAt(u)'
    <2>1. StageAt(u) /\ ValueAt(u)
      BY Zenon DEF DInv
    <2>2. StageAt(u)'
      BY <1>1, <2>1, Zenon DEF StageAt
    <2>3. ValueAt(u)'
      BY <1>1, <2>1, Zenon DEF ValueAt
    <2>4. QED
      BY <2>2, <2>3, Zenon
  <1>8. QED
    BY <1>3, <1>4, <1>5, <1>6, <1>7, Zenon DEF DInv

(* The data of a write is on the disk. *)
LEMMA AnswerStoreInv ==
  ASSUME IdeConstants, DInv, Answer, ctl.cmd = "store"
  PROVE  DInv'
  <1> USE DEF chan, devs, hard, ghost
  <1>2. /\ ctl \in Controller
        /\ disk \in [Dev -> [Sec -> Value]]
    BY Zenon DEF DInv, TypeOK, Content
  <1>0. ctl.dev \in Dev /\ ctl.sector \in Sec /\ ctl.buf \in Value
    BY <1>2, Zenon DEF DInv, DataInv, Answer, Controller
  <1>1. /\ ctl.status = "busy" /\ ctl'.status = "idle" /\ ctl.cmd = "store" /\ irq'
        /\ ctl'.dev = ctl.dev /\ ctl'.sector = ctl.sector /\ ctl'.cmd = ctl.cmd /\ ctl'.buf = ctl.buf
        /\ disk'[ctl.dev][ctl.sector] = ctl.buf
        /\ \A d \in Dev, s \in Sec : d # ctl.dev \/ s # ctl.sector => disk'[d][s] = disk[d][s]
        /\ UNCHANGED <<failed, errors, lock, completion_wait, expecting_interrupt, is_ata,
                       registered, regs, spurious, pc, req, count, written, panic>>
    BY <1>0, <1>2 DEF Answer, Controller
  <1>3. TypeOK'
    <2>1. ctl' \in Controller
      BY <1>2, Zenon DEF Answer, Controller
    <2>2. disk' \in [Dev -> [Sec -> Value]]
      BY <1>0, <1>2 DEF Answer
    <2>3. TypeOK /\ irq' = TRUE
      BY Zenon DEF DInv, Answer
    <2>4. QED
      BY <1>1, <2>1, <2>2, <2>3, Zenon DEF TypeOK, Content
  <1>4. BootInv' /\ UserInv'
    BY <1>1, Zenon DEF DInv, BootInv, UserInv
  <1>5. DataInv'
    <2>1. DataInv
      BY Zenon DEF DInv
    <2>2. ASSUME NEW d \in Dev, NEW s \in Sec, <<d, s>> \notin failed
          PROVE  disk'[d][s] = written[d][s]
      <3>1. CASE d = ctl.dev /\ s = ctl.sector
        BY <1>1, <2>1, <2>2, <3>1, Zenon DEF DataInv, Pending
      <3>2. CASE d # ctl.dev \/ s # ctl.sector
        BY <1>1, <2>1, <2>2 DEF DataInv, Pending
      <3>3. QED
        BY <3>1, <3>2, Zenon
    <2>3. QED
      BY <1>1, <2>2, Zenon DEF DataInv, Pending
  <1>6. QuietInv'
    BY <1>1, Zenon DEF DInv, QuietInv, QuietAt, Calm
  <1>7. ASSUME NEW u \in Threads PROVE StageAt(u)' /\ ValueAt(u)'
    <2>1. StageAt(u) /\ ValueAt(u)
      BY Zenon DEF DInv
    <2>2. StageAt(u)'
      BY <1>1, <2>1, Zenon DEF StageAt
    <2>3. ValueAt(u)'
      BY <1>1, <2>1, Zenon DEF ValueAt
    <2>4. QED
      BY <2>2, <2>3, Zenon
  <1>8. QED
    BY <1>3, <1>4, <1>5, <1>6, <1>7, Zenon DEF DInv

LEMMA FailInv ==
  ASSUME IdeConstants, DInv, Fail
  PROVE  DInv'
  <1> USE DEF chan, devs, hard, ghost
  <1>2. /\ ctl \in Controller
        /\ disk \in [Dev -> [Sec -> Value]]
    BY Zenon DEF DInv, TypeOK, Content
  <1>1. /\ ctl.status = "busy" /\ ctl'.status = "idle" /\ irq'
        /\ ctl'.dev = ctl.dev /\ ctl'.sector = ctl.sector /\ ctl'.cmd = ctl.cmd /\ ctl'.buf = ctl.buf
        /\ failed' = IF ctl.cmd = "store" THEN failed \cup {<<ctl.dev, ctl.sector>>} ELSE failed
        /\ UNCHANGED <<disk, lock, completion_wait, expecting_interrupt, is_ata, registered,
                       regs, spurious, pc, req, count, written, panic>>
    BY <1>2, Zenon DEF Fail, Controller
  <1>3. TypeOK'
    <2>1. ctl' \in Controller
      BY <1>2, Zenon DEF Fail, Controller
    <2>2. failed' \subseteq Dev \X Sec
      BY <1>1 DEF DInv, TypeOK, DataInv, Controller
    <2>3. TypeOK /\ irq' = TRUE
      BY Zenon DEF DInv, Fail
    <2>4. QED
      BY <1>1, <2>1, <2>2, <2>3, Zenon DEF TypeOK
  <1>4. BootInv' /\ UserInv'
    BY <1>1, Zenon DEF DInv, BootInv, UserInv
  <1>5. DataInv'
    BY <1>1 DEF DInv, DataInv, Pending
  <1>6. QuietInv'
    BY <1>1, Zenon DEF DInv, QuietInv, QuietAt, Calm
  <1>7. ASSUME NEW u \in Threads PROVE StageAt(u)' /\ ValueAt(u)'
    <2>1. StageAt(u) /\ ValueAt(u)
      BY Zenon DEF DInv
    <2>2. StageAt(u)'
      BY <1>1, <2>1, Zenon DEF StageAt
    <2>3. ValueAt(u)'
      BY <1>1, <2>1, Zenon DEF ValueAt
    <2>4. QED
      BY <2>2, <2>3, Zenon
  <1>8. QED
    BY <1>3, <1>4, <1>5, <1>6, <1>7, Zenon DEF DInv

(* ide_init identifies the next disk, or is done. *)
LEMMA NextDeviceInv ==
  ASSUME IdeConstants, DInv, NextDevice
  PROVE  DInv'
  <1> USE DEF chan, devs, hard, ghost, Goto
  <1>1. /\ pc[Boot] = "next" /\ pc'[Boot] \in {"select", "done"}
        /\ \A u \in Thread : pc[u] = "off" /\ pc'[u] = "off" /\ req'[u] = req[u]
        /\ pc'[Boot] = "select" => req'[Boot] \in Request /\ req'[Boot].op = "identify"
        /\ pc' \in [Threads -> Label]
        /\ req' \in [Threads -> Request \cup {NULL}]
    <2> DEFINE last == IF req[Boot] = NULL THEN -1 ELSE req[Boot].d
               todo == {d \in Dev : d > last /\ is_ata[d]}
               least == CHOOSE x \in todo : \A y \in todo : x <= y
    <2>1. /\ pc[Boot] = "next" /\ Boot \in Threads /\ Boot \notin Thread /\ Thread \subseteq Threads
          /\ \A u \in Thread : pc[u] = "off"
      BY Zenon DEF DInv, BootInv, NextDevice, Threads
    <2>2. /\ pc \in [Threads -> Label]
          /\ req \in [Threads -> Request \cup {NULL}]
      BY Zenon DEF DInv, TypeOK
    <2>3. CASE todo # {} /\ req' = [req EXCEPT ![Boot] = [op |-> "identify", d |-> least, s |-> NULL, v |-> NULL]]
               /\ pc' = [pc EXCEPT ![Boot] = "select"]
      <3>1. todo \subseteq Dev
        BY Zenon
      <3>2. \E x \in todo : \A y \in todo : x <= y
        <4>1. todo = {0} \/ todo = {1} \/ todo = {0, 1}
          BY <2>3, Zenon DEF Dev
        <4> HIDE DEF todo
        <4>2. QED
          BY <4>1
      <3> HIDE DEF todo
      <3>3. least \in Dev
        BY <3>1, <3>2, Zenon
      <3> HIDE DEF least
      <3>4. [op |-> "identify", d |-> least, s |-> NULL, v |-> NULL] \in Request
        BY <3>3, Zenon DEF Request
      <3>5. QED
        BY <2>1, <2>2, <2>3, <3>4, Zenon DEF Using, Label
    <2>4. CASE /\ pc' = [t \in Threads |-> IF t = Boot THEN "done" ELSE "off"]
               /\ req' = [req EXCEPT ![Boot] = NULL]
      BY <2>1, <2>2, <2>4, Zenon DEF Label
    <2>5. QED
      BY <2>3, <2>4, Zenon DEF NextDevice
  <1>2. UNCHANGED <<lock, completion_wait, expecting_interrupt, is_ata, registered, regs, ctl,
                    irq, disk, spurious, errors, count, written, failed, panic>>
    BY Zenon DEF NextDevice
  <1>3. TypeOK'
    BY <1>1, <1>2, Zenon DEF DInv, TypeOK
  <1>4. BootInv' /\ UserInv'
    BY <1>1, Zenon DEF BootInv, UserInv, Using, Booting
  <1>5. DataInv'
    BY <1>2, Zenon DEF DInv, DataInv, Pending
  <1>6. QuietInv'
    BY <1>1, <1>2, Zenon DEF DInv, QuietInv, QuietAt, Calm, Threads
  <1>7. ASSUME NEW u \in Threads PROVE StageAt(u)' /\ ValueAt(u)'
    BY <1>1, Zenon DEF StageAt, ValueAt, Threads
  <1>8. QED
    BY <1>3, <1>4, <1>5, <1>6, <1>7, Zenon DEF DInv
-----------------------------------------------------------------------------
LEMMA InitDInv ==
  ASSUME IdeConstants, Init
  PROVE  DInv
  <1>1. (CHOOSE v \in Value : TRUE) \in Value
    BY Zenon DEF IdeConstants
  <1>2. disk \in Content /\ written \in Content
    BY <1>1, Zenon DEF Init, Content
  <1>3. TypeOK
    BY <1>2, Zenon DEF Init, TypeOK, Dev, Controller, Label
  <1>4. BootInv /\ UserInv
    BY Zenon DEF IdeConstants, Init, BootInv, UserInv, Booting, Using, Threads
  <1>5. DataInv /\ QuietInv
    BY DEF Init, DataInv, Pending, QuietInv, QuietAt, Calm
  <1>6. ASSUME NEW t \in Threads PROVE StageAt(t) /\ ValueAt(t)
    BY Zenon DEF Init, StageAt, ValueAt
  <1>7. QED
    BY <1>3, <1>4, <1>5, <1>6, Zenon DEF DInv

LEMMA NextDInv ==
  ASSUME IdeConstants, DInv, [Next]_vars
  PROVE  DInv'
  <1>1. CASE Boots
    BY <1>1, ProbeInv, NextDeviceInv, Zenon DEF Boots
  <1>2. ASSUME NEW t \in Thread, Call(t) \/ Acquire(t) PROVE DInv'
    BY <1>2, CallInv, AcquireInv, Zenon
  <1>3. ASSUME NEW t \in Threads, Step(t) PROVE DInv'
    BY <1>3, PollIdleInv, SelectInv, AddressInv, IssueInv, DownInv, NotBusyInv, InputInv,
       OutputInv, ReleaseInv, Zenon
       DEF Step
  <1>4. CASE interrupt_handler \/ Spurious \/ Fail
    BY <1>4, HandlerInv, SpuriousInv, FailInv, Zenon
  <1>5. CASE Answer
    BY <1>5, AnswerReadInv, AnswerWriteInv, AnswerStoreInv, Zenon DEF Answer
  <1>6. CASE UNCHANGED vars
    <2>1. UNCHANGED <<lock, completion_wait, registered, ctl, irq, disk, spurious, pc, req, written, failed>>
      BY <1>6, Zenon DEF vars, chan, devs, hard, ghost
    <2>2. TypeOK' /\ BootInv' /\ UserInv'
      BY <2>1, Zenon DEF DInv, TypeOK, BootInv, UserInv
    <2>3. DataInv' /\ QuietInv'
      BY <2>1, Zenon DEF DInv, DataInv, Pending, QuietInv, QuietAt, Calm
    <2>4. \A t \in Threads : StageAt(t)' /\ ValueAt(t)'
      BY <2>1, Zenon DEF DInv, StageAt, ValueAt
    <2>5. QED
      BY <2>2, <2>3, <2>4, Zenon DEF DInv
  <1>7. QED
    BY <1>1, <1>2, <1>3, <1>4, <1>5, <1>6, Zenon DEF Next

(* The inductive invariant holds of every behaviour of the driver.           *)
THEOREM DInvHolds ==
  ASSUME IdeConstants
  PROVE  Spec => []DInv
  <1>1. Init => DInv
    BY InitDInv, Zenon
  <1>2. DInv /\ [Next]_vars => DInv'
    BY NextDInv, Zenon
  <1>3. QED
    BY <1>1, <1>2, PTL DEF Spec

(* What ide_read returns is what was last written to the sector, and what    *)
(* ide_write was given is on the disk when it returns unless an interrupt    *)
(* came that no command had caused, for any number of threads and requests:  *)
(* the lock gives the channel one user, whose command is the only one the    *)
(* controller works on.                                                      *)
THEOREM SectorsKeptHolds ==
  ASSUME IdeConstants
  PROVE  Spec => []SectorsKept
  <1>1. DInv => SectorsKept
    <2>1. SUFFICES ASSUME DInv, NEW t \in Thread, pc[t] = "release", <<req[t].d, req[t].s>> \notin failed
                   PROVE  /\ req[t].op = "read" => req[t].v = written[req[t].d][req[t].s]
                          /\ req[t].op = "write" /\ spurious = 0 => disk[req[t].d][req[t].s] = req[t].v
      BY Zenon DEF SectorsKept
    <2>2. t \in Threads /\ ValueAt(t)
      BY <2>1, Zenon DEF DInv, Threads
    <2>3. req[t].d \in Dev /\ (req[t].op # "identify" => req[t].s \in Sec)
      BY <2>1, <2>2, UserRequest, Zenon DEF Using
    <2>4. \A u \in Threads : u # t => pc[u] \notin Using
      BY <2>1, <2>2, OneUser, Zenon DEF Using
    <2>5. spurious = 0 => ctl.status # "busy"
      BY <2>1, <2>4, Zenon DEF DInv, QuietInv, Calm, Using
    <2>6. spurious = 0 /\ req[t].op # "identify" => disk[req[t].d][req[t].s] = written[req[t].d][req[t].s]
      BY <2>1, <2>3, <2>5, Zenon DEF DInv, DataInv, Pending
    <2>7. QED
      BY <2>1, <2>2, <2>6, Zenon DEF ValueAt
  <1>2. QED
    BY <1>1, DInvHolds, PTL
=============================================================================
